---------------------------- MODULE Commitments ----------------------------
(***************************************************************************)
(* Promises that come due and are told to the owner once                   *)
(* (core/scheduler/commitments.ts), on the beat of whichever gateway holds *)
(* the claim on the home.  A pass holds the lock of proactive sends, which *)
(* `muffin observe --send` takes too, reads what is due, asks the gate, and*)
(* then sends one promise after another, burning the anchor of each one    *)
(* after it has arrived.                                                   *)
(*                                                                         *)
(* Two instances of DurableLock: the claim of the gateway and the lock of  *)
(* sends.  A process may die between any two steps, a gateway may be       *)
(* replaced while its pass is still under way, and a stop closes the       *)
(* database without waiting for the pass.                                  *)
(***************************************************************************)
EXTENDS Naturals, FiniteSets

CONSTANTS
  Gateway,    \* gateway processes
  Cli,        \* runs of `muffin observe --send`, which only contend for the lock
  Pid, PidOf, \* see DurableLock
  Promise,    \* dated steps: a finite set of naturals, in the order of the query
  MaxDate,    \* bound: dates are 1 .. MaxDate
  Limit,      \* COMMITMENT_LIMIT
  MaxChanges, \* bound: edits of a step and changes of the evidence about its text
  MaxFaults   \* bound: deaths, stops and horizons that pass

\* A gateway is not a command, and each process has a pid of its own.
ASSUME Processes ==
  /\ Gateway \cap Cli = {}
  /\ "gone" \notin Gateway \cup Cli /\ "no pid" \notin Pid
  /\ PidOf \in [Gateway \cup Cli -> Pid]
  /\ \A p, q \in Gateway \cup Cli : p # q => PidOf[p] # PidOf[q]

\* Steps are ordered, for the list to be.
ASSUME Promises == Promise \subseteq Nat /\ MaxDate \in Nat

VARIABLES
  claim, claims, claimLate,  \* the claim of the gateway (DurableLock)
  send, sends, sendLate,     \* the lock of sends (DurableLock)
  up,          \* running processes
  leaving,     \* of each gateway: whether it drains, and has closed the database
  now,         \* the clock of dates
  date, open,  \* todos: due_at, and whether the step is still to be done
  tainted,     \* promises written or dated under a ceiling above 1: never lowered
  untrusted,   \* promises whose text is found in untrusted evidence that stands
  fires,       \* FireLog: what was recorded for each anchor
  todo, phase, \* of the pass of each gateway: what is left, and where it is
  told, again, \* history: anchors told, and told more than once
  overdue,     \* history: anchors refused by a pass that had outlived its lock
  lost,        \* history: anchors whose telling could not be recorded
  left         \* how much of each bound is left

lockVars == <<claim, claims, claimLate, send, sends, sendLate, up>>
planVars == <<now, date, open, tainted, untrusted>>
passVars == <<todo, phase>>
history == <<told, again, lost, overdue>>
vars == <<lockVars, leaving, planVars, fires, passVars, history, left>>

Process == Gateway \cup Cli

GL == INSTANCE DurableLock WITH row <- claim, holds <- claims, late <- claimLate
SL == INSTANCE DurableLock WITH row <- send, holds <- sends, late <- sendLate

claimVars == <<claim, claims, claimLate>>
sendVars == <<send, sends, sendLate>>

----------------------------------------------------------------------------

Undated == MaxDate + 1
Date == 1 .. Undated

\* commitmentAnchor: the row and the moment, so that a new date may speak again.
Anchor == Promise \X Date
AnchorOf(c) == <<c, date[c]>>

Due == {c \in Promise : open[c] /\ date[c] <= now}

\* ORDER BY due_at, session_id, seq.
Before(a, b) == a[2] < b[2] \/ (a[2] = b[2] /\ a[1] < b[1])

\* decideProactive, in its order: what is tainted is refused even in quiet hours.
DecideProactive(c, quiet) ==
  IF c \in tainted \cup untrusted THEN "deny"
  ELSE IF quiet THEN "defer" ELSE "allow"

\* What has been said or refused at this date is skipped, before the gate.
Observed(c, quiet) == IF fires[AnchorOf(c)] # "none" THEN "skip" ELSE DecideProactive(c, quiet)

\* Fault: every decision spends the budget, not only what lands on the owner.
Fault_SpendsAll(e) == TRUE

Spends(e) == e = "allow"

\* observeCommitments: the due list until Limit of them may speak.  What is
\* skipped or deferred writes nothing, so the pass keeps the rest of it.
Spoken(c, quiet) ==
  {d \in Due : Before(AnchorOf(d), AnchorOf(c)) /\ Spends(Observed(d, quiet))}

Observations(quiet) ==
  {<<AnchorOf(c), Observed(c, quiet)>> :
     c \in {d \in Due : /\ Observed(d, quiet) \in {"allow", "deny"}
                        /\ Cardinality(Spoken(d, quiet)) < Limit}}

\* The observation a pass is at: the first in the order of the list, if any is left.
First(p) == {o \in todo[p] : \A r \in todo[p] \ {o} : Before(o[1], r[1])}
At(p) == {o[1] : o \in First(p)}
Has(p, effect) == \E o \in First(p) : o[2] = effect

Goes(p, where) == phase' = [phase EXCEPT ![p] = where]
Drop(p) == todo' = [todo EXCEPT ![p] = @ \ First(p)]

\* FireLog.record: INSERT OR IGNORE, the first record of an anchor stands.
Record(anchors, effect) ==
  fires' = [a \in Anchor |-> IF a \in anchors /\ fires[a] = "none" THEN effect ELSE fires[a]]

Closed(p) == leaving[p] = "closed"

Init ==
  /\ GL!Init /\ SL!Init
  /\ leaving = [p \in Gateway |-> "no"]
  /\ now = 0
  /\ date = [c \in Promise |-> 1]
  /\ open = [c \in Promise |-> TRUE]
  /\ tainted = {} /\ untrusted = {}
  /\ fires = [a \in Anchor |-> "none"]
  /\ todo = [p \in Gateway |-> {}]
  /\ phase = [p \in Gateway |-> "idle"]
  /\ told = {} /\ again = {} /\ lost = {} /\ overdue = {}
  /\ left = [changes |-> MaxChanges, faults |-> MaxFaults]

----------------------------------------------------------------------------
(* The gateway.                                                            *)

Fault == left.faults > 0 /\ left' = [left EXCEPT !.faults = @ - 1]

Claim(p) ==
  /\ p \in Gateway \ claims /\ leaving[p] = "no"
  /\ GL!Acquire(p)
  /\ UNCHANGED <<sendVars, leaving, planVars, fires, passVars, history, left>>

\* drain.
Leave(p) ==
  /\ p \in claims /\ leaving[p] = "no"
  /\ leaving' = [leaving EXCEPT ![p] = "draining"]
  /\ UNCHANGED <<lockVars, planVars, fires, passVars, history>>

Stopped(p) == Fault /\ Leave(p)
\* A beat found the claim taken, or too old to be taken back.
Withdraws(p) == ~GL!Refreshable(p) /\ Leave(p) /\ UNCHANGED left

\* It waits for the jobs and the lane, not for the pass, and lets go.
LetGo(p) ==
  /\ p \in Gateway /\ leaving[p] = "draining"
  /\ GL!Release(p)
  /\ UNCHANGED <<sendVars, leaving, planVars, fires, passVars, history, left>>

Close(p) ==
  /\ p \in Gateway \ claims /\ leaving[p] = "draining"
  /\ leaving' = [leaving EXCEPT ![p] = "closed"]
  /\ UNCHANGED <<lockVars, planVars, fires, passVars, history, left>>

\* A telling that has arrived and is not on record when its process ends, or
\* outlives its lock, is lost to the log.
Unrecorded(p) ==
  IF p \in Gateway /\ phase[p] = "told" THEN At(p) ELSE {}

Dies(p) ==
  /\ GL!Die(p) /\ SL!Die(p)
  /\ lost' = lost \cup Unrecorded(p)
  /\ leaving' = [leaving EXCEPT ![p] = "no"]
  /\ todo' = [todo EXCEPT ![p] = {}] /\ Goes(p, "idle")
  /\ UNCHANGED <<planVars, fires, told, again, overdue>>

\* serve() has returned and nothing is left to await, or the process is killed.
Ends(p) == Closed(p) /\ phase[p] = "idle" /\ Dies(p) /\ UNCHANGED left
Killed(p) == Fault /\ Dies(p)

Start(p) ==
  /\ GL!Start(p) /\ SL!Start(p)
  /\ UNCHANGED <<leaving, planVars, fires, passVars, history, left>>

ClaimAges ==
  /\ Fault /\ GL!Age
  /\ UNCHANGED <<sendVars, leaving, planVars, fires, passVars, history>>

SendAges ==
  /\ Fault /\ SL!Age
  /\ lost' = lost \cup UNION {Unrecorded(p) : p \in {send.by} \cap up}
  /\ UNCHANGED <<claimVars, leaving, planVars, fires, passVars, told, again, overdue>>

(* The pass.                                                               *)

\* Fault: what is due is read and sent under no lock.
Fault_NoSendLock(p) == UNCHANGED <<sendVars, up>>

TakesSendLock(p) == SL!Acquire(p)

\* Fault: a beat takes back a claim that another gateway has meanwhile.
Fault_BeatsAnyway(p) ==
  /\ p \in claims
  /\ claim' = GL!Claimed(p)
  /\ UNCHANGED <<claims, claimLate, up>>

Beats(p) == GL!Refresh(p)

\* Gateway.tick refreshes the claim and Scheduler.tick, finding it still its
\* own, starts the pass, unless one is running or the lock is taken.  It may find
\* itself in quiet hours, or with the budget spent.
Pass(p, quiet) ==
  /\ p \in Gateway /\ leaving[p] = "no" /\ phase[p] = "idle"
  /\ Beats(p)
  /\ TakesSendLock(p)
  /\ todo' = [todo EXCEPT ![p] = Observations(quiet)]
  /\ Goes(p, "loop")
  /\ UNCHANGED <<leaving, planVars, fires, history, left>>

\* recordCommitmentDenied.
Refuse(p) ==
  /\ phase[p] = "loop" /\ Has(p, "deny") /\ ~Closed(p)
  /\ Record(At(p), "deny")
  /\ overdue' = IF p \in sendLate THEN overdue \cup At(p) ELSE overdue
  /\ Drop(p)
  /\ UNCHANGED <<lockVars, leaving, planVars, phase, told, again, lost, left>>

\* Fault: what could not be delivered is burnt all the same.
Fault_BurnsAnyway(p) ==
  /\ phase[p] = "loop" /\ Has(p, "allow")
  /\ Record(At(p), "allow")
  /\ Drop(p)
  /\ UNCHANGED <<lockVars, leaving, planVars, phase, history, left>>

\* The default channel does not reach the owner, or the message did not land: the
\* anchor stays open and the next pass tries again.
NotDelivered(p) ==
  /\ phase[p] = "loop" /\ Has(p, "allow")
  /\ Drop(p)
  /\ UNCHANGED <<lockVars, leaving, planVars, fires, phase, history, left>>

Deliver(p) ==
  /\ phase[p] = "loop" /\ Has(p, "allow")
  /\ told' = told \cup At(p)
  /\ again' = again \cup (At(p) \cap told)
  /\ lost' = IF p \in sendLate THEN lost \cup At(p) ELSE lost
  /\ Goes(p, "told")
  /\ UNCHANGED <<lockVars, leaving, planVars, fires, todo, overdue, left>>

\* recordCommitmentFired, which throws on a closed database and is caught.
Fired(p) ==
  /\ phase[p] = "told"
  /\ IF Closed(p)
     THEN lost' = lost \cup At(p) /\ UNCHANGED fires
     ELSE Record(At(p), "allow") /\ UNCHANGED lost
  /\ Drop(p) /\ Goes(p, "loop")
  /\ UNCHANGED <<lockVars, leaving, planVars, told, again, overdue, left>>

\* The pass ends.  On a closed database a refusal, or the release, throws.
EndPass(p) ==
  /\ phase[p] = "loop"
  /\ todo[p] = {} \/ (Closed(p) /\ Has(p, "deny"))
  /\ IF Closed(p) THEN UNCHANGED <<sendVars, up>> ELSE SL!Release(p)
  /\ todo' = [todo EXCEPT ![p] = {}] /\ Goes(p, "idle")
  /\ UNCHANGED <<claimVars, leaving, planVars, fires, history, left>>

ObserveTakes(p) ==
  /\ p \in Cli \ sends
  /\ SL!Acquire(p)
  /\ UNCHANGED <<claimVars, leaving, planVars, fires, passVars, history, left>>

ObserveEnds(p) ==
  /\ p \in Cli
  /\ SL!Release(p)
  /\ UNCHANGED <<claimVars, leaving, planVars, fires, passVars, history, left>>

(* The owner, the clock and the evidence.                                  *)

World == UNCHANGED <<lockVars, leaving, fires, passVars, history>>

Clock ==
  /\ now < MaxDate /\ now' = now + 1
  /\ World /\ UNCHANGED <<date, open, tainted, untrusted, left>>

\* setDue, by a turn under a ceiling above 1 or not; setState, back and forth.
Edit(c) ==
  /\ left.changes > 0 /\ left' = [left EXCEPT !.changes = @ - 1]
  /\ \/ /\ \E d \in Date \ {date[c]} : date' = [date EXCEPT ![c] = d]
        /\ tainted' \in {tainted, tainted \cup {c}}
        /\ UNCHANGED open
     \/ open' = [open EXCEPT ![c] = ~@] /\ UNCHANGED <<date, tainted>>
  /\ World /\ UNCHANGED <<now, untrusted>>

\* An untrusted episode with these words is recorded, or withdrawn.
Evidence(c) ==
  /\ left.changes > 0 /\ left' = [left EXCEPT !.changes = @ - 1]
  /\ untrusted' = IF c \in untrusted THEN untrusted \ {c} ELSE untrusted \cup {c}
  /\ World /\ UNCHANGED <<now, date, open, tainted>>

----------------------------------------------------------------------------

Loop(p) ==
  \/ Refuse(p) \/ NotDelivered(p) \/ Deliver(p) \/ Fired(p) \/ EndPass(p)

Next ==
  \/ ClaimAges \/ SendAges \/ Clock
  \/ \E p \in Gateway :
       \/ Claim(p) \/ Stopped(p) \/ Withdraws(p) \/ LetGo(p) \/ Close(p)
       \/ Ends(p) \/ Killed(p) \/ Start(p) \/ Loop(p)
  \/ \E p \in Gateway, quiet \in BOOLEAN : Pass(p, quiet)
  \/ \E p \in Cli : ObserveTakes(p) \/ ObserveEnds(p)
  \/ \E c \in Promise : Edit(c) \/ Evidence(c)

Spec == Init /\ [][Next]_vars

(***************************************************************************)
(* Fairness: the supervisor restarts what ends, a beat comes, a pass goes  *)
(* on and so does `observe`.  Outside quiet hours a beat finds the lock of *)
(* sends free again and again; a channel that is up again and again takes  *)
(* each message sooner or later.  Faults are finitely many.                *)
(***************************************************************************)
Fairness ==
  /\ \A p \in Gateway :
       /\ WF_vars(Start(p) \/ Claim(p) \/ LetGo(p) \/ Close(p) \/ Ends(p) \/ Withdraws(p))
       /\ WF_vars(Loop(p))
       /\ SF_vars(Pass(p, FALSE))
  /\ \A p \in Cli : WF_vars(ObserveEnds(p))
  /\ \A c \in Promise : SF_vars(\E p \in Gateway : Deliver(p) /\ \E a \in At(p) : a[1] = c)

FairSpec == Spec /\ Fairness

----------------------------------------------------------------------------
(* Properties.                                                             *)

\* The log of fires agrees with what the owner was told.  A promise is told once
\* for each of its dates, whoever else is sending, unless a process ended, or
\* outlived its lock, between a telling and its record; and an anchor is burnt as
\* spoken only by a telling that arrived, so none falls silent that never was.
LogAgrees ==
  /\ again \subseteq lost
  /\ \A a \in Anchor : fires[a] = "allow" => a \in told

\* What the gate has refused for good is not told afterwards, by the pass that
\* refused it or by one that had read the list before, unless the one that refuses
\* or the one that tells has outlived its lock.
RefusedIsSilent ==
  [][\A a \in Anchor :
       fires[a] = "deny" /\ a \in told' => a \in told \cup lost' \cup overdue]_vars

\* The claim and the lock of sends behave as the lock they are instances of,
\* whatever a gateway does that holds both.
LocksAreDurable == GL!Spec /\ SL!Spec

\* A promise that is due, may be told, and has not been.
Owed(c) ==
  /\ c \in Due /\ c \notin tainted \cup untrusted
  /\ fires[AnchorOf(c)] = "none"

\* A promise that may be told does not stay owed for ever: denied and deferred
\* ones do not spend the budget of the pass, and an anchor stays open until a
\* telling arrives.
OwedIsTold == \A c \in Promise : []<>~Owed(c)

\* commitments.ts: "Un `deny` e' definitivo": "a commitment denied
\* `tainted_source` can never later be allowed".
DenyIsFinal ==
  \A c \in Promise : fires[AnchorOf(c)] = "deny" => c \in tainted \cup untrusted
=============================================================================
