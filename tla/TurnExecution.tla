--------------------------- MODULE TurnExecution ---------------------------
(***************************************************************************)
(* The effects of one turn: the tool calls a model asks for, the two-phase *)
(* record that is written around each of them (`turn_tool_calls`: intent   *)
(* before the handler, outcome after it), and the repair a resume makes of *)
(* a batch that a crash left unanswered (agent/loop/tool-call.ts runTool,  *)
(* round.ts, durability.ts reconcile).                                     *)
(*                                                                         *)
(* Who may drive the turn is TurnStore's subject; here a claim is one      *)
(* step.  Because a process claims a turn only while it is not driving it, *)
(* the process itself stands for the claim token.  A claim can be taken    *)
(* from a process that is still at work (Expire), as TurnStore shows.      *)
(*                                                                         *)
(* Calls are numbered in the order the model asks for them, so a           *)
(* transcript is two watermarks, asked and answered, and the results of    *)
(* the answered calls: the loop pushes the results of a batch as one       *)
(* message after the whole batch.                                          *)
(***************************************************************************)
EXTENDS Naturals, FiniteSets

CONSTANTS
  Proc,        \* processes that may drive the turn
  Nobody,      \* the holder of a row that is not claimed
  MaxTier,     \* the highest trust tier a tool result can carry
  Rerunnable   \* the calls whose capability declares `rerunnable`

CONSTANTS      \* Bounds of the model; the code has none of the four
  MaxCall,     \* calls the model asks for
  MaxRuns,     \* runs of one call's handler after which it is not retried
  MaxCrash,    \* crashes of processes
  MaxExpire    \* claims reclaimed although their process is alive

Call == 1 .. MaxCall
Tier == 0 .. MaxTier

ASSUME NobodyIsNoProcess == Nobody \notin Proc
ASSUME TiersAreNaturals == MaxTier \in Nat
ASSUME CallBounds == /\ MaxCall \in Nat /\ MaxRuns \in Nat
                     /\ MaxCrash \in Nat /\ MaxExpire \in Nat
ASSUME RerunnableCalls == Rerunnable \subseteq Call

VARIABLES
  row,       \* the turn's row: status, holder, transcript, taint
  wal,       \* `turn_tool_calls`: the two-phase record of each call
  drive,     \* what each process holds of the turn in its memory
  runs,      \* how many times the handler of each call has been started
  faults     \* crashes, expiries, and whether a live driver lost its claim

vars == <<row, wal, drive, runs, faults>>

----------------------------------------------------------------------------

\* What the transcript says of a call: its outcome (and of which run), that it
\* may or may not have had effect, or that it was not executed.
Result == [kind : {"none", "done", "unknown", "refused"}, tier : Tier, run : Nat]

NoResult == [kind |-> "none", tier |-> 0, run |-> 0]
Unknown == [NoResult EXCEPT !.kind = "unknown"]
Refused == [NoResult EXCEPT !.kind = "refused"]
Done(tier, run) == [kind |-> "done", tier |-> tier, run |-> run]

Record == [intent : BOOLEAN, ended : BOOLEAN, tier : Tier, run : Nat]
NoRecord == [intent |-> FALSE, ended |-> FALSE, tier |-> 0, run |-> 0]

Row == [status : {"owed", "running", "done"}, holder : Proc \cup {Nobody},
        orphan : BOOLEAN, asked : Nat, answered : Nat,
        results : [Call -> Result], taint : Tier]

\* idle; claimed (row read back); reading (outcomes read, open calls not yet);
\* batch (between two calls); intended (intent written); called (handler
\* running); round (a checkpoint has landed, the model may speak).
Pc == {"idle", "claimed", "reading", "batch", "intended", "called", "round"}

Drive == [pc : Pc, repair : BOOLEAN, latched : BOOLEAN, asked : Nat,
          answered : Nat, at : Nat, run : Nat, results : [Call -> Result],
          taint : Tier, recorded : SUBSET Call, open : SUBSET Call]

NoResults == [c \in Call |-> NoResult]

Idle == [pc |-> "idle", repair |-> FALSE, latched |-> FALSE, asked |-> 0,
         answered |-> 0, at |-> 1, run |-> 0, results |-> NoResults,
         taint |-> 0, recorded |-> {}, open |-> {}]

Init ==
  /\ row = [status |-> "owed", holder |-> Nobody, orphan |-> FALSE, asked |-> 0,
            answered |-> 0, results |-> NoResults, taint |-> 0]
  /\ wal = [c \in Call |-> NoRecord]
  /\ drive = [p \in Proc |-> Idle]
  /\ runs = [c \in Call |-> 0]
  /\ faults = [crashes |-> 0, expired |-> 0, stolen |-> FALSE]

----------------------------------------------------------------------------

\* The fence of every write of the row but one.
Fenced(p) == row.holder = p

\* raiseTaint only ever raises.
Raised(taint, tier) == IF tier > taint THEN tier ELSE taint

SetDrive(p, d) == drive' = [drive EXCEPT ![p] = d]

\* The run's transcript, taint and counters.  Results the loop has not pushed
\* yet are in no message.
Saved(d) ==
  [row EXCEPT !.asked = d.asked, !.answered = d.answered, !.taint = d.taint,
     !.results = [c \in Call |-> IF c <= d.answered THEN d.results[c] ELSE NoResult]]

\* checkpoint: it lands and the run goes on as d, or the claim is gone and the
\* run stops, or SQLite fails: the run goes on with no further tool call.
Save(p, d) ==
  \/ Fenced(p) /\ row' = Saved(d) /\ SetDrive(p, d)
  \/ ~Fenced(p) /\ row' = row /\ SetDrive(p, Idle)
  \/ row' = row /\ SetDrive(p, [d EXCEPT !.latched = TRUE])

\* The writes that let the turn go: finish, suspend, releaseContinuable.  One
\* that throws leaves the row running, and nobody driving it.
Leave(p, status) ==
  /\ \/ /\ Fenced(p)
        /\ row' = [Saved(drive[p]) EXCEPT !.status = status, !.holder = Nobody]
     \/ row' = row
  /\ SetDrive(p, Idle)
  /\ UNCHANGED <<wal, runs, faults>>

\* The call at hand has its result; on to the next one.
Answered(d, result, taint) ==
  [d EXCEPT !.pc = "batch", !.results[d.at] = result, !.taint = taint, !.at = @ + 1]

----------------------------------------------------------------------------
(* Taking the turn up.                                                     *)

Claim(p) ==
  /\ drive[p].pc = "idle"
  /\ row.status = "owed"
  /\ row' = [row EXCEPT !.status = "running", !.holder = p, !.orphan = FALSE]
  /\ SetDrive(p, [Idle EXCEPT !.pc = "claimed", !.repair = TRUE,
       !.asked = row.asked, !.answered = row.answered, !.at = row.answered + 1,
       !.results = row.results, !.taint = row.taint])
  /\ UNCHANGED <<wal, runs, faults>>

\* reconcile reads the recorded outcomes, then the calls still open.
HasOutcome == {c \in Call : wal[c].ended}
IsOpen == {c \in Call : wal[c].intent /\ ~wal[c].ended}

ReadOutcomes(p) ==
  /\ drive[p].pc = "claimed"
  /\ SetDrive(p, [drive[p] EXCEPT !.pc = "reading", !.recorded = HasOutcome])
  /\ UNCHANGED <<row, wal, runs, faults>>

ReadOpen(p) ==
  /\ drive[p].pc = "reading"
  /\ SetDrive(p, [drive[p] EXCEPT !.pc = "batch", !.open = IsOpen])
  /\ UNCHANGED <<row, wal, runs, faults>>

(* A call that the repair can answer without running it.                   *)

Pending(p) == drive[p].pc = "batch" /\ drive[p].at <= drive[p].asked

Recorded(d) == d.repair /\ d.at \in d.recorded

\* Fault: only a call with an outcome counts as started.
Fault_UncertainIfRecorded(d) == d.repair /\ d.at \in d.recorded /\ d.at \notin Rerunnable

Uncertain(d) == d.repair /\ d.at \in d.open \ d.recorded /\ d.at \notin Rerunnable

\* Faults: the replay forgets the tier, or reports the turn's as the result's.
Fault_ReplayKeepsTaint(p) ==
  LET d == drive[p]
      w == wal[d.at]
  IN  /\ Pending(p)
      /\ Recorded(d)
      /\ SetDrive(p, Answered(d, Done(w.tier, w.run), d.taint))
      /\ UNCHANGED <<row, wal, runs, faults>>

Fault_ReplayWithTurnTier(p) ==
  LET d == drive[p]
      w == wal[d.at]
  IN  /\ Pending(p)
      /\ Recorded(d)
      /\ SetDrive(p, Answered(d, Done(d.taint, w.run), Raised(d.taint, w.tier)))
      /\ UNCHANGED <<row, wal, runs, faults>>

\* done: the recorded outcome is replayed, and its tier with it.
Replay(p) ==
  LET d == drive[p]
      w == wal[d.at]
  IN  /\ Pending(p)
      /\ Recorded(d)
      /\ SetDrive(p, Answered(d, Done(w.tier, w.run), Raised(d.taint, w.tier)))
      /\ UNCHANGED <<row, wal, runs, faults>>

\* Fault: a call that may have run is reported as not executed.
Fault_DeclareRefused(p) ==
  LET d == drive[p]
  IN  /\ Pending(p)
      /\ Uncertain(d)
      /\ SetDrive(p, Answered(d, Refused, d.taint))
      /\ UNCHANGED <<row, wal, runs, faults>>

\* maybe done, and not to be repeated: the turn is told that nobody knows.
Declare(p) ==
  LET d == drive[p]
  IN  /\ Pending(p)
      /\ Uncertain(d)
      /\ SetDrive(p, Answered(d, Unknown, d.taint))
      /\ UNCHANGED <<row, wal, runs, faults>>

(* runTool.                                                                *)

Runs(p) == Pending(p) /\ ~Recorded(drive[p]) /\ ~Uncertain(drive[p])

\* The kernel denies the call, or the durability latch is set, or the intent
\* cannot be written (which sets the latch): the handler is not started.
Refuse(p, latched) ==
  LET d == drive[p]
  IN  /\ Runs(p)
      /\ d.latched => latched
      /\ SetDrive(p, [Answered(d, Refused, d.taint) EXCEPT !.latched = latched])
      /\ UNCHANGED <<row, wal, runs, faults>>

\* startToolCall: ON CONFLICT(turn_id, call_id) DO NOTHING.
Intend(p) ==
  LET d == drive[p]
  IN  /\ Runs(p)
      /\ ~d.latched
      /\ wal' = [wal EXCEPT ![d.at].intent = TRUE]
      /\ SetDrive(p, [d EXCEPT !.pc = "intended"])
      /\ UNCHANGED <<row, runs, faults>>

\* An outcome is already recorded for this call: replayed, never run again.
Reuse(p) ==
  LET d == drive[p]
      w == wal[d.at]
  IN  /\ d.pc = "intended"
      /\ w.ended
      /\ SetDrive(p, Answered(d, Done(w.tier, w.run), Raised(d.taint, w.tier)))
      /\ UNCHANGED <<row, wal, runs, faults>>

\* The outcomes cannot be read: the call is stopped, and the latch is set.
ReadFails(p) ==
  LET d == drive[p]
  IN  /\ d.pc = "intended"
      /\ SetDrive(p, [Answered(d, Refused, d.taint) EXCEPT !.latched = TRUE])
      /\ UNCHANGED <<row, wal, runs, faults>>

StartHandler(p) ==
  LET d == drive[p]
  IN  /\ runs' = [runs EXCEPT ![d.at] = @ + 1]
      /\ SetDrive(p, [d EXCEPT !.pc = "called", !.run = runs[d.at] + 1])
      /\ UNCHANGED <<row, wal, faults>>

Handle(p) ==
  /\ drive[p].pc = "intended"
  /\ ~wal[drive[p].at].ended
  /\ StartHandler(p)

\* eseguiConRitentativi: a transient failure of a rerunnable call.
Retry(p) ==
  /\ drive[p].pc = "called"
  /\ drive[p].at \in Rerunnable
  /\ runs[drive[p].at] < MaxRuns
  /\ StartHandler(p)

\* endToolCall, one transaction: the outcome, and the taint it drags in.  It is
\* the one write of the row that is not fenced.
Outcome(p, tier) ==
  LET d == drive[p]
  IN  /\ d.pc = "called"
      /\ wal' = [wal EXCEPT ![d.at] = [@ EXCEPT !.ended = TRUE, !.tier = tier, !.run = d.run]]
      /\ row' = [row EXCEPT !.taint = Raised(@, tier)]
      /\ SetDrive(p, Answered(d, Done(tier, d.run), Raised(d.taint, tier)))
      /\ UNCHANGED <<runs, faults>>

\* The outcome cannot be written: the result stands, no further call is made.
OutcomeFails(p, tier) ==
  LET d == drive[p]
  IN  /\ d.pc = "called"
      /\ SetDrive(p, [Answered(d, Done(tier, d.run), Raised(d.taint, tier))
                        EXCEPT !.latched = TRUE])
      /\ UNCHANGED <<row, wal, runs, faults>>

(* Rounds.                                                                 *)

\* The results of the batch are pushed, and the checkpoint that opens the next
\* iteration (or ends the repair) saves them.
Close(p) ==
  LET d == [drive[p] EXCEPT !.pc = "round", !.answered = drive[p].asked,
                            !.repair = FALSE, !.recorded = {}, !.open = {}]
  IN  /\ drive[p].pc = "batch"
      /\ drive[p].at > drive[p].asked
      /\ Save(p, d)
      /\ UNCHANGED <<wal, runs, faults>>

\* The model answers with a batch of calls, and the transcript is saved before
\* the first of them is allowed to run.
Ask(p, n) ==
  LET d == [drive[p] EXCEPT !.pc = "batch", !.asked = @ + n]
  IN  /\ drive[p].pc = "round"
      /\ d.asked <= MaxCall
      /\ Save(p, d)
      /\ UNCHANGED <<wal, runs, faults>>

\* The answer, or an ending between two calls of a batch the model has just asked
\* for: aborted, an approval that cannot be asked for here, a throw.
Finish(p) ==
  /\ drive[p].pc = "round" \/ (drive[p].pc = "batch" /\ ~drive[p].repair)
  /\ Leave(p, "done")

\* The preamble throws: the row stays running, and nobody is driving it.
Abandon(p) ==
  /\ drive[p].pc = "claimed"
  /\ SetDrive(p, Idle)
  /\ UNCHANGED <<row, wal, runs, faults>>

\* suspendHere, releaseContinuable: work is still owed.
Yield(p) == drive[p].pc = "round" /\ Leave(p, "owed")

(* Failures.                                                               *)

Crash(p) ==
  /\ drive[p].pc # "idle"
  /\ faults.crashes < MaxCrash
  /\ faults' = [faults EXCEPT !.crashes = @ + 1]
  /\ SetDrive(p, Idle)
  /\ row' = IF Fenced(p) THEN [row EXCEPT !.orphan = TRUE] ELSE row
  /\ UNCHANGED <<wal, runs>>

Freed == [row EXCEPT !.status = "owed", !.holder = Nobody]

\* reclaim, at a boot: the holder is dead.
Reclaim ==
  /\ row.status = "running" /\ row.orphan
  /\ row' = Freed
  /\ UNCHANGED <<wal, drive, runs, faults>>

\* reclaim of a row past the stale horizon, or judged on an older read.
Expire ==
  /\ row.status = "running" /\ ~row.orphan
  /\ faults.expired < MaxExpire
  /\ row' = Freed
  /\ faults' = [faults EXCEPT !.expired = @ + 1,
                              !.stolen = @ \/ drive[row.holder].pc # "idle"]
  /\ UNCHANGED <<wal, drive, runs>>

----------------------------------------------------------------------------

Resume(p) == Claim(p) \/ ReadOutcomes(p) \/ ReadOpen(p) \/ Replay(p) \/ Declare(p)

RunTool(p) ==
  \/ \E latched \in BOOLEAN : Refuse(p, latched)
  \/ Intend(p) \/ Reuse(p) \/ ReadFails(p) \/ Handle(p) \/ Retry(p)
  \/ \E tier \in Tier : Outcome(p, tier) \/ OutcomeFails(p, tier)

Rounds(p) == Close(p) \/ (\E n \in Call : Ask(p, n)) \/ Finish(p) \/ Yield(p) \/ Abandon(p)

Next ==
  \/ \E p \in Proc : Resume(p) \/ RunTool(p) \/ Rounds(p) \/ Crash(p)
  \/ Reclaim \/ Expire

Spec == Init /\ [][Next]_vars

----------------------------------------------------------------------------
(* Properties.                                                             *)

\* Every variable has its type.
TypeOK ==
  /\ row \in Row
  /\ wal \in [Call -> Record]
  /\ drive \in [Proc -> Drive]
  /\ runs \in [Call -> Nat]
  /\ faults \in [crashes : Nat, expired : Nat, stolen : BOOLEAN]

\* EFFECT WAL: no handler is started unless its intent is durable, so that a
\* missing intent row means "never started" whoever crashed, stole or failed.
EffectIsIntended == \A c \in Call : runs[c] > 0 => wal[c].intent

\* A handler that may not be run again is not, through any number of crashes and
\* resumes, unless the claim is taken from a process that is still at work.
UnrepeatableRunsOnce ==
  ~faults.stolen => \A c \in Call \ Rerunnable : runs[c] <= 1

\* The transcript is honest about what it cannot repeat: "not executed" means it
\* never ran, what may have run is not passed over, and a result is the result of
\* a run, the one on record if there is one: a resume recomputes nothing.
TranscriptIsHonest ==
  ~faults.stolen => \A c \in Call :
    /\ row.results[c].kind = "refused" /\ c \notin Rerunnable => runs[c] = 0
    /\ row.results[c].kind = "done" => row.results[c].run \in 1 .. runs[c]
    /\ row.results[c].kind = "unknown" => wal[c].intent
    /\ row.results[c].kind = "done" /\ wal[c].ended =>
         row.results[c] = Done(wal[c].tier, wal[c].run)

\* The row's taint covers every result its transcript shows the model, and,
\* while no live process loses its claim, every outcome on record.
TaintCovers ==
  /\ \A c \in Call : row.results[c].kind = "done" => row.taint >= row.results[c].tier
  /\ ~faults.stolen => \A c \in Call : wal[c].ended => row.taint >= wal[c].tier

----------------------------------------------------------------------------
(* What the comments of the code say of it, and the code does not do.      *)

\* store.ts on taintStmt: "taint must only ever rise".
TaintOnlyRises == [][row'.taint >= row.taint]_row
=============================================================================
