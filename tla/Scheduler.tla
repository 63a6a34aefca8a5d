----------------------------- MODULE Scheduler -----------------------------
(***************************************************************************)
(* One occurrence of a scheduled job, from the beat of the gateway that    *)
(* finds it due to the schedule that moves on: the fire, the turn it is    *)
(* bound to, the delivery and the settlement, with the turn lane beside it *)
(* on the same beat and the same model token (scheduler.ts, job-fires.ts,  *)
(* agent/scheduler-run.ts, agent/turn-lane.ts, gateway/service.ts).        *)
(*                                                                         *)
(* A step of a run is one statement on the database or one await.  A turn  *)
(* that is not done and not running is `owed`, whatever keeps it: an       *)
(* interruption, a barrier, or the end of its lease.                       *)
(***************************************************************************)
EXTENDS Integers

CONSTANTS
  Proc,      \* processes that can be the gateway
  Nobody,    \* no process
  Job,       \* scheduled jobs
  MaxTime,   \* bound: the clock, in units of the cron
  MaxFault   \* bound: crashes, lost claims and failed runs

ASSUME Constants ==
  /\ Nobody \notin Proc
  /\ MaxTime \in Nat /\ MaxFault \in Nat

VARIABLES
  now,    \* the clock
  job,    \* the jobs table
  fire,   \* the job_fires table: one row per occurrence
  turn,   \* the turns of an occurrence, each under the id its process minted
  claim,  \* the claim of the gateway
  work,   \* what each process does with its model token
  hist    \* what happened, for the properties

vars == <<now, job, fire, turn, claim, work, hist>>

Slot == 0 .. MaxTime + 1

\* (job_id, scheduled_for): the occurrence that was due, not when it was noticed.
Occ == Job \X Slot

ASSUME NobodyIsNoOccurrence == Nobody \notin Occ

JobRow == [active : BOOLEAN, once : BOOLEAN, next : Slot]

Fire == [claimed : BOOLEAN, turn : Proc \cup {Nobody}, settled : BOOLEAN]

Turn == [status   : {"absent", "running", "owed", "done"},
         holder   : Proc \cup {Nobody},
         says     : BOOLEAN,                   \* there is an answer to send
         delivery : {"pending", "sent", "failed"}]

NoTurn == [status |-> "absent", holder |-> Nobody, says |-> FALSE,
           delivery |-> "pending"]

\* `id` is the process that minted the turn of the run, Nobody when the outcome
\* has no turn; `answer` tells an outcome from a diagnosis.
Pc == {"idle", "due", "unbound", "bound", "fresh", "driving", "handed",
       "outcome", "delivering", "told", "settling", "marking",
       "taken", "resumed", "sending", "noting"}

Work == [pc : Pc, occ : Occ \cup {Nobody}, id : Proc \cup {Nobody},
         answer : BOOLEAN, says : BOOLEAN, arrived : BOOLEAN]

Idle == [pc |-> "idle", occ |-> Nobody, id |-> Nobody,
         answer |-> FALSE, says |-> FALSE, arrived |-> FALSE]

History == [told : [Occ -> Nat], diagnosed : SUBSET Occ, faults : 0 .. MaxFault,
            stolen : BOOLEAN]

Init ==
  /\ now = 0
  /\ \E once \in [Job -> BOOLEAN] :
       job = [j \in Job |-> [active |-> TRUE, once |-> once[j], next |-> 0]]
  /\ fire = [o \in Occ |-> [claimed |-> FALSE, turn |-> Nobody, settled |-> FALSE]]
  /\ turn = [o \in Occ |-> [p \in Proc |-> NoTurn]]
  /\ claim = Nobody
  /\ work = [p \in Proc |-> Idle]
  /\ hist = [told |-> [o \in Occ |-> 0], diagnosed |-> {}, faults |-> 0,
             stolen |-> FALSE]

At(p, pc) == work[p].pc = pc

Goes(p, pc) == work' = [work EXCEPT ![p].pc = pc]

\* The promise settles, and its finally gives the model token back.
Over(p) == work' = [work EXCEPT ![p] = Idle]

Its(p) == turn[work[p].occ][work[p].id]

SetTurn(p, r) == turn' = [turn EXCEPT ![work[p].occ][work[p].id] = r]

\* isCurrentClaim: asked before work starts and again before it is delivered.
StillOwner(p) == claim = p

Happens == hist.faults < MaxFault /\ hist' = [hist EXCEPT !.faults = @ + 1]

----------------------------------------------------------------------------
(* The beat: the scheduler first, then the turn lane, in one call.         *)

DueJobs == {j \in Job : job[j].active /\ job[j].next <= now}

\* ORDER BY next_fire_at, the first row.
FirstDue == {j \in DueJobs : \A k \in DueJobs : job[j].next <= job[k].next}

Owed == {o \in Occ : \E m \in Proc : turn[o][m].status = "owed"}

\* The lane takes a row; resumeTurn or runAutonomous comes next.
LaneTakes(p, o) ==
  \E m \in Proc : /\ turn[o][m].status = "owed"
                  /\ work' = [work EXCEPT ![p] = [Idle EXCEPT
                       !.pc = "taken", !.occ = o, !.id = m]]

\* The scheduler takes the token before its run starts, so the lane, asked in the
\* same call, finds it taken: the lane works on the beats with no job due.
Beat(p) ==
  /\ StillOwner(p) /\ At(p, "idle")
  /\ \/ \E j \in FirstDue : work' = [work EXCEPT ![p] = [Idle EXCEPT
                              !.pc = "due", !.occ = <<j, job[j].next>>]]
     \/ FirstDue = {} /\ \E o \in Owed : LaneTakes(p, o)
  /\ UNCHANGED <<now, job, fire, turn, claim, hist>>

\* A surface that answers an approval beats the lane alone.
Nudge(p) ==
  /\ StillOwner(p) /\ At(p, "idle")
  /\ \E o \in Owed : LaneTakes(p, o)
  /\ UNCHANGED <<now, job, fire, turn, claim, hist>>

(* The scheduler's run: the identity of the occurrence.                    *)

\* INSERT OR IGNORE, then the row is read.
Claim(p) ==
  LET o == work[p].occ
  IN  /\ At(p, "due")
      /\ fire' = [fire EXCEPT ![o].claimed = TRUE]
      /\ work' = [work EXCEPT ![p].id = fire[o].turn,
                    ![p].pc = IF fire[o].turn = Nobody THEN "unbound" ELSE "bound"]
      /\ UNCHANGED <<now, job, turn, claim, hist>>

\* Fault: the last writer binds.
Fault_BoundByLast(o, p) == p

\* UPDATE ... WHERE turn_id IS NULL.
Bound(o, p) == IF fire[o].turn = Nobody THEN p ELSE fire[o].turn

Bind(p) ==
  LET winner == Bound(work[p].occ, p)
  IN  /\ At(p, "unbound")
      /\ fire' = [fire EXCEPT ![work[p].occ].turn = winner]
      /\ work' = [work EXCEPT ![p].id = winner,
                    ![p].pc = IF winner = p THEN "fresh" ELSE "bound"]
      /\ UNCHANGED <<now, job, turn, claim, hist>>

\* Fault: a turn that is done is delivered by whoever finds it.
Fault_ToldByFinder(r) == r.status = "done"

\* Done, and nobody has told the owner yet.
Untold(r) == r.status = "done" /\ r.delivery = "pending"

\* resolveBound: never run, not done yet, not told yet, or only to be settled.
Resolve(p) ==
  /\ At(p, "bound")
  /\ \/ Its(p).status = "absent" /\ Goes(p, "fresh")
     \/ Its(p).status \in {"running", "owed"} /\ Over(p)
     \/ Untold(Its(p)) /\ work' = [work EXCEPT ![p].pc = "outcome",
                                               ![p].says = Its(p).says]
     \/ Its(p).status = "done" /\ ~Untold(Its(p)) /\ Goes(p, "settling")
  /\ UNCHANGED <<now, job, fire, turn, claim, hist>>

\* runJob has thrown: the text is the failure, and no turn is to be marked.
Thrown(p) == work' = [work EXCEPT ![p].pc = "outcome", ![p].id = Nobody,
                                  ![p].says = TRUE]

\* The row of the turn, before any effect; its id can be there already.
Create(p) ==
  /\ At(p, "fresh")
  /\ IF Its(p).status = "absent"
     THEN /\ SetTurn(p, [NoTurn EXCEPT !.status = "running", !.holder = p])
          /\ Goes(p, "driving")
     ELSE Thrown(p) /\ UNCHANGED turn
  /\ UNCHANGED <<now, job, fire, claim, hist>>

(* The scheduler's run: how the turn ends, and what is owed then.          *)

Leave(p, status, says) ==
  SetTurn(p, [Its(p) EXCEPT !.status = status, !.holder = Nobody, !.says = says])

\* The lease ends and the turn is left to the lane, the occurrence open.
Yield(p) ==
  /\ At(p, "driving")
  /\ Leave(p, "owed", FALSE) /\ Over(p)
  /\ UNCHANGED <<now, job, fire, claim, hist>>

\* The turn waits: the occurrence is settled, the answer left to the lane.
Suspend(p) ==
  /\ At(p, "driving")
  /\ Leave(p, "owed", FALSE) /\ Goes(p, "handed")
  /\ UNCHANGED <<now, job, fire, claim, hist>>

\* An empty text, or a success the policy of the job keeps silent, says nothing.
Finish(p, says) ==
  /\ At(p, "driving")
  /\ Leave(p, "done", says)
  /\ work' = [work EXCEPT ![p].pc = "outcome", ![p].says = says]
  /\ UNCHANGED <<now, job, fire, claim, hist>>

\* The turn throws: its row stays running.
Fail(p) ==
  /\ At(p, "driving")
  /\ Happens /\ Thrown(p)
  /\ UNCHANGED <<now, job, fire, turn, claim>>

\* Still the owner, or it is the new owner's to tell and to settle.
Judge(p) ==
  /\ At(p, "outcome") \/ At(p, "handed")
  /\ IF ~StillOwner(p) THEN Over(p)
     ELSE IF At(p, "outcome") /\ work[p].says THEN Goes(p, "delivering")
     ELSE Goes(p, "settling")
  /\ UNCHANGED <<now, job, fire, turn, claim, hist>>

Deliver(p, ok) ==
  /\ At(p, "delivering")
  /\ work' = [work EXCEPT ![p].pc = "told", ![p].arrived = ok]
  /\ hist' = IF ok THEN [hist EXCEPT !.told[work[p].occ] = @ + 1] ELSE hist
  /\ UNCHANGED <<now, job, fire, turn, claim>>

Noted(p) == SetTurn(p, [Its(p) EXCEPT
              !.delivery = IF work[p].arrived THEN "sent" ELSE "failed"])

Record(p) ==
  /\ At(p, "told")
  /\ IF work[p].id = Nobody THEN UNCHANGED turn ELSE Noted(p)
  /\ Goes(p, "settling")
  /\ UNCHANGED <<now, job, fire, claim, hist>>

\* Fault: only an outcome that was delivered is settled.
Fault_SettledIfTold(p) == [fire EXCEPT ![work[p].occ].settled = @ \/ work[p].arrived]

\* UPDATE ... WHERE settled_at IS NULL.
Settled(p) == [fire EXCEPT ![work[p].occ].settled = TRUE]

Settle(p) ==
  /\ At(p, "settling")
  /\ fire' = Settled(p)
  /\ Goes(p, "marking")
  /\ UNCHANGED <<now, job, turn, claim, hist>>

\* markRan: from the clock, not from the occurrence; once, the job retires.
Ran(j) ==
  IF ~job[j].active THEN job[j]
  ELSE IF job[j].once THEN [job[j] EXCEPT !.active = FALSE]
  ELSE [job[j] EXCEPT !.next = now + 1]

Mark(p) ==
  /\ At(p, "marking")
  /\ job' = [job EXCEPT ![work[p].occ[1]] = Ran(work[p].occ[1])]
  /\ Over(p)
  /\ UNCHANGED <<now, fire, turn, claim, hist>>

(* The lane's run.                                                         *)

\* claim, or grantContinuation, which clears what the lease before was told (the
\* NULL it writes is read as pending); a turn that another process has, or that
\* is not owed any more, is refused.
Resume(p) ==
  /\ At(p, "taken")
  /\ IF Its(p).status = "owed"
     THEN /\ \E delivery \in {Its(p).delivery, "pending"} :
               SetTurn(p, [Its(p) EXCEPT !.status = "running", !.holder = p, !.delivery = delivery])
          /\ Goes(p, "resumed")
     ELSE Over(p) /\ UNCHANGED turn
  /\ UNCHANGED <<now, job, fire, claim, hist>>

\* Suspended, or renewed and yielding again: silence.  A resumed turn that
\* yields sends its diagnosis, and marks it as an answer is marked.
LaneYield(p, speaks) ==
  /\ At(p, "resumed")
  /\ Leave(p, "owed", FALSE)
  /\ IF speaks THEN Goes(p, "sending") ELSE Over(p)
  /\ UNCHANGED <<now, job, fire, claim, hist>>

LaneFinish(p, says) ==
  /\ At(p, "resumed")
  /\ Leave(p, "done", says)
  /\ IF says THEN work' = [work EXCEPT ![p].pc = "sending", ![p].answer = TRUE]
     ELSE Over(p)
  /\ UNCHANGED <<now, job, fire, claim, hist>>

LaneFail(p) ==
  /\ At(p, "resumed")
  /\ Happens /\ Over(p)
  /\ UNCHANGED <<now, job, fire, turn, claim>>

LaneSend(p, ok) ==
  LET o == work[p].occ
  IN  /\ At(p, "sending")
      /\ work' = [work EXCEPT ![p].pc = "noting", ![p].arrived = ok]
      /\ hist' = IF ~ok THEN hist
                 ELSE IF work[p].answer THEN [hist EXCEPT !.told[o] = @ + 1]
                 ELSE [hist EXCEPT !.diagnosed = @ \cup {o}]
      /\ UNCHANGED <<now, job, fire, turn, claim>>

LaneNote(p) ==
  /\ At(p, "noting")
  /\ Noted(p) /\ Over(p)
  /\ UNCHANGED <<now, job, fire, claim, hist>>

(* The processes and the clock.                                            *)

Tick ==
  /\ now < MaxTime
  /\ now' = now + 1
  /\ UNCHANGED <<job, fire, turn, claim, work, hist>>

Crash(p) ==
  /\ Happens
  /\ work' = [work EXCEPT ![p] = Idle]
  /\ claim' = IF claim = p THEN Nobody ELSE claim
  /\ turn' = [o \in Occ |-> [m \in Proc |->
       IF turn[o][m].holder = p THEN [turn[o][m] EXCEPT !.holder = Nobody]
       ELSE turn[o][m]]]
  /\ UNCHANGED <<now, job, fire>>

\* The turns of the dead, interrupted as a process boots.
Reclaimed ==
  [o \in Occ |-> [m \in Proc |->
    IF turn[o][m].status = "running" /\ turn[o][m].holder = Nobody
    THEN [turn[o][m] EXCEPT !.status = "owed"] ELSE turn[o][m]]]

\* A process boots and takes a claim that is free, or whose holder was silent for
\* longer than the horizon: a laptop that slept.
Boot(p) ==
  /\ claim # p /\ At(p, "idle")
  /\ turn' = Reclaimed
  /\ claim' = p
  /\ \/ claim = Nobody /\ UNCHANGED hist
     \/ /\ claim # Nobody /\ hist.faults < MaxFault
        /\ hist' = [hist EXCEPT !.faults = @ + 1, !.stolen = TRUE]
  /\ UNCHANGED <<now, job, fire, work>>

----------------------------------------------------------------------------

Run(p) ==
  \/ Claim(p) \/ Bind(p) \/ Resolve(p) \/ Create(p)
  \/ Yield(p) \/ Suspend(p) \/ Fail(p)
  \/ Judge(p) \/ Record(p) \/ Settle(p) \/ Mark(p)
  \/ Resume(p) \/ LaneFail(p) \/ LaneNote(p)
  \/ \E b \in BOOLEAN : \/ Finish(p, b) \/ Deliver(p, b)
                        \/ LaneYield(p, b) \/ LaneFinish(p, b) \/ LaneSend(p, b)

Next ==
  \/ Tick
  \/ \E p \in Proc : Beat(p) \/ Nudge(p) \/ Run(p) \/ Crash(p) \/ Boot(p)

Spec == Init /\ [][Next]_vars

(***************************************************************************)
(* Fairness: the timer of the gateway beats, a run goes on to its end, and *)
(* a supervisor restarts a gateway that is gone.                           *)
(***************************************************************************)
FairSpec ==
  /\ Spec
  /\ \A p \in Proc : /\ WF_vars(Beat(p)) /\ WF_vars(Run(p))
                     /\ WF_vars(claim = Nobody /\ Boot(p))

----------------------------------------------------------------------------
(* Properties.                                                             *)

\* Every variable has its type, and only work that was found has an occurrence.
TypeOK ==
  /\ now \in 0 .. MaxTime
  /\ job \in [Job -> JobRow]
  /\ fire \in [Occ -> Fire]
  /\ turn \in [Occ -> [Proc -> Turn]]
  /\ claim \in Proc \cup {Nobody}
  /\ work \in [Proc -> Work]
  /\ \A p \in Proc : work[p].occ = Nobody <=> work[p].pc = "idle"
  /\ hist \in History

\* The decision of ADR-0035: an occurrence has one turn, the one its fire is
\* bound to, through any crash and with any number of schedulers.
OneTurnPerOccurrence ==
  \A o \in Occ, m \in Proc : turn[o][m].status # "absent" => fire[o].turn = m

\* The schedule has left the occurrence behind.
Passed(o) == o[2] < job[o[1]].next \/ ~job[o[1]].active

\* The schedule does not leave behind an occurrence that was begun and is not
\* settled, unless a live gateway lost its claim.
NothingLeftBehind ==
  ~hist.stolen => \A o \in Occ : fire[o].claimed /\ Passed(o) => fire[o].settled

\* The owner is told an outcome once; each crash, lost claim or failed run costs
\* at most one repetition, whoever of scheduler and lane tells it.
ToldOncePerFault == \A o \in Occ : hist.told[o] <= 1 + hist.faults

\* What is marked as sent was sent: the lane and the scheduler write the same
\* column, of the same turn, in either order.
SentWasTold ==
  \A o \in Occ, m \in Proc :
    turn[o][m].delivery = "sent" => hist.told[o] > 0 \/ o \in hist.diagnosed

\* A turn that is done has its occurrence settled, whoever finished it and
\* whatever crashed since, once no surface pushes the lane before the timer.
DoneIsSettled ==
  [](~hist.stolen) /\ <>[][\A p \in Proc : ~Nudge(p)]_vars =>
    \A o \in Occ : (\E m \in Proc : turn[o][m].status = "done") ~> fire[o].settled

----------------------------------------------------------------------------
(* What the comments of the code say of it, and it does not do.            *)

\* resolveBound on a turn that is not done: "the lane owns it now", and picks it
\* up "on its own beat".
BoundTurnIsTaken ==
  \A o \in Occ, m \in Proc :
    turn[o][m].status = "owed" ~> turn[o][m].status # "owed"
=============================================================================
