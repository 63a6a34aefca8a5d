------------------------------ MODULE TurnLane ------------------------------
(***************************************************************************)
(* The lane that picks turns back up: TurnLane.tick (core/turns/lane.ts),  *)
(* the run it is given (agent/turn-lane.ts) and the queue it reads         *)
(* (prepareDue in core/turns/store.ts), in every process that has a lane.  *)
(*                                                                         *)
(* TurnStore models the claim and its races; here a row is claimed in one  *)
(* step and the subject is what the lane picks, what it refuses, and what  *)
(* it tells the owner.  `older` is the order of updated_at: every write of *)
(* a row moves it to the end, and a beat takes the oldest row that is due. *)
(* (Names that other lanes have too begin with TL: Lanes_proofs extends    *)
(* both.)                                                                  *)
(***************************************************************************)
EXTENDS Naturals

CONSTANTS
  Turn,           \* ids of turns
  Proc,           \* processes with a lane
  Renewable,      \* turns of scheduler jobs, whose leases are renewed unasked
  Addressed,      \* turns with a replyTo
  MaxAutonomous   \* MAX_AUTONOMOUS_LEASES

CONSTANT MaxRestart   \* bound: restarts of processes

ASSUME Subsets == Renewable \subseteq Turn /\ Addressed \subseteq Turn
ASSUME NullIsNoProc == "none" \notin Proc
ASSUME Limits == MaxAutonomous \in Nat /\ MaxRestart \in Nat

VARIABLES
  row,        \* the `turns` row of each turn
  older,      \* the pairs of turns with a row, the older updated_at first
  token,      \* the model lane of each process: see ModelLane, and OthersAsk
  task,       \* the run in the background of each lane
  refusing,   \* turns whose renewal is refused: budget, job cap, model, dead route
  restarts,   \* restarts so far
  hist        \* history: see History

TLvars == <<row, older, token, task, refusing, restarts, hist>>

----------------------------------------------------------------------------

Status == {"absent", "runnable", "running", "waiting", "continuable", "done"}

\* "none" is the NULL of a turn answered in band; possibly_sent is "failed" too.
Delivery == {"none", "pending", "sent", "failed", "undeliverable"}

\* ready: the event of a waiting row has happened, or its deadline has passed;
\* holder: the claim_token, by the process that minted it.
Row == [status : Status, ready : {"no", "event", "deadline"}, lease : Nat,
        delivery : Delivery, holder : Proc \cup {"none"}]

NoRow == [status |-> "absent", ready |-> "no", lease |-> 0, delivery |-> "none",
          holder |-> "none"]

\* A task has read its row (asked), drives it (driving), sends (saying) and
\* notes how the sending went (noting); renews: it came in by runAutonomous.
Task == [pc : {"idle", "asked", "driving", "saying", "noting"},
         turn : Turn \cup {"none"}, renews : BOOLEAN,
         text : {"none", "answer", "other"}, arrived : BOOLEAN]

NoTask == [pc |-> "idle", turn |-> "none", renews |-> FALSE, text |-> "none",
           arrived |-> FALSE]

\* Read by properties only: the turns whose answer has been sent, those whose
\* address was told something else of the current lease, or of the one before by
\* a note that came late, and those whose last run has failed.
History == [answered : SUBSET Turn, told : SUBSET Turn, failed : SUBSET Turn]

----------------------------------------------------------------------------
(* The queue and the row.                                                  *)

\* The same constant in the query of the store and in runAutonomous.
LeasesLeft(r) == r.lease < MaxAutonomous

\* dueStmt: runnable and interrupted rows, waiting rows past their deadline,
\* and the continuable rows that are renewed without the owner.
Due(r, t) ==
  \/ r.status = "runnable"
  \/ r.status = "waiting" /\ r.ready = "deadline"
  \/ r.status = "continuable" /\ t \in Renewable /\ LeasesLeft(r)

Rows == {t \in Turn : row[t].status # "absent"}

\* The order once the rows of `written` have been written, the oldest first.
Later(written) ==
  {pair \in older : pair[1] \in written => pair[2] \in written}
  \cup ((Rows \ written) \X written)

Write(t, r) == row' = [row EXCEPT ![t] = r] /\ older' = Later({t})

\* The rows whose event has happened, which a sweep makes runnable.
Woken == {t \in Turn : row[t].status = "waiting" /\ row[t].ready = "event"}

SweptRow == [t \in Turn |->
  IF t \in Woken THEN [row[t] EXCEPT !.status = "runnable"] ELSE row[t]]

TLInit ==
  /\ row = [t \in Turn |-> NoRow]
  /\ older = {}
  /\ token = [p \in Proc |-> "none"]
  /\ task = [p \in Proc |-> NoTask]
  /\ refusing = {}
  /\ restarts = 0
  /\ hist = [answered |-> {}, told |-> {}, failed |-> {}]

World == <<refusing, restarts>>

\* A tick, and the run it starts up to its first await, is synchronous: nothing
\* else of that process runs, and no run of another process ends, meanwhile.
NoneAsked == \A p \in Proc : task[p].pc # "asked"

----------------------------------------------------------------------------
(* A beat.                                                                 *)

MayStart(p) == token[p] = "none"

\* Fault: the barriers are looked at only when work could start.
Fault_SweepWhenIdle(p) == MayStart(p)

\* The standDown of a gateway, the one process that has a lane, is constantly false.
Sweeps(p) == p \in Proc

DueNow == {t \in Turn : Due(SweptRow[t], t)}

IsOldest(t) == \A u \in DueNow \ {t} : <<t, u>> \in Later(Woken)

Beat(p) ==
  /\ Sweeps(p)
  /\ task[p].pc # "asked"
  /\ row' = SweptRow
  /\ older' = Later(Woken)
  /\ IF MayStart(p) /\ DueNow # {}
     THEN \E t \in DueNow :
            /\ IsOldest(t)
            /\ token' = [token EXCEPT ![p] = "lane"]
            /\ task' = [task EXCEPT ![p] = [NoTask EXCEPT
                 !.pc = "asked", !.turn = t,
                 !.renews = SweptRow[t].status = "continuable"]]
     ELSE UNCHANGED <<token, task>>
  /\ UNCHANGED <<World, hist>>

(* The run: claim or grant, or refuse.                                     *)

Its(p) == row[task[p].turn]

Claimable == {"runnable", "waiting"}

Claim(p) ==
  LET t == task[p].turn
  IN  /\ task[p].pc = "asked" /\ ~task[p].renews
      /\ Its(p).status \in Claimable
      /\ Write(t, [row[t] EXCEPT !.status = "running", !.ready = "no",
                                   !.holder = p])
      /\ task' = [task EXCEPT ![p].pc = "driving"]
      /\ UNCHANGED <<token, World, hist>>

\* Fault: a lease inherits what the one before it was told.
Fault_Inherited(delivery) == delivery

\* The column is about the answer of the current lease.
Cleared(delivery) == "none"

\* Another lane has sent, or sends, and its note is to come: nothing fences it.
Noting(t) == \E p \in Proc : task[p].turn = t /\ task[p].pc \in {"saying", "noting"}

Grant(p) ==
  LET t == task[p].turn
  IN  /\ task[p].pc = "asked" /\ task[p].renews
      /\ Its(p).status = "continuable"
      /\ t \notin refusing /\ LeasesLeft(row[t])
      /\ Write(t, [row[t] EXCEPT !.status = "running", !.lease = @ + 1,
                                   !.delivery = Cleared(@), !.holder = p])
      /\ task' = [task EXCEPT ![p].pc = "driving"]
      /\ hist' = IF Noting(t) THEN hist ELSE [hist EXCEPT !.told = @ \ {t}]
      /\ UNCHANGED <<token, World>>

\* Fault: the run that ends says nothing to the model lane.
Fault_KeepToken(p) ==
  /\ task' = [task EXCEPT ![p] = NoTask]
  /\ token' = token

\* take()'s promise settles, and its finally gives the token back.
Over(p) ==
  /\ task' = [task EXCEPT ![p] = NoTask]
  /\ token' = [token EXCEPT ![p] = "none"]

Says(p, text) == /\ task' = [task EXCEPT ![p].pc = "saying", ![p].text = text]
                 /\ token' = token

\* A refused renewal writes nothing: the row keeps its place in the queue.
RefuseGrant(p) ==
  /\ task[p].pc = "asked" /\ task[p].renews
  /\ \/ Its(p).status # "continuable" \/ ~LeasesLeft(Its(p))
     \/ task[p].turn \in refusing
  /\ Over(p)
  /\ UNCHANGED <<row, older, World, hist>>

\* Another process was faster: the refusal goes to the address of the turn.
RefuseClaim(p) ==
  /\ task[p].pc = "asked" /\ ~task[p].renews
  /\ Its(p).status \notin Claimable
  /\ IF task[p].turn \in Addressed THEN Says(p, "other") ELSE Over(p)
  /\ UNCHANGED <<row, older, World, hist>>

(* The run: how the lease ends.                                            *)

LeaseEnds(p) == task[p].pc = "driving" /\ NoneAsked

Suspend(p) ==
  /\ LeaseEnds(p)
  /\ Write(task[p].turn, [Its(p) EXCEPT !.status = "waiting", !.ready = "no",
                                        !.holder = "none"])
  /\ Over(p)
  /\ UNCHANGED <<World, hist>>

\* An exception, or a fenced write that changed no row: the row stays running.
Fail(p) ==
  /\ LeaseEnds(p)
  /\ Over(p)
  /\ hist' = [hist EXCEPT !.failed = @ \cup {task[p].turn}]
  /\ UNCHANGED <<row, older, World>>

\* A text with no address is reported and the row says so; a text with one is
\* sent.  A lease that ends continuable speaks only when it was a resume's.
Tells(p, text, r) ==
  LET t == task[p].turn
  IN  IF t \in Addressed
      THEN Write(t, r) /\ Says(p, text)
      ELSE Write(t, [r EXCEPT !.delivery = "undeliverable"]) /\ Over(p)

Yield(p) ==
  LET r == [Its(p) EXCEPT !.status = "continuable", !.holder = "none"]
  IN  /\ LeaseEnds(p)
      /\ IF task[p].renews THEN Write(task[p].turn, r) /\ Over(p) ELSE Tells(p, "other", r)
      /\ UNCHANGED <<World, hist>>

FinishTurn(p) ==
  /\ LeaseEnds(p)
  /\ Tells(p, "answer", [Its(p) EXCEPT !.status = "done", !.holder = "none"])
  /\ UNCHANGED <<World, hist>>

(* The run: sendAndRecord, two steps with a crash between them.            *)

\* Fault: the delivery is noted as it leaves, not when it has arrived.
Fault_NotedFirst(p, ok) ==
  row' = [row EXCEPT ![task[p].turn].delivery = "sent"] /\ older' = older

Deferred(p, ok) == UNCHANGED <<row, older>>

Send(p, ok) ==
  LET t == task[p].turn
  IN  /\ task[p].pc = "saying"
      /\ Deferred(p, ok)
      /\ task' = [task EXCEPT ![p].pc = "noting", ![p].arrived = ok]
      /\ hist' = IF ~ok THEN hist
                 ELSE IF task[p].text = "answer" THEN [hist EXCEPT !.answered = @ \cup {t}]
                 ELSE [hist EXCEPT !.told = @ \cup {t}]
      /\ UNCHANGED <<token, World>>

Note(p) ==
  /\ task[p].pc = "noting"
  /\ Write(task[p].turn, [Its(p) EXCEPT
       !.delivery = IF task[p].arrived THEN "sent" ELSE "failed"])
  /\ Over(p)
  /\ UNCHANGED <<World, hist>>

(* What the lane does not decide.                                          *)

\* A connector, a job or a delegating turn queues a row.
Enqueue(t) ==
  /\ row[t].status = "absent"
  /\ Write(t, [NoRow EXCEPT !.status = "runnable",
                 !.delivery = IF t \in Addressed THEN "pending" ELSE "none"])
  /\ UNCHANGED <<token, task, World, hist>>

\* Neither an event nor a deadline writes the row.
Ready(t, how) ==
  /\ row[t].status = "waiting" /\ row[t].ready = "no"
  /\ row' = [row EXCEPT ![t].ready = how]
  /\ UNCHANGED <<older, token, task, World, hist>>

\* A job or a visitor of this process takes the model, or gives it back.  What
\* else keeps a beat from starting work is of no other consequence here: /pause,
\* or a claim of the gateway that is lost.
OthersAsk(p) ==
  /\ task[p].pc # "asked"
  /\ \/ token[p] = "none" /\ token' = [token EXCEPT ![p] = "other"]
     \/ token[p] = "other" /\ token' = [token EXCEPT ![p] = "none"]
  /\ UNCHANGED <<row, older, task, World, hist>>

Refusal(t) ==
  /\ t \in Renewable
  /\ refusing' = IF t \in refusing THEN refusing \ {t} ELSE refusing \cup {t}
  /\ UNCHANGED <<row, older, token, task, restarts, hist>>

\* The process dies and boots: its reclaim interrupts the rows it had claimed,
\* the one it was driving and those whose run had failed.
Restart(p) ==
  LET Freed == {t \in Turn : row[t].holder = p}
  IN  /\ restarts < MaxRestart
      /\ restarts' = restarts + 1
      /\ row' = [t \in Turn |->
           IF t \in Freed THEN [row[t] EXCEPT !.status = "runnable", !.holder = "none"]
           ELSE row[t]]
      /\ older' = Later(Freed)
      /\ hist' = [hist EXCEPT !.failed = @ \ Freed]
      /\ Over(p)
      /\ UNCHANGED refusing

----------------------------------------------------------------------------

Run(p) ==
  \/ Claim(p) \/ Grant(p) \/ RefuseGrant(p) \/ RefuseClaim(p)
  \/ Suspend(p) \/ Fail(p) \/ Yield(p) \/ FinishTurn(p)
  \/ \E ok \in BOOLEAN : Send(p, ok)
  \/ Note(p)

TLNext ==
  \/ \E p \in Proc : Beat(p) \/ Run(p) \/ OthersAsk(p) \/ Restart(p)
  \/ \E t \in Turn : Enqueue(t) \/ Refusal(t)
  \/ \E t \in Turn, how \in {"event", "deadline"} : Ready(t, how)

TLSpec == TLInit /\ [][TLNext]_TLvars

(***************************************************************************)
(* Fairness: the timer of the gateway beats, and a run goes on to its end  *)
(* (every model call and every send has a deadline).  Nobody promises that *)
(* a beat finds the model free: see Quiet.                                 *)
(***************************************************************************)
TLFairSpec == TLSpec /\ \A p \in Proc : WF_TLvars(Beat(p)) /\ WF_TLvars(Run(p))

----------------------------------------------------------------------------
(* Properties.                                                             *)

\* The pairs are a strict order of all of S.
Orders(pairs, S) ==
  /\ pairs \subseteq S \X S
  /\ \A t, u \in S : t # u <=> (<<t, u>> \in pairs \/ <<u, t>> \in pairs)
  /\ \A t, u, v \in S : <<t, u>> \in pairs /\ <<u, v>> \in pairs => <<t, v>> \in pairs

\* Every variable has its type, and every row is older or younger than any other.
TLTypeOK ==
  /\ row \in [Turn -> Row]
  /\ Orders(older, Rows)
  /\ token \in [Proc -> {"none", "lane", "other"}]
  /\ task \in [Proc -> Task]
  /\ refusing \in SUBSET Turn
  /\ restarts \in 0 .. MaxRestart
  /\ hist \in History

\* An answer that never arrived is not reported as arrived, unless the lane had
\* told the same address something else before: what doctor lists is complete.
UnsentIsVisible ==
  \A t \in Turn :
    row[t].delivery = "sent" => t \in hist.answered \cup hist.told

\* The wake-up of an event does not wait for the model, for /resume or for the
\* job that is running (the comment on tick: the sweep runs even when busy).
EventWakes ==
  \A t \in Turn : (row[t].status = "waiting" /\ row[t].ready = "event")
                    ~> row[t].status # "waiting"

\* A process whose lane is left alone: no job and no visitor at the model, no
\* /pause, the claim of its gateway not lost.
Quiet(p) == <>[](token[p] # "other")

\* Left alone, and with no renewal refused, the lane gets to every row that is
\* due: no run, however it ends, keeps it from the next row.
DueIsTaken ==
  (\E p \in Proc : Quiet(p)) /\ <>[](refusing = {}) =>
    \A t \in Turn : row[t].status = "runnable" ~> row[t].status # "runnable"

----------------------------------------------------------------------------
(* What the comments and tests of the code say of it, and it does not do.  *)

\* lane.test.ts: after a row that fails "the next row is not starved by the bad
\* one".  Left alone, and with the same renewals refused from some moment on,
\* the lane gets to every row that is due.
NextIsNotStarved ==
  (\E p \in Proc : Quiet(p)) /\ (\E R \in SUBSET Turn : <>[](refusing = R)) =>
    \A t \in Turn : row[t].status = "runnable" ~> row[t].status # "runnable"

\* store.ts on UndeliveredTurn: a finished turn "whose answer cannot be shown to
\* have arrived" is listed.  undelivered() lists what is pending or has failed,
\* and the column of a lease that was granted is neither.
UnsentIsListed ==
  \A t \in Addressed :
    /\ row[t].status = "done" /\ t \notin hist.answered
    /\ \A p \in Proc : task[p].turn # t
    => row[t].delivery \in {"pending", "failed"}
=============================================================================
