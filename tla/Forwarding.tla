----------------------------- MODULE Forwarding -----------------------------
(***************************************************************************)
(* A turn of a terminal that the gateway runs (core/gateway/forward.ts):   *)
(* the terminal opens the control socket, sends `run` with an id of its    *)
(* own, and from then on the connection carries the events of the turn one *)
(* way, and a cancellation and the answers to its questions the other.     *)
(* The turn is a client of the model lane (ModelLane), its id that of its  *)
(* row in `turns`.                                                         *)
(*                                                                         *)
(* A socket keeps the order of what is written and loses nothing but what  *)
(* nobody reads any more.  A step of the gateway is what runs between two  *)
(* awaits.                                                                 *)
(***************************************************************************)
EXTENDS ModelLane, Sequences

CONSTANTS
  Asks,         \* calls of runViaGateway in their order, by the id each asks for
  MaxQuestions, \* bound: questions of the kernel
  MaxCrashes    \* bound: ends of the gateway that is at work

ASSUME Callers == Asks \in Seq(Terminal) /\ MaxQuestions \in Nat /\ MaxCrashes \in Nat

Caller == DOMAIN Asks

VARIABLES
  exec,  \* executions: of each id, its entry
  rows,  \* turns: the ids that have a row
  call,  \* of each caller, its connection
  left   \* how much of each bound is left

laneVars == vars
forwardVars == <<exec, rows, call, left>>
allVars == <<laneVars, forwardVars>>

----------------------------------------------------------------------------

Outcome == {"result", "failed", "unknown"}

\* here: in the map; who: the observers; asking: the approval waiter is set;
\* closing: the turn is told `unavailable`, and stops to say what it wanted.
Execution == [here : BOOLEAN, outcome : Outcome \cup {"none"}, who : SUBSET Caller,
              at : {"running", "asking", "closing"}]
NoExecution == [here |-> FALSE, outcome |-> "none", who |-> {}, at |-> "running"]
Entry(e, S) == [here |-> TRUE, outcome |-> e, who |-> S, at |-> "running"]

Frame == {"run", "cancel", "answer"}

\* The caller holds the connection until it is told (a socket that closes is an
\* `unknown` too) or its terminal is gone.  What the gateway writes is taken as read
\* at once: nothing the caller does later depends on when it read it, except that it
\* answers some time after it was asked.
\* adrift: an observer of an entry that was dropped.
Connection == [at : {"idle", "open", "gone"},
               link : {"none", "accepted", "observing", "adrift", "closed"},
               shown : Nat,          \* questions put to the owner and not answered
               sent : Seq(Frame)]
NoConnection == [at |-> "idle", link |-> "none", shown |-> 0, sent |-> <<>>]

ForwardInit ==
  /\ Init
  /\ exec = [t \in Terminal |-> NoExecution]
  /\ rows = {}
  /\ call = [c \in Caller |-> NoConnection]
  /\ left = [questions |-> MaxQuestions, crashes |-> MaxCrashes]

Alive(t) == exec[t].here /\ exec[t].outcome = "none"

\* A socket that is closed: what it would still bring is read by nobody.
Shut(r, link) == [r EXCEPT !.link = link, !.shown = 0, !.sent = <<>>]

\* These callers hear how it ended, and their sockets are closed.
Ends(S) ==
  [c \in Caller |-> IF c \in S THEN [Shut(call[c], "closed") EXCEPT !.at = "gone"] ELSE call[c]]

\* finish: the outcome is kept for who asks again, told, and the sockets closed.
Finish(t, e) ==
  /\ exec' = [exec EXCEPT ![t] = Entry(e, {})]
  /\ call' = Ends(exec[t].who)

----------------------------------------------------------------------------
(* The caller, runViaGateway.                                              *)

\* A signal that is aborted already cancels before the first line is written.
Call(c, early) ==
  /\ call[c].at = "idle" /\ \A d \in 1 .. c - 1 : call[d].at # "idle"
  /\ call' = [call EXCEPT ![c].at = "open", ![c].link = "accepted",
                          ![c].sent = IF early THEN <<"cancel", "run">> ELSE <<"run">>]
  /\ UNCHANGED <<laneVars, exec, rows, left>>

\* The signal fires once.
Cancel(c) ==
  /\ call[c].at = "open"
  /\ "cancel" \notin {call[c].sent[i] : i \in DOMAIN call[c].sent}
  /\ call[c].link \in {"accepted", "observing"}
  /\ call' = [call EXCEPT ![c].sent = Append(@, "cancel")]
  /\ UNCHANGED <<laneVars, exec, rows, left>>

Answer(c) ==
  /\ call[c].at = "open" /\ call[c].shown > 0
  /\ call' = [call EXCEPT ![c].shown = @ - 1,
                          ![c].sent = Append(@, "answer")]
  /\ UNCHANGED <<laneVars, exec, rows, left>>

\* The terminal is closed, or killed.
Dies(c) ==
  /\ call[c].at = "open"
  /\ call' = [call EXCEPT ![c].at = "gone", ![c].shown = 0]
  /\ UNCHANGED <<laneVars, exec, rows, left>>

----------------------------------------------------------------------------
(* The gateway reads.                                                      *)

\* Fault: a row that nobody executes is not looked for.
Fault_RunAnyway(t) == ~exec[t].here

Unheard(t) == ~exec[t].here /\ t \notin rows

\* What is run is what nobody has heard of; what is running is observed.
Served(c) == Head(call[c].sent) = "run" /\ (Alive(Asks[c]) \/ Unheard(Asks[c]))

\* A known outcome is told at once, a row that nobody executes is `unknown`, and a
\* line that is no `run` is answered like an unknown verb.
Told(c) ==
  /\ ~Served(c)
  /\ call' = Ends({c})
  /\ UNCHANGED <<laneVars, exec, rows, left>>

\* What came in the same chunk as the first line is dropped.
Observed(c) ==
  \E n \in 1 .. Len(call[c].sent) :
    call' = [call EXCEPT ![c].link = "observing",
                         ![c].sent = SubSeq(@, n + 1, Len(@))]

Attach(c) ==
  /\ Served(c) /\ Alive(Asks[c])
  /\ Observed(c)
  /\ exec' = [exec EXCEPT ![Asks[c]].who = @ \cup {c}]
  /\ UNCHANGED <<laneVars, rows, left>>

Starts(c) ==
  /\ Served(c) /\ ~Alive(Asks[c])
  /\ Forward(Asks[c])
  /\ Observed(c)
  /\ exec' = [exec EXCEPT ![Asks[c]] = Entry("none", {c})]
  /\ UNCHANGED <<rows, left>>

FirstLine(c) ==
  /\ call[c].link = "accepted"
  /\ Told(c) \/ Attach(c) \/ Starts(c)

\* Fault: the question outlives the cancellation.
Fault_Heedless(e) == e

\* The abort answers the question that is open: the effect was granted by nobody.
Aborted(e) == IF e.at = "asking" THEN [e EXCEPT !.at = "closing"] ELSE e

Read(c) == call' = [call EXCEPT ![c].sent = Tail(@)]

CancelFrame(c) ==
  /\ Read(c)
  /\ IF Alive(Asks[c])
     THEN Stop(Asks[c]) /\ exec' = [exec EXCEPT ![Asks[c]] = Aborted(@)]
     ELSE UNCHANGED <<laneVars, exec>>
  /\ UNCHANGED <<rows, left>>

\* The answer goes to whatever question is open; a client that could not ask the
\* owner says so.
AnswerFrame(c) ==
  /\ Read(c)
  /\ IF exec[Asks[c]].at = "asking"
     THEN \E at \in {"running", "closing"} : exec' = [exec EXCEPT ![Asks[c]].at = at]
     ELSE UNCHANGED exec
  /\ UNCHANGED <<laneVars, rows, left>>

NextFrame(c) ==
  /\ call[c].link = "observing" /\ call[c].sent # <<>>
  /\ IF Head(call[c].sent) = "cancel" THEN CancelFrame(c) ELSE AnswerFrame(c)

\* Fault: the question waits for who is gone.
Fault_Hangs(e, c) == [e EXCEPT !.who = @ \ {c}]

\* detach: the last one that leaves takes the question with it.
Without(e, c) ==
  [e EXCEPT !.who = @ \ {c},
            !.at = IF @ = "asking" /\ e.who \subseteq {c} THEN "closing" ELSE @]

\* The socket of a caller that is gone; what it had written last may go unread,
\* when a write of the gateway finds it closed.
Gone(c) ==
  /\ call[c].link \in {"observing", "adrift"} /\ call[c].at = "gone"
  /\ exec' = IF call[c].link = "observing" THEN [exec EXCEPT ![Asks[c]] = Without(@, c)] ELSE exec
  /\ call' = [call EXCEPT ![c] = Shut(@, "closed")]
  /\ UNCHANGED <<laneVars, rows, left>>

Reads(c) == FirstLine(c) \/ NextFrame(c) \/ Gone(c)

----------------------------------------------------------------------------
(* The gateway runs.                                                       *)

\* The poll of the token asks this before it asks anything else.
Withdrawn(t) == pc[t] = "waiting" /\ (t \in stop \/ exec[t].who = {})

\* Nothing has begun: the entry is dropped, and with it whoever observes it.
Drop(t) ==
  /\ Withdrawn(t)
  /\ Quits(t)
  /\ exec' = [exec EXCEPT ![t] = NoExecution]
  /\ call' = [c \in Caller |->
       IF c \in exec[t].who THEN Shut(call[c], "adrift") ELSE call[c]]
  /\ UNCHANGED <<holder, owner, rows, left>>

\* The claim of the gateway is lost before the turn begins.
Refuse(t) ==
  /\ ~Withdrawn(t) /\ ~owner /\ GiveUp(t)
  /\ Finish(t, "failed")
  /\ UNCHANGED <<rows, left>>

\* The token is taken and the row written, in one stretch.
Begin(t) ==
  /\ ~Withdrawn(t) /\ t \in Terminal /\ Obtain(t)
  /\ rows' = rows \cup {t}
  /\ UNCHANGED <<exec, call, left>>

\* Fault: an execution that throws is a failure like any other.
Fault_Failed(t) == "failed"

Broken(t) == IF t \in rows THEN "unknown" ELSE "failed"

\* It throws before the row is there: the token is back before anybody looks.
BeginsNot(t) ==
  /\ ~Withdrawn(t) /\ pc[t] = "waiting" /\ Free /\ owner
  /\ Quits(t)
  /\ Finish(t, Broken(t))
  /\ UNCHANGED <<holder, owner, rows, left>>

AtWork(t) == pc[t] = "working" /\ exec[t].at # "asking"

\* approve: a turn that nobody observes has nobody to ask.  The calls of a batch
\* look at the signal before they ask.
Ask(t) ==
  /\ pc[t] = "working" /\ exec[t].at = "running" /\ t \notin stop
  /\ left.questions > 0
  /\ left' = [left EXCEPT !.questions = @ - 1]
  /\ exec' = [exec EXCEPT ![t].at = IF exec[t].who = {} THEN "closing" ELSE "asking"]
  /\ call' = [c \in Caller |->
       IF c \in exec[t].who /\ call[c].at = "open" THEN [call[c] EXCEPT !.shown = @ + 1]
       ELSE call[c]]
  /\ UNCHANGED <<laneVars, rows>>

\* It returns, or throws with the row as it was.
Ended(t) ==
  /\ AtWork(t) /\ End(t)
  /\ Finish(t, "result") \/ Finish(t, Broken(t))
  /\ UNCHANGED <<rows, left>>

\* Enough later executions have ended (DONE_KEEP).
Evict(t) ==
  /\ exec[t].here /\ exec[t].outcome # "none"
  /\ exec' = [exec EXCEPT ![t] = NoExecution]
  /\ UNCHANGED <<laneVars, rows, call, left>>

\* The gateway dies and is started again: the sockets close, the rows remain.
Crash ==
  /\ left.crashes > 0
  /\ left' = [left EXCEPT !.crashes = @ - 1]
  /\ holder' = Nobody /\ pc' = [c \in Client |-> "idle"] /\ stop' = {} /\ owner' = TRUE
  /\ exec' = [t \in Terminal |-> NoExecution]
  /\ call' = Ends({c \in Caller : call[c].link \in {"accepted", "observing", "adrift"}})
  /\ UNCHANGED <<rows>>

----------------------------------------------------------------------------

\* The other clients of the lane, and the loss of the claim.
Others ==
  /\ \/ JobStarts \/ LaneStarts \/ LoseClaim
     \/ \E c \in Room : Visit(c)
     \/ \E c \in Client \ Terminal : End(c)
  /\ UNCHANGED forwardVars

Runs(t) ==
  \/ Drop(t) \/ Refuse(t) \/ Begin(t) \/ BeginsNot(t) \/ Ask(t) \/ Ended(t) \/ Evict(t)

ForwardNext ==
  \/ Others \/ Crash
  \/ \E c \in Caller :
       \/ \E early \in BOOLEAN : Call(c, early)
       \/ Cancel(c) \/ Answer(c) \/ Dies(c) \/ Reads(c)
  \/ \E t \in Terminal : Runs(t)

ForwardSpec == ForwardInit /\ [][ForwardNext]_allVars

(***************************************************************************)
(* Fairness: sockets are read, a turn ends once nobody is asked anything   *)
(* (its deadlines see to that), a poll goes on.  The token is asked for    *)
(* every 50 ms, far more often than the beats come, so a turn that finds   *)
(* it free again and again has it in the end.                              *)
(***************************************************************************)
FairForward ==
  /\ ForwardSpec
  /\ \A c \in Caller : WF_allVars(Reads(c))
  /\ \A t \in Terminal :
       /\ WF_allVars(Ended(t)) /\ WF_allVars(Drop(t) \/ Refuse(t))
       /\ SF_allVars(Begin(t) \/ BeginsNot(t))
  /\ \A c \in Client \ Terminal : WF_allVars(End(c) /\ UNCHANGED forwardVars)
  /\ \A c \in Room : WF_allVars((Opened(c) \/ ProceedStopped(c)) /\ UNCHANGED forwardVars)

----------------------------------------------------------------------------
(* Properties.                                                             *)

\* Every variable has its type, and the observers of a turn are the connections that
\* are open on it.
ForwardTypeOK ==
  /\ exec \in [Terminal -> Execution] /\ rows \in SUBSET Terminal
  /\ call \in [Caller -> Connection]
  /\ \A t \in Terminal :
       exec[t].who = {c \in Caller : Asks[c] = t /\ call[c].link = "observing"}

\* A turn begins once: through calls that ask again for its id, entries that are
\* dropped or forgotten, a lost claim and a crash.  `failed` is said only of one that
\* has not begun, so whoever tries again repeats nothing; a result only of one that
\* has ended and given the token back.
OutcomeIsTrue ==
  [][\A t \in Terminal :
       /\ pc[t] # "working" /\ pc'[t] = "working" => t \notin rows
       /\ exec'[t].outcome # exec[t].outcome =>
            /\ exec'[t].outcome = "failed" => t \notin rows'
            /\ exec'[t].outcome = "result" => t \in rows' /\ pc'[t] # "working"]_allVars

\* What a question asked leave for goes on only while somebody observes the turn and
\* nobody has cancelled it: an answer, a cancellation and the end of a terminal cross.
GrantIsWanted ==
  [][\A t \in Terminal :
       exec[t].at = "asking" /\ exec'[t].at = "running" /\ exec'[t].here =>
         exec'[t].who # {} /\ t \notin stop']_allVars

\* The turn waits for the owner, who is there to be asked.
OwnerIsAsked(t) == exec[t].at = "asking" /\ exec[t].who # {}

\* A caller that stays is told in the end, and the token comes free again and again,
\* through other observers, cancellations, questions whose owner has left, a lost
\* claim and a crash: unless the owner is asked, or the turn was cancelled before
\* it began (adrift).
ToldInTheEnd ==
  /\ \A c \in Caller :
       call[c].at = "open" ~> \/ call[c].at # "open" \/ call[c].link = "adrift"
                              \/ OwnerIsAsked(Asks[c])
  /\ []<>(holder = Nobody \/ \E t \in Terminal : OwnerIsAsked(t))

----------------------------------------------------------------------------
(* What the comments of the code say of it, and the code does not do.      *)

\* forward.ts on finish: a connection that closes before its outcome is known is
\* "`unknown` per il client, mai un silenzio da interpretare".
NeverSilent == \A c \in Caller : call[c].at = "open" ~> call[c].at # "open"
=============================================================================
