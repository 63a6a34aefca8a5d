------------------------------ MODULE Approvals ------------------------------
(***************************************************************************)
(* The register of questions (core/approvals/store.ts) between a turn that *)
(* asks before it acts, and an owner who answers at a terminal, presses a  *)
(* button hours later, or delegates every answer with /yolo.               *)
(*                                                                         *)
(* One turn, driven by one process at a time, or by two when a reclaim has *)
(* taken it from a live one.  A call is a capability on a resource: what   *)
(* the owner reads on the question.  The surface is the turn's own, so a   *)
(* turn has buttons or a terminal and never both.                          *)
(***************************************************************************)
EXTENDS Naturals, Sequences, FiniteSetsExt

CONSTANTS
  Process,      \* processes that may drive the turn
  Gateway,      \* those of them that serve the buttons
  Call,         \* capabilities on resources for which the policy says ask
  Nobody,       \* no claim
  MaxQuestions, \* bound: rows of the register
  MaxRounds,    \* bound: answers of the model that carry calls
  MaxFaults,    \* bound: crashes, and claims taken from a live process
  MaxCommands   \* bound: /yolo, /manual and continuations

ASSUME Constants ==
  /\ Gateway \subseteq Process /\ Nobody \notin Process
  /\ {MaxQuestions, MaxRounds, MaxFaults, MaxCommands} \subseteq Nat

VARIABLES
  buttons,   \* the surface of the turn: buttons, or a terminal
  turn,      \* its row in turns
  questions, \* approvals, in the order of asked_at
  old,       \* how many of them, from the first, were asked over six hours ago
  yolo,      \* the last of delegation_modes: whether the owner delegates
  drive,     \* of each process: what it is doing with the turn
  pressed,   \* processes with a button pressed and its wake still to come
  ran,       \* history: effects run on each question
  unasked,   \* history: an effect ran on no question that allows it
  stolen,    \* history: the turn was taken from a live process
  cut,       \* history: a process died between the end and the withdrawal
  left       \* how much of each bound is left

vars == <<buttons, turn, questions, old, yolo, drive, pressed, ran, unasked, stolen, cut, left>>
history == <<ran, unasked, stolen, cut>>
ownerVars == <<buttons, old, yolo, pressed>>

Question == 1 .. MaxQuestions
None == 0
Decision == {"none", "allow", "deny"}

Row == [call : Call, decision : Decision, at : Nat, consumed : BOOLEAN, withdrawn : BOOLEAN]
Turn == [status : {"runnable", "running", "waiting", "continuable", "done"},
         claim : Process \cup {Nobody},
         barrier : Question \cup {None},  \* the question it waits for
         due : BOOLEAN]                   \* wake_at has passed

Batch == UNION {[1 .. n -> Call] : n \in 0 .. 2}
Pc == {"idle", "entry", "round", "calls", "confirm", "effect", "closing"}
Drive == [pc : Pc,
          todo : Batch,
          on : Question \cup {None},      \* the question it asks or acts on
          armed : Question \cup {None},   \* run.barrier
          woken : Question \cup {None}]   \* the barrier the claim put out

Idle == [pc |-> "idle", todo |-> <<>>, on |-> None, armed |-> None, woken |-> None]

Init ==
  /\ buttons \in BOOLEAN
  /\ turn = [status |-> "runnable", claim |-> Nobody, barrier |-> None, due |-> FALSE]
  /\ questions = <<>> /\ old = 0
  /\ yolo \in BOOLEAN  \* a fire of a job armed with it starts delegated
  /\ drive = [p \in Process |-> Idle]
  /\ pressed = {}
  /\ ran = [q \in Question |-> 0]
  /\ unasked = FALSE /\ stolen = FALSE /\ cut = FALSE
  /\ left = [rounds |-> MaxRounds, faults |-> MaxFaults, commands |-> MaxCommands]

----------------------------------------------------------------------------
(* The register.                                                           *)

Asked == DOMAIN questions
IsOpen(q) == questions[q].decision = "none" /\ ~questions[q].withdrawn
Open == {q \in Asked : IsOpen(q)}
Answered(q) == questions[q].decision # "none"

\* Fault: a question on the same resource is not looked for.
Fault_AlwaysNew(c) == {}

OpenFor(c) == {q \in Open : questions[q].call = c}

\* ask: the oldest open row of the same call, or a new one.
Place(c) == IF OpenFor(c) # {} THEN Min(OpenFor(c)) ELSE Len(questions) + 1
Room(c) == Place(c) \in Question
Ask(c) ==
  IF Place(c) \in Asked THEN questions
  ELSE Append(questions, [call |-> c, decision |-> "none", at |-> 0,
                          consumed |-> FALSE, withdrawn |-> FALSE])

\* decide: only an open row is moved.
Decisions(rows) == Cardinality({q \in DOMAIN rows : rows[q].decision # "none"})
Decided(rows, q, v) ==
  IF rows[q].decision = "none" /\ ~rows[q].withdrawn
  THEN [rows EXCEPT ![q].decision = v, ![q].at = Decisions(rows) + 1]
  ELSE rows

\* Fault: an answer is matched although it has been spent.
Fault_MatchesSpent(rows, c) == {q \in DOMAIN rows : rows[q].call = c /\ rows[q].decision # "none"}

Matching(rows, c) ==
  {q \in DOMAIN rows : rows[q].call = c /\ rows[q].decision # "none" /\ ~rows[q].consumed}

\* take: the oldest decision on this call that is not spent, or None.
Match(rows, c) ==
  IF Matching(rows, c) = {} THEN None
  ELSE CHOOSE q \in Matching(rows, c) : \A r \in Matching(rows, c) : rows[q].at <= rows[r].at
Spent(rows, q) == IF q = None THEN rows ELSE [rows EXCEPT ![q].consumed = TRUE]

DecidedUnconsumed == \E q \in Asked : Answered(q) /\ ~questions[q].consumed

Withdrawn == [q \in Asked |-> [questions[q] EXCEPT !.withdrawn = @ \/ IsOpen(q)]]

----------------------------------------------------------------------------
(* The turn.                                                               *)

Held(p) == turn.status = "running" /\ turn.claim = p

Waiting(q) == [status |-> "waiting", claim |-> Nobody, barrier |-> q, due |-> FALSE]
Free(status) == [status |-> status, claim |-> Nobody, barrier |-> None, due |-> FALSE]
Woken == IF turn.status = "waiting" THEN [turn EXCEPT !.status = "runnable"] ELSE turn

At(p, pc) == drive[p].pc = pc
Goes(p, pc) == drive' = [drive EXCEPT ![p].pc = pc]
Stops(p) == drive' = [drive EXCEPT ![p] = Idle]
Rest(p) == Tail(drive[p].todo)
NextCall(p, armed) ==
  drive' = [drive EXCEPT ![p] = [Idle EXCEPT !.pc = IF Rest(p) = <<>> THEN "round" ELSE "calls",
                                             !.todo = Rest(p), !.armed = armed]]
Skip(p) == NextCall(p, drive[p].armed)
TheCall(p) == Head(drive[p].todo)

\* resumeTurn: the claim clears the barrier and the deadline.
Claim(p) ==
  /\ At(p, "idle")
  /\ turn.status = "runnable" \/ (turn.status = "waiting" /\ turn.due)
  /\ turn' = [status |-> "running", claim |-> p, barrier |-> None, due |-> FALSE]
  /\ drive' = [drive EXCEPT ![p] = [Idle EXCEPT !.pc = "entry", !.woken = turn.barrier]]
  /\ UNCHANGED <<questions, ownerVars, history, left>>

\* An answer has come while a question of this turn is still open and its six
\* hours are not over: it goes back to wait for the oldest.
StillAsking(p) ==
  /\ drive[p].woken # None /\ Open # {} /\ DecidedUnconsumed
  /\ Min(Open) > old

Resuspend(p) ==
  /\ At(p, "entry") /\ StillAsking(p) /\ Held(p)
  /\ turn' = Waiting(Min(Open))
  /\ Stops(p)
  /\ UNCHANGED <<questions, ownerVars, history, left>>

Enter(p) ==
  /\ At(p, "entry") /\ ~(StillAsking(p) /\ Held(p))
  /\ drive' = [drive EXCEPT ![p] = [Idle EXCEPT !.pc = "round"]]
  /\ UNCHANGED <<turn, questions, ownerVars, history, left>>

\* suspendHere honours the barrier armed last in the batch.
Suspend(p) ==
  /\ At(p, "round") /\ drive[p].armed # None /\ Held(p)
  /\ turn' = Waiting(drive[p].armed)
  /\ Stops(p)
  /\ UNCHANGED <<questions, ownerVars, history, left>>

\* The claim is gone: no write of this process reaches the row.
Lost(p) ==
  /\ At(p, "round") /\ ~Held(p)
  /\ Stops(p)
  /\ UNCHANGED <<turn, questions, ownerVars, history, left>>

Answers(p) == At(p, "round") /\ drive[p].armed = None /\ Held(p)

Calls(p) ==
  /\ Answers(p) /\ left.rounds > 0
  /\ \E b \in Batch \ {<<>>} : drive' = [drive EXCEPT ![p].pc = "calls", ![p].todo = b]
  /\ left' = [left EXCEPT !.rounds = @ - 1]
  /\ UNCHANGED <<turn, questions, ownerVars, history>>

\* Fault: the questions are withdrawn whether or not the end was written.
Fault_ClosesAnyway(p) ==
  /\ turn' = IF Held(p) THEN Free("done") ELSE turn
  /\ Goes(p, "closing")

\* closeRecord: a claim that is lost neither ends the turn nor withdraws.
Closes(p) ==
  IF Held(p) THEN turn' = Free("done") /\ Goes(p, "closing")
  ELSE Stops(p) /\ UNCHANGED turn

Finish(p) ==
  /\ Answers(p)
  /\ Closes(p)
  /\ UNCHANGED <<questions, ownerVars, history, left>>

\* releaseContinuable withdraws nothing.
Release(p) ==
  /\ Answers(p)
  /\ turn' = Free("continuable") /\ Stops(p)
  /\ UNCHANGED <<questions, ownerVars, history, left>>

Withdraw(p) ==
  /\ At(p, "closing")
  /\ questions' = Withdrawn
  /\ Stops(p)
  /\ UNCHANGED <<turn, ownerVars, history, left>>

----------------------------------------------------------------------------
(* A call the policy answers with ask.                                     *)

Calling(p) == At(p, "calls")

Given(p) == Match(questions, TheCall(p))

\* An answer given before is spent here, once, whatever it says.
Spend(p) ==
  /\ Calling(p) /\ Given(p) # None
  /\ questions' = Spent(questions, Given(p))
  /\ IF questions[Given(p)].decision = "deny" THEN Skip(p)
     ELSE drive' = [drive EXCEPT ![p].pc = "effect", ![p].on = Given(p)]
  /\ UNCHANGED <<turn, ownerVars, history, left>>

\* Under /yolo the question is asked, decided and spent in one breath; the
\* answers of decide and take are not looked at.
Delegate(p) ==
  /\ Calling(p) /\ Given(p) = None /\ yolo /\ Room(TheCall(p))
  /\ LET c == TheCall(p)
         rows == Decided(Ask(c), Place(c), "allow")
     IN /\ questions' = Spent(rows, Match(rows, c))
        /\ drive' = [drive EXCEPT ![p].pc = "effect", ![p].on = Match(rows, c)]
  /\ UNCHANGED <<turn, ownerVars, history, left>>

Pose(p) ==
  /\ Calling(p) /\ Given(p) = None /\ ~yolo /\ Room(TheCall(p))
  /\ questions' = Ask(TheCall(p))
  /\ drive' = [drive EXCEPT ![p].pc = "confirm", ![p].on = Place(TheCall(p))]
  /\ UNCHANGED <<turn, ownerVars, history, left>>

\* The buttons are sent: the call is not run and the barrier is armed.
Sent(p) ==
  /\ At(p, "confirm") /\ buttons
  /\ NextCall(p, drive[p].on)
  /\ UNCHANGED <<turn, questions, ownerVars, history, left>>

\* The terminal answers at once: decided and spent, then obeyed.
Told(p, v) ==
  /\ At(p, "confirm") /\ ~buttons
  /\ LET rows == Decided(questions, drive[p].on, v)
         q == Match(rows, TheCall(p))
     IN /\ questions' = Spent(rows, q)
        /\ IF v = "deny" THEN Skip(p)
           ELSE drive' = [drive EXCEPT ![p].pc = "effect", ![p].on = q]
  /\ UNCHANGED <<turn, ownerVars, history, left>>

\* Nobody can be asked: the turn ends on the question (ApprovalRequired).
Unavailable(p) ==
  /\ At(p, "confirm")
  /\ Closes(p)
  /\ UNCHANGED <<questions, ownerVars, history, left>>

Allows(q, c) == q # None /\ questions[q].call = c /\ questions[q].decision = "allow" /\ questions[q].consumed

Run(p) ==
  /\ At(p, "effect")
  /\ LET q == drive[p].on
     IN /\ ran' = IF q = None THEN ran ELSE [ran EXCEPT ![q] = @ + 1]
        /\ unasked' = (unasked \/ ~Allows(q, TheCall(p)))
  /\ Skip(p)
  /\ UNCHANGED <<turn, questions, ownerVars, stolen, cut, left>>

----------------------------------------------------------------------------
(* The owner, the lane, the clock and the faults.                          *)

\* handleCallback decides, then waits for the network before it wakes.
Press(p, q, v) ==
  /\ buttons /\ p \in Gateway /\ q \in Open
  /\ questions' = Decided(questions, q, v)
  /\ pressed' = pressed \cup {p}
  /\ UNCHANGED <<buttons, turn, old, yolo, drive, history, left>>

Wake(p) ==
  /\ p \in pressed
  /\ pressed' = pressed \ {p}
  /\ turn' = Woken
  /\ UNCHANGED <<buttons, questions, old, yolo, drive, history, left>>

Command == left.commands > 0 /\ left' = [left EXCEPT !.commands = @ - 1]

\* /yolo answers what is open, from the oldest, and the row wakes.  The process may
\* die before it does.
AllAllowed ==
  [q \in Asked |->
    IF IsOpen(q)
    THEN [questions[q] EXCEPT !.decision = "allow",
            !.at = Decisions(questions) + 1 + Cardinality({r \in Open : r < q})]
    ELSE questions[q]]

Yolo ==
  /\ Command /\ turn.status # "done" /\ ~yolo
  /\ yolo' = TRUE
  /\ questions' = AllAllowed
  /\ turn' = IF Open # {} THEN Woken ELSE turn
  /\ UNCHANGED <<buttons, old, drive, pressed, history>>

YoloCut ==
  /\ Command /\ turn.status # "done" /\ ~yolo
  /\ yolo' = TRUE
  /\ questions' = AllAllowed
  /\ UNCHANGED <<buttons, turn, old, drive, pressed, history>>

Manual ==
  /\ Command /\ turn.status # "done" /\ yolo
  /\ yolo' = FALSE
  /\ UNCHANGED <<buttons, turn, questions, old, drive, pressed, history>>

\* continueTurn: a new lease of the same turn, and of its answers.
Continue(p) ==
  /\ Command /\ At(p, "idle") /\ turn.status = "continuable"
  /\ turn' = [Free("running") EXCEPT !.claim = p]
  /\ Goes(p, "round")
  /\ UNCHANGED <<questions, ownerVars, history>>

\* Fault: a refusal is not an answer.
Fault_OnlyAllowed == turn.barrier # None /\ questions[turn.barrier].decision = "allow"

Satisfied == turn.barrier # None /\ Answered(turn.barrier)

\* sweepBarriers.
Sweep ==
  /\ turn.status = "waiting" /\ Satisfied
  /\ turn' = Woken
  /\ UNCHANGED <<questions, ownerVars, drive, history, left>>

\* Six hours pass since a question was asked, and later the deadline of the wait.
GrowsOld ==
  /\ old < Len(questions)
  /\ old' = old + 1
  /\ UNCHANGED <<buttons, turn, questions, yolo, drive, pressed, history, left>>

Expires ==
  /\ turn.status = "waiting" /\ ~turn.due /\ turn.barrier <= old
  /\ turn' = [turn EXCEPT !.due = TRUE]
  /\ UNCHANGED <<questions, ownerVars, drive, history, left>>

Fault == left.faults > 0 /\ left' = [left EXCEPT !.faults = @ - 1]

Crash(p) ==
  /\ Fault
  /\ drive[p] # Idle \/ p \in pressed
  /\ Stops(p)
  /\ pressed' = pressed \ {p}
  /\ cut' = (cut \/ At(p, "closing"))
  /\ UNCHANGED <<buttons, turn, questions, old, yolo, ran, unasked, stolen>>

\* The reclaim of a boot: the holder is dead, or silent beyond the horizon.
Interrupted == turn' = Free("runnable")

Reclaim ==
  /\ turn.status = "running" /\ At(turn.claim, "idle")
  /\ Interrupted
  /\ UNCHANGED <<questions, ownerVars, drive, history, left>>

Steal ==
  /\ turn.status = "running" /\ ~At(turn.claim, "idle")
  /\ Fault /\ Interrupted
  /\ stolen' = TRUE
  /\ UNCHANGED <<questions, ownerVars, drive, ran, unasked, cut>>

Drives(p) ==
  \/ Claim(p) \/ Resuspend(p) \/ Enter(p) \/ Suspend(p) \/ Lost(p)
  \/ Calls(p) \/ Finish(p) \/ Release(p) \/ Withdraw(p)
  \/ Spend(p) \/ Delegate(p) \/ Pose(p) \/ Sent(p) \/ Unavailable(p) \/ Run(p)
  \/ \E v \in {"allow", "deny"} : Told(p, v)

Next ==
  \/ \E p \in Process :
       \/ Drives(p) \/ Wake(p) \/ Continue(p) \/ Crash(p)
       \/ \E q \in Question, v \in {"allow", "deny"} : Press(p, q, v)
  \/ Yolo \/ YoloCut \/ Manual \/ Sweep \/ GrowsOld \/ Expires \/ Reclaim \/ Steal

Spec == Init /\ [][Next]_vars

\* The lane sweeps at every beat.
FairSpec == Spec /\ WF_vars(Sweep)

----------------------------------------------------------------------------

TypeOK ==
  /\ buttons \in BOOLEAN /\ turn \in Turn
  /\ questions \in Seq(Row) /\ Len(questions) <= MaxQuestions
  /\ old \in 0 .. MaxQuestions /\ yolo \in BOOLEAN
  /\ drive \in [Process -> Drive] /\ pressed \subseteq Gateway
  /\ ran \in [Question -> Nat]
  /\ {unasked, stolen, cut} \subseteq BOOLEAN

\* One answer, one effect: an answer is spent on one effect at most, on the call
\* whose question the owner read and only if it allows it.  Only a turn taken
\* from a live process can act with no answer of its own on record, as the
\* answers of decide and take are not looked at (tool-call.ts).
AnswersAreSpentOnce ==
  /\ \A q \in Question : ran[q] <= 1
  /\ unasked => stolen

\* A call has one open question, the one whose buttons are shown, through
\* repeated calls, batches, crashes and expired waits (ApprovalStore.ask).
OneOpenQuestion == \A q, r \in Open : questions[q].call = questions[r].call => q = r

\* The end of a turn withdraws its questions and nothing else does: none stays
\* open behind a finished turn, and no turn waits for one that is withdrawn, so
\* that a process which lost the turn cannot silence the question of the next
\* one (withdrawForTurn, closeRecord).  A crash between the two writes, or a
\* process that asks after it lost the turn, leaves a question behind.
WithdrawnWithTheTurn ==
  /\ turn.status = "waiting" => ~questions[turn.barrier].withdrawn
  /\ turn.status = "done" /\ Open # {} =>
       stolen \/ cut \/ \E p \in Process : At(p, "closing")

\* Both: the questions that are open are the ones a turn is waiting on.
QuestionsFollowTheTurn == OneOpenQuestion /\ WithdrawnWithTheTurn

\* A turn whose questions are all answered is woken, although the answer came
\* before it was suspended or its process died before the wake.
AnsweredIsResumed ==
  turn.status = "waiting" /\ Open = {} ~> turn.status # "waiting"

=============================================================================
