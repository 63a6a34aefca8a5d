----------------------------- MODULE Lanes_proofs -----------------------------
(***************************************************************************)
(* What the model lane promises of its token, and what a forwarded turn    *)
(* promises, for any rooms, terminals and calls.  The lane's invariant is  *)
(* inductive with no strengthening: a token names an identity and every    *)
(* client at work obtained it by Take.  The steps of Forwarding keep it    *)
(* too; with it, where a turn stands in the lane says what its entry and   *)
(* its row may be (TurnOk).  The lane that resumes turns (TurnLane) shares *)
(* this module, and nothing else, with them: its names begin with TL, and  *)
(* its invariant (TLInv) says what a note that is to come will say.        *)
(***************************************************************************)
EXTENDS Forwarding, TurnLane, SequenceTheorems, TLAPS

----------------------------------------------------------------------------
(* The model lane.                                                         *)

\* The type and the two halves of TokenIsKept together, which every step preserves.
Inv == TypeOK /\ JobKeepsItsToken /\ TokenHasAWorker

\* The identity of a client: the scheduler alone answers to "jobs".
LEMMA Identities ==
  /\ {"jobs", "lane"} \subseteq Client
  /\ \A c \in Client : Identity(c) \in {"jobs", "turns"}
  /\ \A c \in Client : Identity(c) = "jobs" <=> c = "jobs"
  /\ \A c \in Visitor : c \in Client /\ c # "jobs" /\ c # "lane"
BY DistinctClients DEF Client, Visitor, Identity

\* Nobody is at work at first, and the token is free.
LEMMA InvInit == Init => Inv
BY Identities
   DEF Init, Inv, TypeOK, JobKeepsItsToken, TokenHasAWorker, Nobody, Pc

\* A step that leaves the token alone, and moves one visitor neither into work nor
\* out of it, keeps the invariant.
LEMMA Aside ==
  ASSUME Inv, NEW c \in Visitor, NEW w \in Pc \ {"working"},
         pc[c] # "working", Goes(c, w), holder' = holder
  PROVE  JobKeepsItsToken' /\ TokenHasAWorker' /\ pc' \in [Client -> Pc]
<1>1. c \in Client /\ c # "jobs" BY Identities
<1>2. pc' \in [Client -> Pc] BY <1>1 DEF Inv, TypeOK, Goes
<1>3. JobKeepsItsToken' BY <1>1, Identities DEF Inv, TypeOK, JobKeepsItsToken, Goes
<1>4. TokenHasAWorker'
  BY <1>1 DEF Inv, TypeOK, TokenHasAWorker, Goes
<1> QED BY <1>2, <1>3, <1>4

\* A client that finds the token free and takes it keeps the invariant.
LEMMA Taken ==
  ASSUME Inv, NEW c \in Client, Free, pc[c] # "working", Take(c), Goes(c, "working")
  PROVE  /\ JobKeepsItsToken' /\ TokenHasAWorker' /\ pc' \in [Client -> Pc]
         /\ holder' \in {Nobody, "jobs", "turns"}
<1>1. pc' \in [Client -> Pc] BY DEF Inv, TypeOK, Goes, Pc
<1>2. holder' = Identity(c) /\ pc'[c] = "working" BY DEF Inv, TypeOK, Take, Goes
<1>3. holder' \in {Nobody, "jobs", "turns"} BY <1>2, Identities
<1>4. JobKeepsItsToken'
  <2>1. CASE c = "jobs" BY <2>1, <1>2, Identities DEF JobKeepsItsToken
  <2>2. CASE c # "jobs"
    <3>1. pc'["jobs"] = pc["jobs"]
      BY <2>2, Identities DEF Inv, TypeOK, Goes
    <3>2. pc["jobs"] # "working" BY DEF Inv, JobKeepsItsToken, Free, Nobody
    <3> QED BY <3>1, <3>2, <2>2, <1>2, Identities DEF JobKeepsItsToken
  <2> QED BY <2>1, <2>2
<1>5. TokenHasAWorker' BY <1>2 DEF TokenHasAWorker
<1> QED BY <1>1, <1>3, <1>4, <1>5

\* A client that is past its poll keeps the invariant when it leaves, whether it
\* has the token or not.
LEMMA Left ==
  ASSUME Inv, NEW c \in Client, pc[c] \in {"working", "stopped"}, Leave(c)
  PROVE  /\ JobKeepsItsToken' /\ TokenHasAWorker' /\ pc' \in [Client -> Pc]
         /\ holder' \in {Nobody, "jobs", "turns"}
<1>1. pc' \in [Client -> Pc] BY DEF Inv, TypeOK, Leave, Quits, Goes, Pc
<1>2. pc'[c] = "idle" /\ \A d \in Client : d # c => pc'[d] = pc[d]
  BY DEF Inv, TypeOK, Leave, Quits, Goes
<1>3. holder' = IF holder = Identity(c) THEN Nobody ELSE holder
  BY DEF Leave, Released
<1>4. holder' \in {Nobody, "jobs", "turns"} BY <1>3 DEF Inv, TypeOK
<1>5. JobKeepsItsToken'
  <2>1. CASE c = "jobs" BY <2>1, <1>2, <1>3 DEF JobKeepsItsToken, Identity, Nobody
  <2>2. CASE c # "jobs"
    <3>1. Identity(c) = "turns" BY <2>2 DEF Identity
    <3> QED BY <3>1, <2>2, <1>2, <1>3, Identities DEF Inv, JobKeepsItsToken, Nobody
  <2> QED BY <2>1, <2>2
<1>6. TokenHasAWorker'
  <2>1. SUFFICES ASSUME holder' # Nobody
                 PROVE  \E d \in Client : Identity(d) = holder' /\ pc'[d] = "working"
    BY DEF TokenHasAWorker
  <2>2. holder' = holder /\ holder # Identity(c) BY <2>1, <1>3
  <2>3. PICK d \in Client : Identity(d) = holder /\ pc[d] = "working"
    BY <2>1, <2>2 DEF Inv, TokenHasAWorker
  <2>4. d # c BY <2>2, <2>3
  <2> QED BY <2>2, <2>3, <2>4, <1>2
<1> QED BY <1>1, <1>4, <1>5, <1>6

\* No step breaks the invariant.
LEMMA InvNext == Inv /\ [Next]_vars => Inv'
<1> SUFFICES ASSUME Inv, [Next]_vars PROVE Inv'
  OBVIOUS
<1> USE DEF Inv
<1>1. CASE UNCHANGED vars
  BY <1>1 DEF vars, TypeOK, JobKeepsItsToken, TokenHasAWorker
<1>2. CASE JobStarts
  <2>1. Free /\ pc["jobs"] # "working" BY <1>2 DEF JobStarts
  <2>2. Take("jobs") /\ Goes("jobs", "working") BY <1>2 DEF JobStarts
  <2>3. "jobs" \in Client BY Identities
  <2> QED BY <1>2, <2>1, <2>2, <2>3, Taken DEF JobStarts, TypeOK
<1>3. CASE LaneStarts
  <2>1. Free /\ pc["lane"] # "working" BY <1>3 DEF LaneStarts
  <2>2. Take("lane") /\ Goes("lane", "working") BY <1>3 DEF LaneStarts
  <2>3. "lane" \in Client BY Identities
  <2> QED BY <1>3, <2>1, <2>2, <2>3, Taken DEF LaneStarts, TypeOK
<1>4. CASE LoseClaim
  BY <1>4 DEF LoseClaim, TypeOK, JobKeepsItsToken, TokenHasAWorker
<1>5. ASSUME NEW c \in Visitor, Visit(c) PROVE Inv'
  <2>1. CASE Arrive(c)
    BY <2>1, Aside DEF Arrive, TypeOK, Pc
  <2>3. CASE ArriveContinuing(c)
    BY <2>3, Aside DEF ArriveContinuing, TypeOK, Pc
  <2>4. CASE Opened(c)
    BY <2>4, Aside DEF Opened, TypeOK, Pc
  <2>5. CASE Forward(c)
    BY <2>5, Aside DEF Forward, TypeOK, Pc
  <2>6. CASE Stop(c)
    BY <2>6 DEF Stop, TypeOK, JobKeepsItsToken, TokenHasAWorker
  <2>7. CASE Obtain(c)
    <3>1. c \in Client BY Identities
    <3>2. Free /\ pc[c] # "working" /\ Take(c) /\ Goes(c, "working")
      BY <2>7 DEF Obtain, Polls
    <3> QED BY <2>7, <3>1, <3>2, Taken DEF Obtain, TypeOK
  <2>8. CASE ProceedStopped(c)
    BY <2>8, Aside DEF ProceedStopped, Stopped, TypeOK, Pc
  <2>9. CASE GiveUp(c)
    BY <2>9, Aside DEF GiveUp, Quits, Stopped, TypeOK, Pc
  <2> QED BY <1>5, <2>1, <2>3, <2>4, <2>5, <2>6, <2>7, <2>8, <2>9 DEF Visit
<1>6. ASSUME NEW c \in Client, End(c) PROVE Inv'
  BY <1>6, Left DEF End, Leave, Quits, TypeOK
<1> QED BY <1>1, <1>2, <1>3, <1>4, <1>5, <1>6 DEF Next

\* The invariant holds in every behaviour.
LEMMA InvAlways == Spec => []Inv
BY InvInit, InvNext, PTL DEF Spec

\* Every variable of the model lane has its type.
THEOREM TypeCorrect == Spec => []TypeOK
<1>1. Inv => TypeOK BY DEF Inv
<1> QED BY <1>1, InvAlways, PTL

\* A job at work holds the token in its own name, and nothing takes it from it:
\* neither the finally of a turn nor that of a room stopped before it started.
\* And a token that is taken has somebody at work under its identity, who will
\* give it back.
THEOREM TokenKept == Spec => []TokenIsKept
<1>1. Inv => TokenIsKept BY DEF Inv, TokenIsKept
<1> QED BY <1>1, InvAlways, PTL

----------------------------------------------------------------------------
(* A forwarded turn.                                                       *)

Types ==
  /\ exec \in [Terminal -> Execution] /\ rows \in SUBSET Terminal
  /\ call \in [Caller -> Connection]

\* A turn that waits has no row and one that works has; only one that works asks,
\* and not after it was cancelled.
TurnOk(t) ==
  /\ pc[t] \in {"idle", "waiting", "working"}
  /\ Alive(t) <=> pc[t] # "idle"
  /\ ~Alive(t) => exec[t].who = {}
  /\ pc[t] = "waiting" => t \notin rows
  /\ pc[t] = "working" => t \in rows
  /\ exec[t].at # "running" => pc[t] = "working"
  /\ exec[t].at = "asking" => t \notin stop

\* Who reads frames of a turn observes it.
Connected == \A c \in Caller : call[c].link = "observing" => c \in exec[Asks[c]].who

Flow == Types /\ Connected /\ \A t \in Terminal : TurnOk(t)

Whole == Inv /\ Flow

----------------------------------------------------------------------------

\* Every call asks for the id of a terminal.
LEMMA Asked == \A c \in Caller : Asks[c] \in Terminal
<1>1. Asks \in [1 .. Len(Asks) -> Terminal] BY Callers, LenProperties
<1> QED BY <1>1 DEF Caller

\* A terminal is a visitor, and none of the other clients.
LEMMA Terminals ==
  \A t \in Terminal : t \in Client /\ t \in Visitor /\ t \notin Room /\ t # "jobs" /\ t # "lane"
BY DistinctClients DEF Client, Visitor

\* A client that leaves without ever having had the token leaves the lane in order.
LEMMA LeavesUnheard ==
  ASSUME Inv, NEW t \in Terminal, pc[t] = "waiting", Quits(t), UNCHANGED <<holder, owner>>
  PROVE  Inv'
<1>1. Goes(t, "idle") /\ stop' \in SUBSET Visitor BY DEF Quits, Inv, TypeOK
<1>2. JobKeepsItsToken' /\ TokenHasAWorker' /\ pc' \in [Client -> Pc]
  BY <1>1, Aside, Terminals DEF Pc
<1> QED BY <1>1, <1>2 DEF Inv, TypeOK

\* No step of a forwarded turn disturbs the lane: but for two ways to leave and a new
\* process, it is one of the lane's own steps or none.
LEMMA LaneKept == Inv /\ [ForwardNext]_allVars => Inv'
<1> SUFFICES ASSUME Inv, [ForwardNext]_allVars PROVE Inv'
  OBVIOUS
<1>1. CASE UNCHANGED laneVars BY <1>1, InvNext DEF laneVars
<1>2. CASE Others
  BY <1>2, InvNext, Terminals DEF Others, Next, Visitor
<1>3. CASE Crash
  BY <1>3, Identities
     DEF Crash, Inv, TypeOK, JobKeepsItsToken, TokenHasAWorker, Nobody, Pc
<1>4. ASSUME NEW c \in Caller, Reads(c) PROVE Inv'
  <2> DEFINE t == Asks[c]
  <2>1. t \in Visitor BY Asked, Terminals
  <2>2. CASE UNCHANGED laneVars BY <1>1, <2>2
  <2>3. CASE Starts(c)
    BY <2>1, <2>3, InvNext DEF Starts, Next, Visit
  <2>4. CASE CancelFrame(c)
    BY <1>1, <2>1, <2>4, InvNext DEF CancelFrame, Next, Visit
  <2> QED
    BY <1>4, <2>2, <2>3, <2>4
       DEF Reads, FirstLine, Told, Attach, NextFrame, AnswerFrame, Gone
<1>5. ASSUME NEW t \in Terminal, Runs(t) PROVE Inv'
  <2>1. t \in Visitor /\ t \in Client BY Terminals
  <2>2. CASE UNCHANGED laneVars BY <1>1, <2>2
  <2>3. CASE Drop(t)
    BY <2>3, LeavesUnheard DEF Drop, Withdrawn
  <2>4. CASE BeginsNot(t)
    BY <2>4, LeavesUnheard DEF BeginsNot
  <2>5. CASE Refuse(t) BY <2>1, <2>5, InvNext DEF Refuse, Next, Visit
  <2>6. CASE Begin(t) BY <2>1, <2>6, InvNext DEF Begin, Next, Visit
  <2>7. CASE Ended(t) BY <2>1, <2>7, InvNext DEF Ended, Next
  <2> QED BY <1>5, <2>2, <2>3, <2>4, <2>5, <2>6, <2>7 DEF Runs, Ask, Evict
<1>6. ASSUME NEW c \in Caller,
             (\E early \in BOOLEAN : Call(c, early)) \/ Cancel(c) \/ Answer(c) \/ Dies(c)
      PROVE  Inv'
  BY <1>1, <1>6 DEF Call, Cancel, Answer, Dies
<1> QED BY <1>1, <1>2, <1>3, <1>4, <1>5, <1>6 DEF ForwardNext, allVars

----------------------------------------------------------------------------
(* The steps of a connection.                                              *)

\* What is written on a socket, and what is left of it.
LEMMA Frames ==
  ASSUME NEW q \in Seq(Frame)
  PROVE  /\ Append(q, "cancel") \in Seq(Frame) /\ Append(q, "answer") \in Seq(Frame)
         /\ q # <<>> => Tail(q) \in Seq(Frame)
         /\ \A n \in 1 .. Len(q) : SubSeq(q, n + 1, Len(q)) \in Seq(Frame)
         /\ <<>> \in Seq(Frame) /\ <<"run">> \in Seq(Frame) /\ <<"cancel", "run">> \in Seq(Frame)
<1>1. "cancel" \in Frame /\ "answer" \in Frame /\ "run" \in Frame BY DEF Frame
<1>2. \A n \in 1 .. Len(q) : SubSeq(q, n + 1, Len(q)) \in Seq(Frame)
  <2>1. TAKE n \in 1 .. Len(q)
  <2> QED BY SubSeqProperties, LenProperties
<1> QED BY <1>1, <1>2, AppendProperties, HeadTailProperties

\* What closes a socket, or begins none, types the connections.
LEMMA Closed ==
  ASSUME Types, NEW S, NEW l \in {"adrift", "closed"}
  PROVE  /\ Ends(S) \in [Caller -> Connection]
         /\ \A c \in Caller : /\ Shut(call[c], l) \in Connection
                              /\ Shut(call[c], l).link = l
         /\ \A c \in Caller : Ends(S)[c].link = IF c \in S THEN "closed" ELSE call[c].link
<1>1. <<>> \in Seq(Frame) OBVIOUS
<1>2. \A c \in Caller : call[c] \in Connection BY DEF Types
<1> QED BY <1>1, <1>2 DEF Connection, Shut, Ends

\* The entries that a step leaves.
LEMMA Entries ==
  ASSUME NEW e \in Execution, NEW S \in SUBSET Caller, NEW c \in Caller,
         NEW a \in {"running", "asking", "closing"}, NEW o \in Outcome \cup {"none"}
  PROVE  /\ Entry(o, S) \in Execution /\ NoExecution \in Execution
         /\ [e EXCEPT !.who = @ \cup {c}] \in Execution
         /\ [e EXCEPT !.at = a] \in Execution
         /\ Aborted(e) \in Execution
         /\ Without(e, c) \in Execution
<1>1. {c} \in SUBSET Caller /\ e.who \ {c} \in SUBSET Caller BY DEF Execution
<1>2. Aborted(e) \in Execution BY DEF Aborted, Execution
<1>3. Entry(o, S) \in Execution BY DEF Entry, Execution
<1>4. Without(e, c) \in Execution BY <1>1 DEF Without, Execution
<1> QED BY <1>1, <1>2, <1>3, <1>4 DEF NoExecution, Execution

\* A step that is about one turn leaves the others in order.
LEMMA OneTurn ==
  ASSUME Whole, NEW t \in Terminal, NEW e \in Execution,
         exec' = [exec EXCEPT ![t] = e],
         call' \in [Caller -> Connection],
         rows' \in SUBSET Terminal,
         \A u \in Terminal : u # t => pc'[u] = pc[u],
         \A u \in Terminal : u # t => (u \in stop' <=> u \in stop),
         \A u \in Terminal : u # t => (u \in rows' <=> u \in rows),
         \A d \in Caller : call'[d].link = "observing" /\ Asks[d] = t => d \in e.who,
         \A d \in Caller : call'[d].link = "observing" /\ Asks[d] # t
                            => call[d].link = "observing",
         TurnOk(t)'
  PROVE  Flow'
<1>1. Types' BY DEF Whole, Flow, Types
<1>2. \A u \in Terminal : u # t => exec'[u] = exec[u] BY DEF Whole, Flow, Types
<1>3. exec'[t] = e BY DEF Whole, Flow, Types
<1>4. \A u \in Terminal : TurnOk(u)' BY <1>2 DEF Whole, Flow, TurnOk, Alive
<1>5. Connected' BY <1>2, <1>3, Asked DEF Whole, Flow, Connected
<1> QED BY <1>1, <1>4, <1>5 DEF Flow

\* What a caller does changes neither its turn nor who observes it.
LEMMA CallerSteps ==
  ASSUME Whole, NEW c \in Caller,
         (\E early \in BOOLEAN : Call(c, early)) \/ Cancel(c) \/ Answer(c) \/ Dies(c)
  PROVE  Flow'
<1>1. UNCHANGED <<exec, rows, pc, stop>>
  BY DEF Call, Cancel, Answer, Dies, laneVars, vars
<1>2. /\ call \in [Caller -> Connection] /\ call[c] \in Connection
      /\ call[c].sent \in Seq(Frame)
  BY DEF Whole, Flow, Types, Connection
<1>3. PICK r : /\ call' = [call EXCEPT ![c] = r] /\ r \in Connection
               /\ r.link = "observing" => call[c].link = "observing"
  <2>1. CASE \E early \in BOOLEAN : Call(c, early)
    <3>1. PICK early \in BOOLEAN : Call(c, early) BY <2>1
    <3> DEFINE q == IF early THEN <<"cancel", "run">> ELSE <<"run">>
    <3>2. q \in Seq(Frame) BY <1>2, Frames
    <3>3. call' = [call EXCEPT ![c].at = "open", ![c].link = "accepted", ![c].sent = q]
      BY <3>1 DEF Call
    <3> HIDE DEF q
    <3> DEFINE r == [call[c] EXCEPT !.at = "open", !.link = "accepted", !.sent = q]
    <3>4. r \in Connection /\ r.link = "accepted" BY <1>2, <3>2 DEF Connection
    <3>5. call' = [call EXCEPT ![c] = r] BY <3>3
    <3> QED BY <3>4, <3>5
  <2>2. CASE Cancel(c)
    <3> DEFINE r == [call[c] EXCEPT !.sent = Append(@, "cancel")]
    <3>1. call' = [call EXCEPT ![c] = r] BY <2>2 DEF Cancel
    <3>2. r \in Connection /\ r.link = call[c].link BY <1>2, Frames DEF Connection
    <3> QED BY <3>1, <3>2
  <2>3. CASE Answer(c)
    <3> DEFINE r == [call[c] EXCEPT !.shown = @ - 1, !.sent = Append(@, "answer")]
    <3>1. call' = [call EXCEPT ![c] = r] /\ call[c].shown > 0 BY <2>3 DEF Answer
    <3>2. call[c].shown - 1 \in Nat BY <1>2, <3>1 DEF Connection
    <3>3. r \in Connection /\ r.link = call[c].link BY <1>2, <3>2, Frames DEF Connection
    <3> QED BY <3>1, <3>3
  <2>4. CASE Dies(c)
    <3> DEFINE r == [call[c] EXCEPT !.at = "gone", !.shown = 0]
    <3>1. call' = [call EXCEPT ![c] = r] BY <2>4 DEF Dies
    <3>2. r \in Connection /\ r.link = call[c].link BY <1>2 DEF Connection
    <3> QED BY <3>1, <3>2
  <2> QED BY <2>1, <2>2, <2>3, <2>4
<1>4. /\ call' \in [Caller -> Connection]
      /\ \A d \in Caller : call'[d].link = "observing" => call[d].link = "observing"
  BY <1>2, <1>3
<1> QED
  BY <1>1, <1>4 DEF Whole, Flow, Types, Connected, TurnOk, Alive

\* The frames of a caller, and what they do to the turn.
LEMMA ReadSteps ==
  ASSUME Whole, NEW c \in Caller, Reads(c)
  PROVE  Flow'
<1> DEFINE t == Asks[c]
<1>1. t \in Terminal BY Asked
<1>2. /\ exec \in [Terminal -> Execution] /\ exec[t] \in Execution
      /\ call \in [Caller -> Connection] /\ call[c].sent \in Seq(Frame)
  BY <1>1 DEF Whole, Flow, Types, Connection
<1>3. pc \in [Client -> Pc] /\ t \in Client BY <1>1, Terminals DEF Whole, Inv, TypeOK
<1>4. CASE FirstLine(c) /\ Told(c)
  <2>1. UNCHANGED <<exec, rows, pc, stop>> BY <1>4 DEF Told, laneVars, vars
  <2>2. call' \in [Caller -> Connection]
    BY <1>4, Closed DEF Told, Whole, Flow
  <2>3. \A d \in Caller : call'[d].link = "observing" => call[d].link = "observing"
    BY <1>4, Closed DEF Told, Whole, Flow
  <2> QED BY <2>1, <2>2, <2>3 DEF Whole, Flow, Types, Connected, TurnOk, Alive
<1>5. CASE FirstLine(c) /\ (Attach(c) \/ Starts(c))
  <2>1. PICK n \in 1 .. Len(call[c].sent) :
          call' = [call EXCEPT ![c].link = "observing",
                               ![c].sent = SubSeq(@, n + 1, Len(@))]
    BY <1>5 DEF Attach, Starts, Observed
  <2>2. call' \in [Caller -> Connection]
    BY <1>2, <2>1, Frames DEF Connection
  <2>3. \A d \in Caller : d # c => call'[d] = call[d] BY <1>2, <2>1
  <2>4. CASE Attach(c)
    <3> DEFINE e == [exec[t] EXCEPT !.who = @ \cup {c}]
    <3>1. UNCHANGED <<rows, pc, stop>> /\ Alive(t)
      BY <2>4 DEF Attach, laneVars, vars
    <3>2. e \in Execution
      <4>1. exec[t].who \cup {c} \in SUBSET Caller BY <1>2 DEF Execution
      <4> QED BY <1>2, <4>1 DEF Execution
    <3>3. /\ e.here = exec[t].here /\ e.outcome = exec[t].outcome /\ e.at = exec[t].at
          /\ e.who = exec[t].who \cup {c}
      BY <1>2 DEF Execution
    <3>4. exec' = [exec EXCEPT ![t] = e] BY <2>4 DEF Attach
    <3> HIDE DEF e
    <3>5. TurnOk(t)' BY <1>1, <1>2, <3>1, <3>3, <3>4 DEF Whole, Flow, TurnOk, Alive
    <3>6. \A d \in Caller : call'[d].link = "observing" /\ Asks[d] = t => d \in e.who
      BY <2>3, <3>3 DEF Whole, Flow, Connected
    <3> QED
      BY <1>1, <2>2, <2>3, <3>1, <3>2, <3>4, <3>5, <3>6, OneTurn DEF Whole, Flow, Types
  <2>5. CASE Starts(c)
    <3>1. ~Alive(t) /\ Unheard(t) BY <2>5 DEF Starts, Served
    <3> DEFINE e == Entry("none", {c})
    <3>2. e.here = TRUE /\ e.outcome = "none" /\ e.who = {c} /\ e.at = "running"
      BY DEF Entry
    <3>3. exec' = [exec EXCEPT ![t] = e] BY <2>5 DEF Starts
    <3>4. e \in Execution BY <1>2, Entries
    <3> HIDE DEF e
    <3>5. UNCHANGED <<rows, stop>> /\ pc' = [pc EXCEPT ![t] = "waiting"]
      BY <2>5 DEF Starts, Forward, Goes
    <3>6. exec[t].here = FALSE /\ t \notin rows BY <3>1 DEF Unheard
    <3>7. \A d \in Caller : d # c /\ Asks[d] = t => call[d].link # "observing"
      <4> SUFFICES ASSUME NEW d \in Caller, d # c, Asks[d] = t, call[d].link = "observing"
                   PROVE  FALSE
        OBVIOUS
      <4>1. exec[t].who = {} BY <1>1, <3>1 DEF Whole, Flow, TurnOk
      <4> QED BY <4>1 DEF Whole, Flow, Connected
    <3>8. TurnOk(t)'
      BY <1>1, <1>2, <1>3, <3>2, <3>3, <3>5, <3>6 DEF TurnOk, Alive
    <3>9. \A d \in Caller : call'[d].link = "observing" /\ Asks[d] = t => d \in e.who
      BY <2>3, <3>2, <3>7
    <3>10. \A d \in Caller : call'[d].link = "observing" /\ Asks[d] # t
                              => call[d].link = "observing"
      BY <2>3
    <3> QED
      BY <1>1, <1>3, <2>2, <3>2, <3>3, <3>4, <3>5, <3>8, <3>9, <3>10, OneTurn, Terminals
         DEF Whole, Flow, Types
  <2> QED BY <1>5, <2>4, <2>5
<1>6. CASE NextFrame(c)
  <2>1. call' = [call EXCEPT ![c].sent = Tail(@)] /\ call[c].sent # <<>> /\ rows' = rows
    BY <1>6 DEF NextFrame, CancelFrame, AnswerFrame, Read
  <2>2. call' \in [Caller -> Connection] BY <1>2, <2>1, Frames DEF Connection
  <2>3. \A d \in Caller : call'[d].link = call[d].link BY <1>2, <2>1 DEF Connection
  <2>4. CASE UNCHANGED <<exec, pc, stop>>
    BY <2>1, <2>2, <2>3, <2>4 DEF Whole, Flow, Types, Connected, TurnOk, Alive
  <2>5. CASE Alive(t) /\ Stop(t) /\ exec' = [exec EXCEPT ![t] = Aborted(@)]
    <3> DEFINE e == Aborted(exec[t])
    <3>1. e \in Execution BY <1>2, Entries
    <3>2. /\ e.here = exec[t].here /\ e.outcome = exec[t].outcome /\ e.who = exec[t].who
          /\ e.at # "asking"
          /\ e.at # "running" => exec[t].at # "running"
      BY <1>2 DEF Aborted, Execution
    <3>3. exec' = [exec EXCEPT ![t] = e] BY <2>5
    <3> HIDE DEF e
    <3>4. pc' = pc /\ stop' = stop \cup {t} BY <2>5 DEF Stop
    <3>5. TurnOk(t)' BY <1>1, <1>2, <2>1, <3>2, <3>3, <3>4 DEF Whole, Flow, TurnOk, Alive
    <3>6. \A d \in Caller : call'[d].link = "observing" /\ Asks[d] = t => d \in e.who
      BY <2>3, <3>2 DEF Whole, Flow, Connected
    <3> QED
      BY <1>1, <2>1, <2>2, <2>3, <3>1, <3>3, <3>4, <3>5, <3>6, OneTurn DEF Whole, Flow, Types
  <2>6. CASE /\ UNCHANGED <<pc, stop>> /\ exec[t].at = "asking"
             /\ \E at \in {"running", "closing"} : exec' = [exec EXCEPT ![t].at = at]
    <3>1. PICK at \in {"running", "closing"} : exec' = [exec EXCEPT ![t].at = at] BY <2>6
    <3> DEFINE e == [exec[t] EXCEPT !.at = at]
    <3>2. e \in Execution BY <1>2, Entries
    <3>3. /\ e.here = exec[t].here /\ e.outcome = exec[t].outcome /\ e.who = exec[t].who
          /\ e.at \in {"running", "closing"}
      BY <1>2 DEF Execution
    <3>4. exec' = [exec EXCEPT ![t] = e] BY <3>1
    <3> HIDE DEF e
    <3>5. TurnOk(t)' BY <1>1, <1>2, <2>1, <2>6, <3>3, <3>4 DEF Whole, Flow, TurnOk, Alive
    <3>6. \A d \in Caller : call'[d].link = "observing" /\ Asks[d] = t => d \in e.who
      BY <2>3, <3>3 DEF Whole, Flow, Connected
    <3> QED
      BY <1>1, <2>1, <2>2, <2>3, <2>6, <3>2, <3>4, <3>5, <3>6, OneTurn
         DEF Whole, Flow, Types
  <2> QED
    BY <1>6, <2>4, <2>5, <2>6 DEF NextFrame, CancelFrame, AnswerFrame, laneVars, vars
<1>7. CASE Gone(c)
  <2>1. UNCHANGED <<rows, pc, stop>> /\ call' = [call EXCEPT ![c] = Shut(@, "closed")]
    BY <1>7 DEF Gone, laneVars, vars
  <2>2. call' \in [Caller -> Connection] BY <1>2, <2>1, Closed DEF Whole, Flow
  <2>3. \A d \in Caller : call'[d].link = "observing" => d # c /\ call[d].link = "observing"
    BY <1>2, <2>1, Closed DEF Whole, Flow
  <2>4. CASE exec' = exec
    BY <2>1, <2>2, <2>3, <2>4 DEF Whole, Flow, Types, Connected, TurnOk, Alive
  <2>5. CASE call[c].link = "observing" /\ exec' = [exec EXCEPT ![t] = Without(@, c)]
    <3> DEFINE e == Without(exec[t], c)
    <3>1. e \in Execution BY <1>2, Entries
    <3>2. /\ e.here = exec[t].here /\ e.outcome = exec[t].outcome
          /\ e.who = exec[t].who \ {c}
          /\ \/ e.at = exec[t].at
             \/ exec[t].at = "asking" /\ e.at = "closing"
      BY <1>2 DEF Without, Execution
    <3>3. exec' = [exec EXCEPT ![t] = e] BY <2>5
    <3> HIDE DEF e
    <3>4. TurnOk(t)' BY <1>1, <1>2, <2>1, <3>2, <3>3 DEF Whole, Flow, TurnOk, Alive
    <3>5. \A d \in Caller : call'[d].link = "observing" /\ Asks[d] = t => d \in e.who
      BY <2>3, <3>2 DEF Whole, Flow, Connected
    <3> QED
      BY <1>1, <2>1, <2>2, <2>3, <3>1, <3>3, <3>4, <3>5, OneTurn DEF Whole, Flow, Types
  <2> QED BY <1>7, <2>4, <2>5 DEF Gone
<1> QED BY <1>4, <1>5, <1>6, <1>7 DEF Reads, FirstLine
----------------------------------------------------------------------------
(* The steps of a turn.                                                    *)

\* A turn that is over leaves an entry that is told to all who observe it.
LEMMA Finishes ==
  ASSUME Whole, NEW t \in Terminal, NEW o \in Outcome, Finish(t, o), Quits(t), rows' = rows
  PROVE  Flow'
<1> DEFINE e == Entry(o, {})
<1>1. e \in Execution BY Entries DEF Entry, Execution
<1>2. e.here /\ e.outcome # "none" /\ e.who = {} /\ e.at = "running"
  BY DEF Entry, Outcome
<1>3. exec' = [exec EXCEPT ![t] = e] /\ call' = Ends(exec[t].who) BY DEF Finish
<1> HIDE DEF e
<1>4. call' \in [Caller -> Connection] BY <1>3, Closed DEF Whole, Flow
<1>5. \A d \in Caller : call'[d].link = "observing" =>
                          call[d].link = "observing" /\ Asks[d] # t
  BY <1>3, Closed DEF Whole, Flow, Connected
<1>6. t \in Client /\ pc \in [Client -> Pc] BY Terminals DEF Whole, Inv, TypeOK
<1>7. pc' = [pc EXCEPT ![t] = "idle"] /\ stop' = stop \ {t} BY DEF Quits, Goes
<1>8. TurnOk(t)' BY <1>1, <1>2, <1>3, <1>6, <1>7 DEF Whole, Flow, Types, TurnOk, Alive
<1> QED
  BY <1>1, <1>3, <1>4, <1>5, <1>6, <1>7, <1>8, Terminals, OneTurn DEF Whole, Flow, Types

\* So does one that is dropped or forgotten, and nobody observes it any more.
LEMMA RunSteps ==
  ASSUME Whole, NEW t \in Terminal, Runs(t)
  PROVE  Flow'
<1>1. /\ exec \in [Terminal -> Execution] /\ exec[t] \in Execution
      /\ call \in [Caller -> Connection]
  BY DEF Whole, Flow, Types
<1>2. t \in Client /\ pc \in [Client -> Pc] BY Terminals DEF Whole, Inv, TypeOK
<1>3. TurnOk(t) BY DEF Whole, Flow
<1>4. NoExecution \in Execution /\ ~NoExecution.here /\ NoExecution.who = {}
      /\ NoExecution.at = "running"
  BY DEF NoExecution, Execution
<1>5. CASE Drop(t)
  <2>1. exec' = [exec EXCEPT ![t] = NoExecution] /\ rows' = rows BY <1>5 DEF Drop
  <2>2. pc' = [pc EXCEPT ![t] = "idle"] /\ stop' = stop \ {t} BY <1>5 DEF Drop, Quits, Goes
  <2>3. call' = [c \in Caller |->
                   IF c \in exec[t].who THEN Shut(call[c], "adrift") ELSE call[c]]
    BY <1>5 DEF Drop
  <2>4. call' \in [Caller -> Connection] BY <1>1, <2>3, Closed DEF Whole, Flow
  <2>5. \A d \in Caller : call'[d].link = "observing" =>
                            call[d].link = "observing" /\ Asks[d] # t
    BY <2>3, Closed DEF Whole, Flow, Connected
  <2>6. TurnOk(t)' BY <1>1, <1>2, <1>4, <2>1, <2>2 DEF TurnOk, Alive
  <2> QED
    BY <1>2, <1>4, <2>1, <2>2, <2>4, <2>5, <2>6, Terminals, OneTurn DEF Whole, Flow, Types
<1>6. CASE Refuse(t)
  BY <1>6, Finishes DEF Refuse, GiveUp, Outcome
<1>7. CASE Begin(t)
  <2>1. UNCHANGED <<exec, call, stop>> /\ rows' = rows \cup {t}
    BY <1>7 DEF Begin, Obtain
  <2>2. pc' = [pc EXCEPT ![t] = "working"] /\ pc[t] # "idle"
    BY <1>7 DEF Begin, Obtain, Polls, Goes
  <2>3. pc[t] = "waiting" BY <1>3, <2>2, <1>7 DEF TurnOk, Begin, Obtain, Polls
  <2>4. TurnOk(t)' BY <1>2, <1>3, <2>1, <2>2, <2>3 DEF TurnOk, Alive
  <2>5. exec' = [exec EXCEPT ![t] = exec[t]] BY <1>1, <2>1
  <2>6. \A d \in Caller : call'[d].link = "observing" /\ Asks[d] = t => d \in exec[t].who
    BY <2>1 DEF Whole, Flow, Connected
  <2> QED
    BY <1>1, <1>2, <2>1, <2>2, <2>4, <2>5, <2>6, Terminals, OneTurn DEF Whole, Flow, Types
<1>8. CASE BeginsNot(t)
  BY <1>8, Finishes DEF BeginsNot, Broken, Outcome
<1>9. CASE Ask(t)
  <2> DEFINE at == IF exec[t].who = {} THEN "closing" ELSE "asking"
             e == [exec[t] EXCEPT !.at = at]
  <2>1. UNCHANGED <<rows, pc, stop>> /\ pc[t] = "working" /\ t \notin stop
    BY <1>9 DEF Ask, laneVars, vars
  <2>2. exec' = [exec EXCEPT ![t] = e] BY <1>9 DEF Ask
  <2>3. at \in {"running", "asking", "closing"} OBVIOUS
  <2>4. call' = [c \in Caller |->
                   IF c \in exec[t].who /\ call[c].at = "open"
                   THEN [call[c] EXCEPT !.shown = @ + 1] ELSE call[c]]
    BY <1>9 DEF Ask
  <2> HIDE DEF at
  <2>5. /\ e \in Execution /\ e.here = exec[t].here /\ e.outcome = exec[t].outcome
        /\ e.who = exec[t].who
    BY <1>1, <2>3 DEF Execution
  <2> HIDE DEF e
  <2>6. \A d \in Caller : /\ [call[d] EXCEPT !.shown = @ + 1] \in Connection
                         /\ [call[d] EXCEPT !.shown = @ + 1].link = call[d].link
    <3> TAKE d \in Caller
    <3> DEFINE r == call[d]
    <3>1. r \in Connection BY <1>1
    <3>2. r.shown + 1 \in Nat BY <3>1 DEF Connection
    <3> HIDE DEF r
    <3>3. [r EXCEPT !.shown = @ + 1] \in Connection /\ [r EXCEPT !.shown = @ + 1].link = r.link
      BY <3>1, <3>2 DEF Connection
    <3> QED BY <3>3 DEF r
  <2>7. /\ call' \in [Caller -> Connection]
        /\ \A d \in Caller : call'[d].link = call[d].link
    BY <1>1, <2>4, <2>6
  <2>8. TurnOk(t)' BY <1>1, <1>3, <2>1, <2>2, <2>5 DEF TurnOk, Alive
  <2>9. \A d \in Caller : call'[d].link = "observing" /\ Asks[d] = t => d \in e.who
    BY <2>5, <2>7 DEF Whole, Flow, Connected
  <2> QED
    BY <2>1, <2>2, <2>5, <2>7, <2>8, <2>9, OneTurn DEF Whole, Flow, Types
<1>10. CASE Ended(t)
  BY <1>10, Finishes DEF Ended, End, Leave, Broken, Outcome
<1>11. CASE Evict(t)
  <2>1. exec' = [exec EXCEPT ![t] = NoExecution] /\ UNCHANGED <<call, rows, pc, stop>>
        /\ ~Alive(t)
    BY <1>11 DEF Evict, laneVars, vars, Alive
  <2>2. TurnOk(t)' BY <1>1, <1>3, <1>4, <2>1 DEF TurnOk, Alive
  <2>3. \A d \in Caller : call'[d].link = "observing" => Asks[d] # t
    BY <1>3, <2>1 DEF Whole, Flow, Connected, TurnOk
  <2> QED BY <1>4, <2>1, <2>2, <2>3, OneTurn DEF Whole, Flow, Types
<1> QED BY <1>5, <1>6, <1>7, <1>8, <1>9, <1>10, <1>11 DEF Runs

----------------------------------------------------------------------------

\* A new process knows of no execution, and every socket of the old one is closed.
LEMMA AfterCrash == ASSUME Whole, Crash PROVE Flow'
<1>1. /\ exec' = [t \in Terminal |-> NoExecution] /\ rows' = rows
      /\ pc' = [c \in Client |-> "idle"]
      /\ call' = Ends({c \in Caller : call[c].link \in {"accepted", "observing", "adrift"}})
  BY DEF Crash
<1>2. NoExecution \in Execution /\ ~NoExecution.here /\ NoExecution.who = {}
      /\ NoExecution.at = "running"
  BY DEF NoExecution, Execution
<1>3. Types' BY <1>1, <1>2, Closed DEF Whole, Flow, Types
<1>4. Connected' BY <1>1, Closed DEF Whole, Flow, Connected
<1>5. \A t \in Terminal : TurnOk(t)' BY <1>1, <1>2, Terminals DEF TurnOk, Alive
<1> QED BY <1>3, <1>4, <1>5 DEF Flow

\* The other clients of the lane move no turn of a terminal.
LEMMA OthersAside ==
  ASSUME Inv, Others
  PROVE  \A t \in Terminal : pc'[t] = pc[t] /\ (t \in stop' <=> t \in stop)
<1>1. PICK c \in Client \ Terminal : /\ pc' = pc \/ \E w : Goes(c, w)
                                     /\ stop' = stop \/ stop' = stop \cup {c}
                                        \/ stop' = stop \ {c}
  BY Terminals, DistinctClients
     DEF Others, JobStarts, LaneStarts, LoseClaim, Visit, Arrive, ArriveContinuing,
         Opened, Forward, Stop, Obtain, ProceedStopped, GiveUp, Quits, End, Leave,
         Goes, Client, Visitor
<1> QED BY <1>1, Terminals DEF Inv, TypeOK, Goes

\* So what they do leaves every forwarded turn in order.
LEMMA AfterOthers == ASSUME Whole, Others PROVE Flow'
<1>1. UNCHANGED <<exec, rows, call>> BY DEF Others, forwardVars
<1> QED BY <1>1, OthersAside DEF Whole, Flow, Types, Connected, TurnOk, Alive

\* Nothing is forwarded at first.
LEMMA WholeInit == ForwardInit => Whole
<1> SUFFICES ASSUME ForwardInit PROVE Whole
  OBVIOUS
<1>1. NoExecution \in Execution /\ ~NoExecution.here /\ NoExecution.who = {}
      /\ NoExecution.at = "running"
  BY DEF NoExecution, Execution
<1>2. NoConnection \in Connection /\ NoConnection.link = "none"
  BY DEF NoConnection, Connection
<1>3. Flow
  BY <1>1, <1>2, Asked, Terminals
     DEF Init, ForwardInit, Flow, Types, Connected, TurnOk, Alive
<1> QED BY <1>3, InvInit DEF Whole, ForwardInit

\* Every step keeps the lane, and every turn in order.
LEMMA WholeNext == Whole /\ [ForwardNext]_allVars => Whole'
<1> SUFFICES ASSUME Whole, [ForwardNext]_allVars PROVE Whole'
  OBVIOUS
<1>1. Inv' BY LaneKept DEF Whole
<1>2. Flow'
  <2>1. CASE UNCHANGED allVars
    BY <2>1 DEF allVars, laneVars, vars, forwardVars, Whole, Flow, Types, Connected, TurnOk,
                Alive
  <2> QED
    BY <2>1, AfterOthers, AfterCrash, CallerSteps, ReadSteps, RunSteps DEF ForwardNext
<1> QED BY <1>1, <1>2 DEF Whole

\* Lane and turns stay in order.
LEMMA WholeAlways == ForwardSpec => []Whole
BY WholeInit, WholeNext, PTL DEF ForwardSpec

\* The token is neither taken from the client at work nor left behind by it, through
\* cancellations, terminals that are gone, questions and ends of the gateway.
THEOREM ForwardedTokenKept == ForwardSpec => []TokenIsKept
<1>1. Whole => TokenIsKept BY DEF Whole, Inv, TokenIsKept
<1> QED BY <1>1, WholeAlways, PTL

\* What a step may make of a turn: the two properties, for one step and one turn.
BeginsOnce(t) == pc[t] # "working" /\ pc'[t] = "working" => t \notin rows

SaysTrue(t) ==
  exec'[t].outcome # exec[t].outcome =>
    /\ exec'[t].outcome = "failed" => t \notin rows'
    /\ exec'[t].outcome = "result" => t \in rows' /\ pc'[t] # "working"

GrantsWanted(t) ==
  exec[t].at = "asking" /\ exec'[t].at = "running" /\ exec'[t].here =>
    exec'[t].who # {} /\ t \notin stop'

\* It begins when it has waited, and so without a row; it ends where its row says;
\* and a question that is open belongs to a turn at work that nobody has cancelled.
LEMMA EveryStep ==
  ASSUME Whole, [ForwardNext]_allVars, NEW t \in Terminal
  PROVE  BeginsOnce(t) /\ SaysTrue(t) /\ GrantsWanted(t)
<1> USE DEF BeginsOnce, SaysTrue, GrantsWanted
<1>1. /\ TurnOk(t) /\ t \in Client /\ pc \in [Client -> Pc]
      /\ exec \in [Terminal -> Execution] /\ exec[t] \in Execution
  BY Terminals DEF Whole, Inv, TypeOK, Flow, Types
<1>2. CASE pc'[t] = pc[t] /\ exec'[t] = exec[t]
  BY <1>2
<1>3. CASE UNCHANGED allVars BY <1>2, <1>3 DEF allVars, laneVars, vars, forwardVars
<1>4. CASE Others
  <2>1. exec' = exec BY <1>4 DEF Others, forwardVars
  <2> QED BY <1>2, <1>4, <2>1, OthersAside DEF Whole
<1>5. CASE Crash
  <2>1. exec'[t] = NoExecution /\ pc'[t] = "idle" BY <1>1, <1>5 DEF Crash
  <2> QED BY <2>1 DEF NoExecution
<1>6. ASSUME NEW c \in Caller,
             (\E early \in BOOLEAN : Call(c, early)) \/ Cancel(c) \/ Answer(c) \/ Dies(c)
      PROVE  BeginsOnce(t) /\ SaysTrue(t) /\ GrantsWanted(t)
  BY <1>2, <1>6 DEF Call, Cancel, Answer, Dies, laneVars, vars
<1>7. ASSUME NEW c \in Caller, Reads(c)
      PROVE  BeginsOnce(t) /\ SaysTrue(t) /\ GrantsWanted(t)
  <2>1. Asks[c] \in Terminal /\ Asks[c] \in Client BY Asked, Terminals
  <2>2. CASE Told(c) BY <1>2, <2>2 DEF Told, laneVars, vars
  <2>3. CASE Attach(c)
    <3>1. pc' = pc /\ exec' = [exec EXCEPT ![Asks[c]].who = @ \cup {c}]
      BY <2>3 DEF Attach, laneVars, vars
    <3> QED BY <1>1, <3>1 DEF Execution
  <2>4. CASE Starts(c)
    <3>1. /\ pc' = [pc EXCEPT ![Asks[c]] = "waiting"] /\ ~Alive(Asks[c])
          /\ exec' = [exec EXCEPT ![Asks[c]] = Entry("none", {c})]
      BY <2>4 DEF Starts, Forward, Goes
    <3>2. Entry("none", {c}).outcome = "none" BY DEF Entry
    <3>3. CASE Asks[c] = t
      <4>1. exec[t].at = "running" BY <1>1, <3>1, <3>3 DEF TurnOk
      <4>2. exec'[t].outcome = "none" /\ pc'[t] = "waiting" BY <1>1, <3>1, <3>2, <3>3
      <4> QED BY <4>1, <4>2
    <3> QED BY <1>1, <1>2, <3>1, <3>3
  <2>5. CASE CancelFrame(c) /\ call[c].link = "observing"
    <3>1. pc' = pc BY <2>5 DEF CancelFrame, Stop, laneVars, vars
    <3>2. exec' = exec \/ exec' = [exec EXCEPT ![Asks[c]] = Aborted(@)]
      BY <2>5 DEF CancelFrame
    <3>3. /\ Aborted(exec[t]).outcome = exec[t].outcome
          /\ exec[t].at = "asking" => Aborted(exec[t]).at = "closing"
      BY <1>1 DEF Aborted, Execution
    <3> QED BY <1>1, <1>2, <3>1, <3>2, <3>3
  <2>6. CASE AnswerFrame(c) /\ call[c].link = "observing"
    <3>1. pc' = pc /\ stop' = stop BY <2>6 DEF AnswerFrame, laneVars, vars
    <3>2. \/ exec' = exec
          \/ \E at \in {"running", "closing"} : exec' = [exec EXCEPT ![Asks[c]].at = at]
      BY <2>6 DEF AnswerFrame
    <3>3. c \in exec[Asks[c]].who BY <2>6 DEF Whole, Flow, Connected
    <3>4. CASE exec' = exec BY <1>2, <3>1, <3>4
    <3>5. CASE \E at \in {"running", "closing"} : exec' = [exec EXCEPT ![Asks[c]].at = at]
      BY <1>1, <3>1, <3>3, <3>5 DEF TurnOk, Execution
    <3> QED BY <3>2, <3>4, <3>5
  <2>7. CASE Gone(c)
    <3>1. pc' = pc /\ (exec' = exec \/ exec' = [exec EXCEPT ![Asks[c]] = Without(@, c)])
      BY <2>7 DEF Gone, laneVars, vars
    <3>2. /\ Without(exec[t], c).outcome = exec[t].outcome
          /\ Without(exec[t], c).at = "running" => exec[t].at = "running"
      BY <1>1 DEF Without, Execution
    <3>3. CASE exec' = exec BY <1>2, <3>1, <3>3
    <3>4. CASE exec' = [exec EXCEPT ![Asks[c]] = Without(@, c)]
      <4>1. exec'[t] = exec[t] \/ exec'[t] = Without(exec[t], c) BY <1>1, <3>4
      <4> QED BY <3>1, <3>2, <4>1
    <3> QED BY <3>1, <3>3, <3>4
  <2> QED
    BY <1>7, <2>2, <2>3, <2>4, <2>5, <2>6, <2>7 DEF Reads, FirstLine, NextFrame
<1>8. ASSUME NEW u \in Terminal, Runs(u)
      PROVE  BeginsOnce(t) /\ SaysTrue(t) /\ GrantsWanted(t)
  <2>1. u \in Client BY Terminals
  <2>2. CASE u # t
    <3>1. pc' = pc \/ \E w : pc' = [pc EXCEPT ![u] = w]
      BY <1>8 DEF Runs, Drop, Refuse, Begin, BeginsNot, Ask, Ended, Evict, Quits, Goes,
                  GiveUp, Obtain, End, Leave, laneVars, vars
    <3>2. exec' = exec \/ \E e : exec' = [exec EXCEPT ![u] = e]
      BY <1>8 DEF Runs, Drop, Refuse, Begin, BeginsNot, Ask, Ended, Evict, Finish
    <3> QED BY <1>1, <1>2, <2>1, <2>2, <3>1, <3>2
  <2>3. ASSUME NEW o \in Outcome, Finish(t, o), Quits(t), rows' = rows,
               exec[t].at # "asking",
               o = "failed" => t \notin rows, o = "result" => t \in rows
        PROVE  BeginsOnce(t) /\ SaysTrue(t) /\ GrantsWanted(t)
    <3>1. exec'[t].outcome = o /\ pc'[t] = "idle"
      BY <1>1, <2>3 DEF Finish, Entry, Quits, Goes
    <3> QED BY <2>3, <3>1
  <2>4. CASE u = t /\ (Drop(t) \/ Evict(t))
    <3>1. exec'[t] = NoExecution /\ (pc'[t] = pc[t] \/ pc'[t] = "idle")
      BY <1>1, <2>4 DEF Drop, Evict, Quits, Goes, laneVars, vars
    <3> QED BY <3>1 DEF NoExecution
  <2>5. CASE u = t /\ Refuse(t)
    <3>1. pc[t] = "waiting" BY <2>5 DEF Refuse, GiveUp, Stopped
    <3> QED BY <1>1, <2>3, <2>5, <3>1 DEF Refuse, GiveUp, TurnOk, Outcome
  <2>6. CASE u = t /\ Begin(t)
    <3>1. exec' = exec /\ pc[t] = "waiting"
      BY <1>1, <2>6 DEF Begin, Obtain, Polls, TurnOk
    <3> QED BY <1>1, <3>1 DEF TurnOk
  <2>7. CASE u = t /\ BeginsNot(t)
    <3>1. pc[t] = "waiting" BY <2>7 DEF BeginsNot
    <3> QED BY <1>1, <2>3, <2>7, <3>1 DEF BeginsNot, TurnOk, Broken, Outcome
  <2>8. CASE u = t /\ Ask(t)
    <3>1. pc' = pc /\ exec[t].at = "running" BY <2>8 DEF Ask, laneVars, vars
    <3>2. \E at : exec' = [exec EXCEPT ![t].at = at] BY <2>8 DEF Ask
    <3> QED BY <1>1, <3>1, <3>2 DEF Execution
  <2>9. CASE u = t /\ Ended(t)
    <3>1. pc[t] = "working" /\ exec[t].at # "asking" BY <2>9 DEF Ended, AtWork
    <3> QED
      BY <1>1, <2>3, <2>9, <3>1 DEF Ended, End, Leave, TurnOk, Broken, Outcome
  <2> QED BY <1>8, <2>2, <2>4, <2>5, <2>6, <2>7, <2>8, <2>9 DEF Runs
<1> QED BY <1>3, <1>4, <1>5, <1>6, <1>7, <1>8 DEF ForwardNext

\* An execution begins once for each id; `failed` is said only of one that has not
\* begun, a result only of one that has ended and given the token back.
THEOREM OutcomeCorrect == ForwardSpec => OutcomeIsTrue
<1>1. Whole /\ [ForwardNext]_allVars =>
        [\A t \in Terminal :
           /\ pc[t] # "working" /\ pc'[t] = "working" => t \notin rows
           /\ exec'[t].outcome # exec[t].outcome =>
                /\ exec'[t].outcome = "failed" => t \notin rows'
                /\ exec'[t].outcome = "result" => t \in rows' /\ pc'[t] # "working"]_allVars
  BY EveryStep DEF BeginsOnce, SaysTrue
<1> QED BY <1>1, WholeAlways, PTL DEF ForwardSpec, OutcomeIsTrue

\* Whatever crosses it, leave that was given is used only while somebody observes the
\* turn and nobody has cancelled it.
THEOREM GrantCorrect == ForwardSpec => GrantIsWanted
<1>1. Whole /\ [ForwardNext]_allVars =>
        [\A t \in Terminal :
           exec[t].at = "asking" /\ exec'[t].at = "running" /\ exec'[t].here =>
             exec'[t].who # {} /\ t \notin stop']_allVars
  BY EveryStep DEF GrantsWanted
<1> QED BY <1>1, WholeAlways, PTL DEF ForwardSpec, GrantIsWanted

----------------------------------------------------------------------------
(* The turn lane.                                                          *)

\* A lane with work in the background works on a row that is there.
TasksHaveRows == \A p \in Proc : task[p].pc # "idle" => task[p].turn \in Rows

\* A process holds only what it has claimed.
OnlyRowsAreHeld == \A t \in Turn \ Rows : row[t].holder = "none"

\* What is about to be noted as arrived has arrived.
NotesAreTrue ==
  \A p \in Proc : task[p].pc = "noting" /\ task[p].arrived =>
    task[p].turn \in hist.answered \cup hist.told

Visible == TasksHaveRows /\ OnlyRowsAreHeld /\ NotesAreTrue /\ UnsentIsVisible

\* The pairs that are left, and those that are new.
LEMMA InLater ==
  ASSUME NEW W, NEW t, NEW u
  PROVE  <<t, u>> \in Later(W) <=> \/ <<t, u>> \in older /\ (t \in W => u \in W)
                                   \/ t \in Rows \ W /\ u \in W
<1>1. <<t, u>>[1] = t /\ <<t, u>>[2] = u OBVIOUS
<1> QED BY <1>1 DEF Later

\* What is written goes to the end, in the order it had: one row, which may be
\* new, or several that are there.
LEMMA LaterOrders ==
  ASSUME Orders(older, Rows), NEW W \in SUBSET Turn,
         \/ W \subseteq Rows
         \/ \E t \in Turn : W = {t}
  PROVE  Orders(Later(W), Rows \cup W)
<1> DEFINE S == Rows \cup W
<1>1. Later(W) \subseteq S \X S BY DEF Later, Orders
<1>2. ASSUME NEW t \in S, NEW u \in S
      PROVE  t # u <=> (<<t, u>> \in Later(W) \/ <<u, t>> \in Later(W))
  <2>1. <<t, u>> \in Later(W) <=> \/ <<t, u>> \in older /\ (t \in W => u \in W)
                                  \/ t \in Rows \ W /\ u \in W
    BY InLater
  <2>2. <<u, t>> \in Later(W) <=> \/ <<u, t>> \in older /\ (u \in W => t \in W)
                                  \/ u \in Rows \ W /\ t \in W
    BY InLater
  <2>3. \A x, y \in Rows : x # y <=> (<<x, y>> \in older \/ <<y, x>> \in older) BY DEF Orders
  <2>4. <<t, u>> \in older \/ <<u, t>> \in older => t \in Rows /\ u \in Rows BY DEF Orders
  <2>5. t \in W /\ u \in W => (t \in Rows /\ u \in Rows) \/ t = u OBVIOUS
  <2> QED BY <2>1, <2>2, <2>3, <2>4, <2>5
<1>3. ASSUME NEW t \in S, NEW u \in S, NEW v \in S,
             <<t, u>> \in Later(W), <<u, v>> \in Later(W)
      PROVE  <<t, v>> \in Later(W)
  <2>1. \/ <<t, u>> \in older /\ (t \in W => u \in W)
        \/ t \in Rows \ W /\ u \in W
    BY <1>3, InLater
  <2>2. \/ <<u, v>> \in older /\ (u \in W => v \in W)
        \/ u \in Rows \ W /\ v \in W
    BY <1>3, InLater
  <2>3. \A x, y, z \in Rows : <<x, y>> \in older /\ <<y, z>> \in older => <<x, z>> \in older
    BY DEF Orders
  <2>4. \A x, y : <<x, y>> \in older => x \in Rows /\ y \in Rows BY DEF Orders
  <2>5. \/ <<t, v>> \in older /\ (t \in W => v \in W)
        \/ t \in Rows \ W /\ v \in W
    BY <2>1, <2>2, <2>3, <2>4
  <2> QED BY <2>5, InLater
<1> HIDE DEF S
<1>4. Orders(Later(W), S) BY <1>1, <1>2, <1>3 DEF Orders
<1> QED BY <1>4 DEF S

TLInv == TLTypeOK /\ Visible

\* What a step does to the rows: they stay rows, in an order.
RowsAreKept ==
  /\ row' \in [Turn -> Row]
  /\ Orders(older', Rows')
  /\ Rows \subseteq Rows'
  /\ OnlyRowsAreHeld'

LEMMA RowsUnchanged ==
  ASSUME TLInv, UNCHANGED <<row, older>>
  PROVE  RowsAreKept
BY DEF TLInv, Visible, TLTypeOK, RowsAreKept, Rows, OnlyRowsAreHeld, Orders

LEMMA RowWritten ==
  ASSUME TLInv, NEW t \in Turn, NEW r \in Row, r.status # "absent", Write(t, r)
  PROVE  RowsAreKept
<1>1. row' = [row EXCEPT ![t] = r] /\ older' = Later({t}) BY DEF Write
<1>2. row \in [Turn -> Row] /\ Orders(older, Rows) BY DEF TLInv, TLTypeOK
<1>3. row' \in [Turn -> Row] BY <1>1, <1>2
<1>4. Rows' = Rows \cup {t} BY <1>1, <1>2 DEF Rows
<1>5. Orders(older', Rows') BY <1>1, <1>2, <1>4, LaterOrders
<1>6. OnlyRowsAreHeld' BY <1>1, <1>2, <1>4 DEF TLInv, Visible, OnlyRowsAreHeld
<1> QED BY <1>3, <1>4, <1>5, <1>6 DEF RowsAreKept

\* Several rows at once, that are rows and stay so.
LEMMA RowsRewritten ==
  ASSUME TLInv, row' \in [Turn -> Row], NEW W \in SUBSET Rows, older' = Later(W),
         \A t \in Turn : row'[t].status = "absent" <=> row[t].status = "absent",
         \A t \in Turn : row'[t].holder \in {row[t].holder, "none"}
  PROVE  RowsAreKept
<1>1. Rows' = Rows BY DEF Rows
<1>2. Rows \cup W = Rows OBVIOUS
<1>3. W \in SUBSET Turn BY DEF Rows
<1>4. Orders(older', Rows')
  <2>1. Orders(older, Rows) BY DEF TLInv, TLTypeOK
  <2>2. Orders(Later(W), Rows \cup W) BY <1>3, <2>1, LaterOrders
  <2> QED BY <1>1, <1>2, <2>2
<1>5. OnlyRowsAreHeld' BY <1>1 DEF TLInv, Visible, OnlyRowsAreHeld
<1> QED BY <1>1, <1>4, <1>5 DEF RowsAreKept

\* The row at hand is one.
LEMMA ItsRow ==
  ASSUME TLInv, NEW p \in Proc, task[p].pc # "idle"
  PROVE  /\ task[p].turn \in Turn
         /\ row[task[p].turn] \in Row
         /\ row[task[p].turn].status # "absent"
BY DEF TLInv, Visible, TLTypeOK, TasksHaveRows, Rows

LEMMA Swept ==
  ASSUME TLInv
  PROVE  /\ SweptRow \in [Turn -> Row]
         /\ \A t \in Turn : SweptRow[t] = row[t] \/ SweptRow[t] = [row[t] EXCEPT !.status = "runnable"]
         /\ Woken \subseteq Rows
         /\ \A t \in Turn : SweptRow[t].status = "absent" <=> row[t].status = "absent"
         /\ DueNow \subseteq Rows
<1>1. row \in [Turn -> Row] BY DEF TLInv, TLTypeOK
<1>2. \A t \in Turn : SweptRow[t] = IF t \in Woken THEN [row[t] EXCEPT !.status = "runnable"] ELSE row[t]
  BY DEF SweptRow
<1>3. \A t \in Woken : t \in Turn /\ row[t].status = "waiting" BY DEF Woken
<1>4. SweptRow \in [Turn -> Row] BY <1>1, <1>2 DEF SweptRow, Row, Status
<1>5. Woken \subseteq Rows BY <1>3 DEF Rows
<1>6. \A t \in Turn : SweptRow[t].status = "absent" <=> row[t].status = "absent"
  BY <1>1, <1>2, <1>3 DEF Row, Status
<1>7. DueNow \subseteq Rows BY <1>6 DEF DueNow, Due, Rows
<1> QED BY <1>2, <1>4, <1>5, <1>6, <1>7

\* Every step keeps the rows.
LEMMA RowsStep ==
  ASSUME TLInv, TLNext
  PROVE  RowsAreKept
<1> USE DEF TLInv
<1>1. ASSUME NEW p \in Proc, Beat(p) PROVE RowsAreKept
  <2>1. row' = SweptRow /\ older' = Later(Woken) BY <1>1 DEF Beat
  <2>2. ASSUME NEW t \in Turn PROVE row'[t].holder = row[t].holder
    <3>1. row[t] \in Row BY DEF TLTypeOK
    <3>2. row'[t] = row[t] \/ row'[t] = [row[t] EXCEPT !.status = "runnable"] BY <2>1, Swept
    <3> QED BY <3>1, <3>2 DEF Row
  <2> QED BY <2>1, <2>2, Swept, RowsRewritten
<1>2. ASSUME NEW p \in Proc, Claim(p) PROVE RowsAreKept
  <2> DEFINE t == task[p].turn
             r == [row[t] EXCEPT !.status = "running", !.ready = "no", !.holder = p]
  <2>1. Write(t, r) /\ task[p].pc = "asked" BY <1>2 DEF Claim
  <2>2. t \in Turn /\ row[t] \in Row BY <2>1, ItsRow
  <2>3. r \in Row /\ r.status # "absent" BY <2>2 DEF Row, Status
  <2> QED BY <2>1, <2>2, <2>3, RowWritten
<1>3. ASSUME NEW p \in Proc, Grant(p) PROVE RowsAreKept
  <2> DEFINE t == task[p].turn
             r == [row[t] EXCEPT !.status = "running", !.lease = @ + 1,
                                   !.delivery = Cleared(@), !.holder = p]
  <2>1. Write(t, r) /\ task[p].pc = "asked" BY <1>3 DEF Grant
  <2>2. t \in Turn /\ row[t] \in Row BY <2>1, ItsRow
  <2>3. r = [row[t] EXCEPT !.status = "running", !.lease = row[t].lease + 1,
                             !.delivery = "none", !.holder = p]
    BY DEF Cleared
  <2>4. row[t].lease + 1 \in Nat BY <2>2 DEF Row
  <2> HIDE DEF r
  <2>5. r \in Row /\ r.status # "absent" BY <2>2, <2>3, <2>4 DEF Row, Status, Delivery
  <2> QED BY <2>1, <2>2, <2>5, RowWritten
<1>4. ASSUME NEW p \in Proc, Suspend(p) PROVE RowsAreKept
  <2> DEFINE t == task[p].turn
             r == [row[t] EXCEPT !.status = "waiting", !.ready = "no", !.holder = "none"]
  <2>1. Write(t, r) /\ task[p].pc = "driving" BY <1>4 DEF Suspend, Its, LeaseEnds
  <2>2. t \in Turn /\ row[t] \in Row BY <2>1, ItsRow
  <2>3. r \in Row /\ r.status # "absent" BY <2>2 DEF Row, Status
  <2> QED BY <2>1, <2>2, <2>3, RowWritten
<1>5. ASSUME NEW p \in Proc, NEW status \in {"continuable", "done"}, task[p].pc # "idle",
             LET r == [Its(p) EXCEPT !.status = status, !.holder = "none"]
             IN  \/ Write(task[p].turn, r)
                 \/ Write(task[p].turn, [r EXCEPT !.delivery = "undeliverable"])
      PROVE  RowsAreKept
  <2> DEFINE t == task[p].turn
             r == [row[t] EXCEPT !.status = status, !.holder = "none"]
             u == [r EXCEPT !.delivery = "undeliverable"]
  <2>1. Write(t, r) \/ Write(t, u) BY <1>5 DEF Its
  <2>2. t \in Turn /\ row[t] \in Row BY <1>5, ItsRow
  <2>3. r \in Row /\ r.status # "absent" BY <2>2 DEF Row, Status
  <2>4. u \in Row /\ u.status # "absent" BY <2>3 DEF Row, Delivery
  <2> QED BY <2>1, <2>2, <2>3, <2>4, RowWritten
<1>6. ASSUME NEW p \in Proc, Yield(p) PROVE RowsAreKept
  BY <1>5, <1>6 DEF Yield, Tells, LeaseEnds
<1>7. ASSUME NEW p \in Proc, FinishTurn(p) PROVE RowsAreKept
  BY <1>5, <1>7 DEF FinishTurn, Tells, LeaseEnds
<1>8. ASSUME NEW p \in Proc, Note(p) PROVE RowsAreKept
  <2> DEFINE t == task[p].turn
             r == [row[t] EXCEPT !.delivery = IF task[p].arrived THEN "sent" ELSE "failed"]
  <2>1. Write(t, r) /\ task[p].pc = "noting" BY <1>8 DEF Note, Its
  <2>2. t \in Turn /\ row[t] \in Row /\ row[t].status # "absent" BY <2>1, ItsRow
  <2>3. r \in Row /\ r.status # "absent" BY <2>2 DEF Row, Delivery
  <2> QED BY <2>1, <2>2, <2>3, RowWritten
<1>9. ASSUME NEW p \in Proc,
             \/ RefuseGrant(p) \/ RefuseClaim(p) \/ Fail(p)
             \/ \E ok \in BOOLEAN : Send(p, ok)
             \/ OthersAsk(p)
      PROVE  RowsAreKept
  BY <1>9, RowsUnchanged DEF RefuseGrant, RefuseClaim, Fail, Send, Deferred, OthersAsk
<1>10. ASSUME NEW t \in Turn, Refusal(t) PROVE RowsAreKept
  BY <1>10, RowsUnchanged DEF Refusal
<1>11. ASSUME NEW t \in Turn, Enqueue(t) PROVE RowsAreKept
  <2> DEFINE r == [NoRow EXCEPT !.status = "runnable",
                     !.delivery = IF t \in Addressed THEN "pending" ELSE "none"]
  <2>1. Write(t, r) BY <1>11 DEF Enqueue
  <2>2. r \in Row /\ r.status # "absent" BY DEF NoRow, Row, Status, Delivery
  <2> QED BY <2>1, <2>2, RowWritten
<1>12. ASSUME NEW t \in Turn, NEW how \in {"event", "deadline"}, Ready(t, how) PROVE RowsAreKept
  <2>1. row' = [row EXCEPT ![t].ready = how] /\ older' = older BY <1>12 DEF Ready
  <2>2. row' \in [Turn -> Row] BY <2>1 DEF TLTypeOK, Row
  <2>3. \A u \in Turn : row'[u].status = row[u].status /\ row'[u].holder = row[u].holder
    BY <2>1 DEF TLTypeOK, Row
  <2>4. Rows' = Rows BY <2>3 DEF Rows
  <2> QED BY <2>1, <2>2, <2>3, <2>4 DEF RowsAreKept, TLTypeOK, Visible, OnlyRowsAreHeld, Orders
<1>13. ASSUME NEW p \in Proc, Restart(p) PROVE RowsAreKept
  <2> DEFINE Freed == {t \in Turn : row[t].holder = p}
  <2>1. row' = [t \in Turn |->
           IF t \in Freed THEN [row[t] EXCEPT !.status = "runnable", !.holder = "none"]
           ELSE row[t]] /\ older' = Later(Freed)
    BY <1>13 DEF Restart
  <2>2. Freed \subseteq Rows BY NullIsNoProc DEF Visible, OnlyRowsAreHeld
  <2>3. row' \in [Turn -> Row] BY <2>1 DEF TLTypeOK, Row, Status
  <2>4. ASSUME NEW t \in Turn
        PROVE  /\ row'[t].status = "absent" <=> row[t].status = "absent"
               /\ row'[t].holder \in {row[t].holder, "none"}
    BY <2>1, <2>2 DEF TLTypeOK, Row, Rows
  <2> QED BY <2>1, <2>2, <2>3, <2>4, RowsRewritten
<1> QED
  BY <1>1, <1>2, <1>3, <1>4, <1>6, <1>7, <1>8, <1>9, <1>10, <1>11, <1>12, <1>13
  DEF TLNext, Run

\* What a step does to the tasks: at most one changes, and works on a row.
TasksAreKept ==
  \/ task' = task
  \/ \E p \in Proc, x \in Task :
       /\ task' = [task EXCEPT ![p] = x]
       /\ x.pc = "idle" \/ x.turn \in Rows

LEMMA TasksStep ==
  ASSUME TLInv, TLNext
  PROVE  TasksAreKept
<1> USE DEF TLInv
<1>0. task \in [Proc -> Task] BY DEF TLTypeOK
<1>1. NoTask \in Task /\ NoTask.pc = "idle" BY DEF NoTask, Task
<1>2. ASSUME NEW p \in Proc, Over(p) PROVE TasksAreKept
  BY <1>1, <1>2 DEF Over, TasksAreKept
<1>3. ASSUME NEW p \in Proc, task[p].pc # "idle", NEW x \in Task, x.turn = task[p].turn,
             task' = [task EXCEPT ![p] = x]
      PROVE  TasksAreKept
  BY <1>3 DEF TasksAreKept, Visible, TasksHaveRows
<1>4. ASSUME NEW p \in Proc, Beat(p) PROVE TasksAreKept
  <2>1. CASE UNCHANGED <<token, task>> BY <2>1 DEF TasksAreKept
  <2>2. CASE ~UNCHANGED <<token, task>>
    <3>1. PICK t \in DueNow :
            task' = [task EXCEPT ![p] = [NoTask EXCEPT
              !.pc = "asked", !.turn = t, !.renews = SweptRow[t].status = "continuable"]]
      BY <1>4, <2>2 DEF Beat
    <3> DEFINE x == [NoTask EXCEPT !.pc = "asked", !.turn = t,
                       !.renews = SweptRow[t].status = "continuable"]
    <3>2. t \in Rows /\ t \in Turn BY <3>1, Swept DEF Rows
    <3>3. (SweptRow[t].status = "continuable") \in BOOLEAN OBVIOUS
    <3>4. x \in Task /\ x.turn = t BY <3>2, <3>3, <1>1 DEF NoTask, Task
    <3> HIDE DEF x
    <3> QED BY <3>1, <3>2, <3>4 DEF TasksAreKept, x
  <2> QED BY <2>1, <2>2
<1>5. ASSUME NEW p \in Proc, task[p].pc = "asked", task' = [task EXCEPT ![p].pc = "driving"]
      PROVE  TasksAreKept
  <2> DEFINE x == [task[p] EXCEPT !.pc = "driving"]
  <2>1. x \in Task /\ x.turn = task[p].turn /\ task' = [task EXCEPT ![p] = x]
    BY <1>0, <1>5 DEF Task
  <2> QED BY <1>3, <1>5, <2>1
<1>6. ASSUME NEW p \in Proc, NEW text \in {"answer", "other"}, task[p].pc # "idle", Says(p, text)
      PROVE  TasksAreKept
  <2> DEFINE x == [task[p] EXCEPT !.pc = "saying", !.text = text]
  <2>1. x \in Task /\ x.turn = task[p].turn /\ task' = [task EXCEPT ![p] = x]
    BY <1>0, <1>6 DEF Task, Says
  <2> QED BY <1>3, <1>6, <2>1
<1>7. ASSUME NEW p \in Proc, NEW ok \in BOOLEAN, Send(p, ok) PROVE TasksAreKept
  <2> DEFINE x == [task[p] EXCEPT !.pc = "noting", !.arrived = ok]
  <2>1. x \in Task /\ x.turn = task[p].turn /\ task' = [task EXCEPT ![p] = x]
    BY <1>0, <1>7 DEF Task, Send
  <2> QED BY <1>3, <1>7, <2>1 DEF Send
<1>8. ASSUME NEW p \in Proc, Run(p) PROVE TasksAreKept
  BY <1>2, <1>5, <1>6, <1>7, <1>8
  DEF Run, Claim, Grant, RefuseGrant, RefuseClaim, Suspend, Fail, Yield, FinishTurn, Note,
      Tells, LeaseEnds
<1>9. ASSUME NEW p \in Proc, OthersAsk(p) \/ Restart(p) PROVE TasksAreKept
  BY <1>2, <1>9 DEF OthersAsk, Restart, TasksAreKept
<1>10. ASSUME NEW t \in Turn,
              \/ Enqueue(t) \/ Refusal(t)
              \/ \E how \in {"event", "deadline"} : Ready(t, how)
       PROVE  TasksAreKept
  BY <1>10 DEF Enqueue, Refusal, Ready, TasksAreKept
<1> QED BY <1>4, <1>8, <1>9, <1>10 DEF TLNext

\* What a step does to the history: an answer or a telling is entered as it is
\* sent, a lease that begins has been told nothing unless a note is still to
\* come, and a run that fails is entered and taken out.
LEMMA HistoryStep ==
  ASSUME TLInv, TLNext
  PROVE  /\ hist' \in History
         /\ \A t \in Turn \ (hist'.answered \cup hist'.told) :
              t \in hist.answered \cup hist.told =>
                ~Noting(t) /\ \E p \in Proc : Grant(p) /\ task[p].turn = t
<1> USE DEF TLInv
<1>0. hist \in History BY DEF TLTypeOK
<1>1. ASSUME NEW p \in Proc, Grant(p)
      PROVE  /\ hist' \in History
             /\ \A t \in Turn \ (hist'.answered \cup hist'.told) :
                  t \in hist.answered \cup hist.told => ~Noting(t) /\ task[p].turn = t
  <2>1. hist' = IF Noting(task[p].turn) THEN hist
                ELSE [hist EXCEPT !.told = @ \ {task[p].turn}]
    BY <1>1 DEF Grant
  <2>2. CASE Noting(task[p].turn) BY <1>0, <2>1, <2>2
  <2>3. CASE ~Noting(task[p].turn)
    <3>1. hist' = [hist EXCEPT !.told = @ \ {task[p].turn}] BY <2>1, <2>3
    <3>2. hist' \in History BY <1>0, <3>1 DEF History
    <3>3. hist'.answered = hist.answered /\ hist'.told = hist.told \ {task[p].turn}
      BY <1>0, <3>1 DEF History
    <3> QED BY <2>3, <3>2, <3>3
  <2> QED BY <2>2, <2>3
<1>2. ASSUME NEW p \in Proc, NEW ok \in BOOLEAN, Send(p, ok)
      PROVE  /\ hist' \in History
             /\ hist.answered \cup hist.told \subseteq hist'.answered \cup hist'.told
  <2>1. task[p].turn \in Turn BY <1>2, ItsRow DEF Send
  <2> QED BY <1>0, <1>2, <2>1 DEF Send, History
<1>3. ASSUME NEW p \in Proc, Fail(p)
      PROVE  /\ hist' \in History
             /\ hist.answered \cup hist.told \subseteq hist'.answered \cup hist'.told
  <2>1. task[p].turn \in Turn BY <1>3, ItsRow DEF Fail, LeaseEnds
  <2> QED BY <1>0, <1>3, <2>1 DEF Fail, History
<1>4. ASSUME NEW p \in Proc, Restart(p)
      PROVE  /\ hist' \in History
             /\ hist.answered \cup hist.told \subseteq hist'.answered \cup hist'.told
  <2>1. hist' = [hist EXCEPT !.failed = @ \ {t \in Turn : row[t].holder = p}]
    BY <1>4 DEF Restart
  <2> QED BY <1>0, <2>1 DEF History
<1>5. ASSUME hist' = hist
      PROVE  /\ hist' \in History
             /\ hist.answered \cup hist.told \subseteq hist'.answered \cup hist'.told
  BY <1>0, <1>5
<1>6. ASSUME NEW p \in Proc,
             \/ Beat(p) \/ Claim(p) \/ RefuseGrant(p) \/ RefuseClaim(p) \/ Suspend(p)
             \/ Yield(p) \/ FinishTurn(p) \/ Note(p) \/ OthersAsk(p)
      PROVE  hist' = hist
  BY <1>6 DEF Beat, Claim, RefuseGrant, RefuseClaim, Suspend, Yield, FinishTurn, Note, OthersAsk
<1>7. ASSUME NEW t \in Turn,
             \/ Enqueue(t) \/ Refusal(t)
             \/ \E how \in {"event", "deadline"} : Ready(t, how)
      PROVE  hist' = hist
  BY <1>7 DEF Enqueue, Refusal, Ready
<1> QED BY <1>1, <1>2, <1>3, <1>4, <1>5, <1>6, <1>7 DEF TLNext, Run

\* The token and what is counted keep their types.
LEMMA OthersStep ==
  ASSUME TLInv, TLNext
  PROVE  /\ token' \in [Proc -> {"none", "lane", "other"}]
         /\ refusing' \in SUBSET Turn
         /\ restarts' \in 0 .. MaxRestart
<1> USE DEF TLInv, TLTypeOK
<1>1. ASSUME NEW p \in Proc, Beat(p) PROVE token' \in [Proc -> {"none", "lane", "other"}]
  BY <1>1 DEF Beat
<1>2. ASSUME NEW p \in Proc, Run(p) PROVE token' \in [Proc -> {"none", "lane", "other"}]
  BY <1>2 DEF Run, Claim, Grant, RefuseGrant, RefuseClaim, Suspend, Fail, Yield, FinishTurn,
     Send, Note, Tells, Over, Says
<1>3. ASSUME NEW p \in Proc, Run(p) PROVE UNCHANGED <<refusing, restarts>>
  BY <1>3 DEF Run, Claim, Grant, RefuseGrant, RefuseClaim, Suspend, Fail, Yield, FinishTurn,
     Send, Note, World
<1>4. ASSUME NEW p \in Proc, Restart(p)
      PROVE  /\ token' \in [Proc -> {"none", "lane", "other"}]
             /\ refusing' = refusing /\ restarts' \in 0 .. MaxRestart
  <2>1. /\ restarts < MaxRestart /\ restarts' = restarts + 1
        /\ token' = [token EXCEPT ![p] = "none"] /\ refusing' = refusing
    BY <1>4 DEF Restart, Over
  <2>2. restarts' \in 0 .. MaxRestart BY <2>1, Limits
  <2> QED BY <2>1, <2>2
<1>5. ASSUME NEW p \in Proc, OthersAsk(p) \/ Beat(p)
      PROVE  UNCHANGED <<refusing, restarts>>
  BY <1>5 DEF OthersAsk, Beat, World
<1>6. ASSUME NEW p \in Proc, OthersAsk(p) PROVE token' \in [Proc -> {"none", "lane", "other"}]
  BY <1>6 DEF OthersAsk
<1>7. ASSUME NEW t \in Turn,
             \/ Enqueue(t)
             \/ \E how \in {"event", "deadline"} : Ready(t, how)
      PROVE  UNCHANGED <<token, refusing, restarts>>
  BY <1>7 DEF Enqueue, Ready, World
<1>8. ASSUME NEW t \in Turn, Refusal(t)
      PROVE  UNCHANGED <<token, restarts>> /\ refusing' \in SUBSET Turn
  BY <1>8 DEF Refusal
<1> QED BY <1>1, <1>2, <1>3, <1>4, <1>5, <1>6, <1>7, <1>8 DEF TLNext

\* Only a send is followed by a note.
LEMMA OnlySendsAreNoted ==
  ASSUME TLInv, TLNext, NEW p \in Proc, task'[p] # task[p], task'[p].pc = "noting"
  PROVE  \E ok \in BOOLEAN : Send(p, ok)
<1>0. task \in [Proc -> Task] BY DEF TLInv, TLTypeOK
<1>1. NoTask.pc = "idle" BY DEF NoTask
<1>2. ASSUME NEW q \in Proc, Over(q) PROVE FALSE
  BY <1>0, <1>1, <1>2 DEF Over
<1>3. ASSUME NEW q \in Proc, NEW text, Says(q, text) PROVE FALSE
  BY <1>0, <1>3 DEF Says, Task
<1>4. ASSUME NEW q \in Proc, task' = [task EXCEPT ![q].pc = "driving"] PROVE FALSE
  BY <1>0, <1>4 DEF Task
<1>5. ASSUME NEW q \in Proc, Beat(q) PROVE FALSE
  <2>1. PICK t \in DueNow :
          task' = [task EXCEPT ![q] = [NoTask EXCEPT
            !.pc = "asked", !.turn = t, !.renews = SweptRow[t].status = "continuable"]]
    BY <1>5 DEF Beat
  <2>2. task'[p].pc = "asked" BY <1>0, <2>1 DEF NoTask
  <2> QED BY <2>2
<1>6. ASSUME NEW q \in Proc, Run(q) PROVE \E ok \in BOOLEAN : Send(p, ok)
  <2>1. CASE \E ok \in BOOLEAN : Send(q, ok)
    <3>1. q = p BY <1>0, <2>1 DEF Send
    <3> QED BY <2>1, <3>1
  <2>2. CASE ~\E ok \in BOOLEAN : Send(q, ok)
    BY <1>2, <1>3, <1>4, <1>6, <2>2
    DEF Run, Claim, Grant, RefuseGrant, RefuseClaim, Suspend, Fail, Yield, FinishTurn, Note, Tells
  <2> QED BY <2>1, <2>2
<1>7. ASSUME NEW q \in Proc, Restart(q) PROVE FALSE BY <1>2, <1>7 DEF Restart
<1> QED BY <1>5, <1>6, <1>7 DEF TLNext, OthersAsk, Enqueue, Refusal, Ready

\* A note says of a sending what the send found.
LEMMA NotesStep ==
  ASSUME TLInv, TLNext
  PROVE  NotesAreTrue'
<1> SUFFICES ASSUME NEW p \in Proc, task'[p].pc = "noting", task'[p].arrived
             PROVE  task'[p].turn \in hist'.answered \cup hist'.told
  BY DEF NotesAreTrue
<1>1. CASE task'[p] = task[p]
  <2>1. task[p].turn \in hist.answered \cup hist.told
    BY <1>1 DEF TLInv, Visible, NotesAreTrue
  <2>2. Noting(task[p].turn) BY <1>1 DEF Noting
  <2>3. task[p].turn \in Turn BY <1>1, ItsRow
  <2> QED BY <1>1, <2>1, <2>2, <2>3, HistoryStep
<1>2. CASE task'[p] # task[p]
  <2>1. PICK ok \in BOOLEAN : Send(p, ok) BY <1>2, OnlySendsAreNoted
  <2>2. task \in [Proc -> Task] /\ hist \in History BY DEF TLInv, TLTypeOK
  <2>3. task'[p].turn = task[p].turn /\ ok BY <2>1, <2>2 DEF Send, Task
  <2> QED BY <2>1, <2>2, <2>3 DEF Send, History
<1> QED BY <1>1, <1>2

\* A row comes to say that it was sent by the note of a lane only.
LEMMA OnlyNotesSaySent ==
  ASSUME TLInv, TLNext, NEW t \in Turn, row'[t].delivery = "sent"
  PROVE  \/ row[t].delivery = "sent" /\ ~\E p \in Proc : Grant(p) /\ task[p].turn = t
         \/ \E p \in Proc : Note(p) /\ task[p].turn = t /\ task[p].arrived
<1>0. row \in [Turn -> Row] BY DEF TLInv, TLTypeOK
<1>1. ASSUME NEW p \in Proc, Grant(p), task[p].turn = t PROVE FALSE
  BY <1>0, <1>1 DEF Grant, Write, Cleared, Row
<1>2. ASSUME row'[t].delivery # row[t].delivery
      PROVE  \E p \in Proc : Note(p) /\ task[p].turn = t /\ task[p].arrived
  <2>1. ASSUME NEW p \in Proc, Beat(p) PROVE FALSE
    <3>1. row'[t] = row[t] \/ row'[t] = [row[t] EXCEPT !.status = "runnable"]
      BY <2>1, Swept DEF Beat
    <3> QED BY <1>0, <1>2, <3>1 DEF Row
  <2>2. ASSUME NEW p \in Proc, Claim(p) PROVE FALSE
    BY <1>0, <1>2, <2>2 DEF Claim, Write, Row
  <2>3. ASSUME NEW p \in Proc, Grant(p) PROVE FALSE
    <3>1. task[p].turn # t BY <1>1, <2>3
    <3> QED BY <1>0, <1>2, <2>3, <3>1 DEF Grant, Write, Row
  <2>4. ASSUME NEW p \in Proc, Suspend(p) PROVE FALSE
    BY <1>0, <1>2, <2>4 DEF Suspend, Its, Write, Row
  <2>5. ASSUME NEW p \in Proc, NEW status \in {"continuable", "done"},
               LET r == [Its(p) EXCEPT !.status = status, !.holder = "none"]
               IN  \/ Write(task[p].turn, r)
                   \/ Write(task[p].turn, [r EXCEPT !.delivery = "undeliverable"])
        PROVE  FALSE
    <3> DEFINE u == task[p].turn
               r == [row[u] EXCEPT !.status = status, !.holder = "none"]
    <3>1. row' = [row EXCEPT ![u] = r] \/ row' = [row EXCEPT ![u] = [r EXCEPT !.delivery = "undeliverable"]]
      BY <2>5 DEF Its, Write
    <3>2. u = t BY <1>0, <1>2, <3>1
    <3>3. r.delivery = row[t].delivery BY <1>0, <3>2 DEF Row
    <3>4. row'[t] = r \/ row'[t] = [r EXCEPT !.delivery = "undeliverable"]
      BY <1>0, <3>1, <3>2
    <3>5. row'[t].delivery \in {row[t].delivery, "undeliverable"}
      <4>1. [r EXCEPT !.delivery = "undeliverable"].delivery = "undeliverable" BY <1>0, <3>2 DEF Row
      <4> QED BY <3>3, <3>4, <4>1
    <3> QED BY <1>2, <3>5
  <2>6. ASSUME NEW p \in Proc, Yield(p) \/ FinishTurn(p) PROVE FALSE
    BY <2>5, <2>6 DEF Yield, FinishTurn, Tells
  <2>7. ASSUME NEW p \in Proc, Note(p)
        PROVE  task[p].turn = t /\ task[p].arrived
    BY <1>0, <1>2, <2>7 DEF Note, Its, Write, Row
  <2>8. ASSUME NEW u \in Turn, Enqueue(u) PROVE FALSE
    BY <1>0, <1>2, <2>8 DEF Enqueue, Write, NoRow, Row
  <2>9. ASSUME NEW u \in Turn, NEW how \in {"event", "deadline"}, Ready(u, how) PROVE FALSE
    BY <1>0, <1>2, <2>9 DEF Ready, Row
  <2>10. ASSUME NEW p \in Proc, Restart(p) PROVE FALSE
    BY <1>0, <1>2, <2>10 DEF Restart, Row
  <2>11. ASSUME row' = row PROVE FALSE BY <1>2, <2>11
  <2>12. ASSUME NEW p \in Proc,
                \/ RefuseGrant(p) \/ RefuseClaim(p) \/ Fail(p) \/ OthersAsk(p)
                \/ \E ok \in BOOLEAN : Send(p, ok)
         PROVE  row' = row
    BY <2>12 DEF RefuseGrant, RefuseClaim, Fail, OthersAsk, Send, Deferred
  <2>13. ASSUME NEW u \in Turn, Refusal(u) PROVE row' = row BY <2>13 DEF Refusal
  <2> QED
    BY <2>1, <2>2, <2>3, <2>4, <2>6, <2>7, <2>8, <2>9, <2>10, <2>11, <2>12, <2>13 DEF TLNext, Run
<1> QED BY <1>1, <1>2

LEMMA VisibleStep ==
  ASSUME TLInv, TLNext
  PROVE  UnsentIsVisible'
<1> SUFFICES ASSUME NEW t \in Turn, row'[t].delivery = "sent"
             PROVE  t \in hist'.answered \cup hist'.told
  BY DEF UnsentIsVisible
<1>1. CASE row[t].delivery = "sent" /\ ~\E p \in Proc : Grant(p) /\ task[p].turn = t
  <2>1. t \in hist.answered \cup hist.told BY <1>1 DEF TLInv, Visible, UnsentIsVisible
  <2> QED BY <1>1, <2>1, HistoryStep
<1>2. ASSUME NEW p \in Proc, Note(p), task[p].turn = t, task[p].arrived
      PROVE  t \in hist'.answered \cup hist'.told
  BY <1>2 DEF TLInv, Visible, NotesAreTrue, Note
<1> QED BY <1>1, <1>2, OnlyNotesSaySent

LEMMA TLInvStep ==
  ASSUME TLInv, [TLNext]_TLvars
  PROVE  TLInv'
<1>1. CASE TLNext
  <2>1. RowsAreKept BY <1>1, RowsStep
  <2>2. TasksAreKept BY <1>1, TasksStep
  <2>3. task' \in [Proc -> Task] BY <2>2 DEF TasksAreKept, TLInv, TLTypeOK
  <2>4. TasksHaveRows'
    BY <2>1, <2>2 DEF TasksAreKept, RowsAreKept, TLInv, TLTypeOK, Visible, TasksHaveRows
  <2>5. TLTypeOK' BY <1>1, <2>1, <2>3, HistoryStep, OthersStep DEF RowsAreKept, TLTypeOK
  <2>6. Visible' BY <1>1, <2>1, <2>4, NotesStep, VisibleStep DEF RowsAreKept, Visible
  <2> QED BY <2>5, <2>6 DEF TLInv
<1>2. CASE UNCHANGED TLvars
  BY <1>2
  DEF TLvars, TLInv, TLTypeOK, Visible, TasksHaveRows, OnlyRowsAreHeld, NotesAreTrue,
      UnsentIsVisible, Rows, Orders
<1> QED BY <1>1, <1>2

LEMMA TLInvInit == TLInit => TLInv
<1> SUFFICES ASSUME TLInit PROVE TLInv OBVIOUS
<1>1. NoRow \in Row /\ NoRow.status = "absent" /\ NoRow.holder = "none" /\ NoRow.delivery = "none"
  BY DEF NoRow, Row, Status, Delivery
<1>2. NoTask \in Task /\ NoTask.pc = "idle" BY DEF NoTask, Task
<1>3. row \in [Turn -> Row] /\ Rows = {} /\ \A t \in Turn : row[t] = NoRow
  BY <1>1 DEF TLInit, Rows
<1>4. Orders(older, Rows) BY <1>3 DEF TLInit, Orders
<1>5. TLTypeOK BY <1>2, <1>3, <1>4, Limits DEF TLInit, TLTypeOK, History
<1>6. Visible
  BY <1>1, <1>2, <1>3
  DEF TLInit, Visible, TasksHaveRows, OnlyRowsAreHeld, NotesAreTrue, UnsentIsVisible
<1> QED BY <1>5, <1>6 DEF TLInv

LEMMA TLInvIsInvariant == TLSpec => []TLInv
<1> QED BY TLInvInit, TLInvStep, PTL DEF TLSpec

\* The rows of the lane's queue are always in one strict order, whatever is
\* written and by whom, and every other variable has its type.
THEOREM LaneTypeCorrect == TLSpec => []TLTypeOK
<1>1. TLInv => TLTypeOK BY DEF TLInv
<1> QED BY TLInvIsInvariant, <1>1, PTL

\* With any number of processes and turns, through restarts, late notes and
\* renewed leases, a turn whose answer never reached its address is not recorded
\* as sent (unless the address was told something of it): TurnLane.tick and
\* sendAndRecord (agent/turn-lane.ts).
THEOREM UnsentIsVisibleCorrect == TLSpec => []UnsentIsVisible
<1>1. TLInv => UnsentIsVisible BY DEF TLInv, Visible
<1> QED BY TLInvIsInvariant, <1>1, PTL
=============================================================================
