---------------------------- MODULE Inbox_proofs ----------------------------
(***************************************************************************)
(* What Inbox promises, for every number of updates, leases, crashes and   *)
(* refusals and every page of the inbox: no update is lost, an answer is   *)
(* sent once, and what is closed was read and answered.                    *)
(*                                                                         *)
(* The invariant has four parts. Agrees: the list of the drain, the update *)
(* it has in hand, the turns it and the lane hold and the rows of the      *)
(* inbox say the same of each other. Held: the offset and the bodies.      *)
(* Plans: what the parts of delivery say of what was accepted, and who is  *)
(* sending has claimed its part. Answering: what the drain still has to    *)
(* write is true of the turn in hand, and what is settled was answered.    *)
(*                                                                         *)
(* Each step is first reduced to what it moves (HandMoves, LaneMoves,      *)
(* RowMoves, PartMoves, TurnMoves); the parts are proved from those.       *)
(***************************************************************************)
EXTENDS Inbox, SequenceTheorems, TLAPS

----------------------------------------------------------------------------
(* Records and what is done to them.                                       *)

LEMMA NoneIsNoUpdate == None \notin Update
BY Bounds DEF None, Update

\* The record of the drain, and what the steps make of it.
LEMMA DrainFields ==
  ASSUME drain \in Drain
  PROVE  /\ drain.pc \in {"off", "next", "serving", "bound", "running", "refused", "made", "sending"}
         /\ drain.list \subseteq [id : Update, work : Update \cup {None}, settled : BOOLEAN]
         /\ drain.again \in BOOLEAN
         /\ drain.at \in Update \cup {None} /\ drain.work \in Update \cup {None}
         /\ drain.on \in Update \cup {None} /\ drain.todo \in Seq(Statement)
BY DEF Drain

LEMMA RestType ==
  ASSUME drain \in Drain, NEW e
  PROVE  LET d == RestOf(e)
         IN  /\ d \in Drain
             /\ d.pc = drain.pc /\ d.list = drain.list \ {e} /\ d.todo = drain.todo
             /\ d.at = None /\ d.work = None /\ d.on = None
<1>1. RestOf(e) \in Drain BY DrainFields DEF RestOf, Drain
<1> QED BY <1>1 DEF RestOf, Drain

LEMMA LetGoType ==
  ASSUME drain \in Drain, NEW todo \in Seq(Statement)
  PROVE  LET d == LetGo(todo)
         IN  /\ d \in Drain
             /\ d.pc = "next" /\ d.list = drain.list /\ d.todo = todo
             /\ d.at = drain.at /\ d.work = drain.work /\ d.on = drain.on
<1>1. LetGo(todo) \in Drain BY DrainFields DEF LetGo, Drain
<1> QED BY <1>1 DEF LetGo, Drain

LEMMA NoDrainType ==
  /\ NoDrain \in Drain
  /\ NoDrain.pc = "off" /\ NoDrain.list = {} /\ NoDrain.at = None /\ NoDrain.todo = <<>>
BY DEF NoDrain, Drain, Statement

\* What a drain begins with is what the rows say.
LEMMA DrainedType ==
  ASSUME NEW rows \in [Update -> Row]
  PROVE  /\ Drained(rows) \in Drain
         /\ Drained(rows).pc = "next" /\ Drained(rows).list = Listed(rows)
         /\ Drained(rows).at = None /\ Drained(rows).todo = <<>>
         /\ \A e \in Listed(rows) :
              /\ e.id \in Update /\ e.work = rows[e.id].work /\ e.settled = rows[e.id].settled
              /\ ~rows[e.id].processed
         /\ \A e, f \in Listed(rows) : e.id = f.id => e = f
<1>2. Page(rows) \subseteq Pending(rows) BY DEF Page
<1>3. ASSUME NEW u \in Page(rows)
      PROVE  /\ u \in Update /\ ~rows[u].processed
             /\ rows[u].work \in Update \cup {None} /\ rows[u].settled \in BOOLEAN
  BY <1>2, <1>3 DEF Pending, Row
<1>4. Listed(rows) \subseteq [id : Update, work : Update \cup {None}, settled : BOOLEAN]
  BY <1>3 DEF Listed
<1>5. \A e \in Listed(rows) :
        /\ e.id \in Update /\ e.work = rows[e.id].work /\ e.settled = rows[e.id].settled
        /\ ~rows[e.id].processed
  BY <1>3 DEF Listed
<1>6. Drained(rows) \in Drain BY <1>4, NoDrainType DEF Drained, Drain
<1>7. /\ Drained(rows).pc = "next" /\ Drained(rows).list = Listed(rows)
      /\ Drained(rows).at = None /\ Drained(rows).todo = <<>>
  BY NoDrainType DEF Drained, Drain
<1>8. ASSUME NEW e \in Listed(rows), NEW f \in Listed(rows), e.id = f.id PROVE e = f
  <2>1. PICK u \in Page(rows) : e = [id |-> u, work |-> rows[u].work, settled |-> rows[u].settled]
    BY DEF Listed
  <2>2. PICK v \in Page(rows) : f = [id |-> v, work |-> rows[v].work, settled |-> rows[v].settled]
    BY DEF Listed
  <2>3. e.id = u /\ f.id = v BY <2>1, <2>2
  <2> QED BY <1>8, <2>1, <2>2, <2>3
<1> QED BY <1>5, <1>6, <1>7, <1>8

LEMMA ScheduledType ==
  ASSUME drain \in Drain, NEW rows \in [Update -> Row]
  PROVE  Scheduled(rows) \in Drain
<1>1. [drain EXCEPT !.again = TRUE] \in Drain BY DrainFields DEF Drain
<1> QED BY <1>1, DrainedType DEF Scheduled

\* What follows an outcome.
LEMMA ThenType ==
  ASSUME NEW outcome
  PROVE  /\ Then(outcome) \in {<<"settle", "sent", "mark", "scrub">>,
                               <<"settle", "mark", "scrub", "possibly">>, <<"failed">>, <<>>}
         /\ Then(outcome) \in Seq(Statement)
         /\ LaneThen(outcome) \in Seq(Delivery)
<1>1. Then(outcome) \in {<<"settle", "sent", "mark", "scrub">>,
                          <<"settle", "mark", "scrub", "possibly">>, <<"failed">>, <<>>}
  BY DEF Then
<1>2. LaneThen(outcome) \in {<<"sent">>, <<"possibly">>, <<"failed">>} BY DEF LaneThen
<1>3. /\ <<"settle", "sent", "mark", "scrub">> \in Seq(Statement)
      /\ <<"settle", "mark", "scrub", "possibly">> \in Seq(Statement)
      /\ <<"failed">> \in Seq(Statement) /\ <<>> \in Seq(Statement)
  BY DEF Statement, Delivery
<1>4. <<"sent">> \in Seq(Delivery) /\ <<"possibly">> \in Seq(Delivery) /\ <<"failed">> \in Seq(Delivery)
  BY DEF Delivery
<1> QED BY <1>1, <1>2, <1>3, <1>4

LEMMA FinishType ==
  /\ Finish \in Seq(Statement) /\ <<>> \in Seq(Statement)
  /\ \A first \in Delivery : FinishAfter(first) \in Seq(Statement)
BY DEF Finish, FinishAfter, Statement, Delivery

----------------------------------------------------------------------------
(* Who holds what.                                                         *)

AtWork == {"bound", "running", "refused", "made", "sending"}

\* The drain has an update in hand, whose row is bound to a turn.
InHand == drain.pc \in AtWork \/ drain.todo # <<>>

Started(t) == turn[t].status # "none"

\* The turn of an event has begun, or another was resumed in its place.
Begun(u, t) == Started(t) \/ (kind[u] = "resumption" /\ t \in astray)

\* The list of a drain says of its rows what they say, and does not hold the
\* one in hand.
ListAgrees ==
  /\ \A e, f \in drain.list : e.id = f.id => e = f
  /\ \A e \in drain.list :
       /\ e.work = row[e.id].work /\ e.id # drain.at
       /\ e.id \in Words => e.settled = row[e.id].settled /\ ~row[e.id].processed

HandAgrees ==
  /\ InHand => drain.at \in Words /\ drain.work \in Update /\ row[drain.at].work = drain.work
  /\ drain.pc \in AtWork => drain.todo = <<>> /\ ~row[drain.at].processed
  /\ drain.pc = "serving" => drain.todo = <<>> /\ drain.at \in Update \ Words
  /\ drain.pc = "off" => drain.todo = <<>>
  /\ drain.pc \in {"running", "refused", "made", "sending"} => drain.on \in Update
  /\ drain.pc = "running" => Started(drain.on)
  /\ drain.todo # <<>> \/ drain.pc \in {"running", "refused", "made", "sending"} => Begun(drain.at, drain.work)

\* A turn is resumed in the place of another only where both are astray.
Strays ==
  drain.pc \in {"running", "refused", "made", "sending"} /\ drain.on # drain.work =>
    {drain.on, drain.work} \subseteq astray

CommandsAgree == \A u \in poller.queue : kind[u] = "control"

LaneAgrees ==
  /\ lane.pc # "idle" => lane.on \in Update /\ lane.todo = <<>> /\ Started(lane.on)
  /\ lane.pc # "idle" \/ lane.todo # <<>> => lane.on \in away

\* A row is bound to its own turn, or to one that has begun; a message that is
\* settled or closed has its turn.
RowsAgree ==
  \A u \in Update :
    /\ row[u].work # None => u \in Words
    /\ row[u].work \in Update =>
         row[u].work = u \/ (kind[u] = "resumption" /\ Started(row[u].work))
    /\ u \in Words /\ (row[u].settled \/ row[u].processed) =>
         row[u].work \in Update /\ Begun(u, row[u].work)

\* The words of a message have been read if its turn has begun.
WordsAreRead ==
  \A u \in Update : kind[u] = "text" => read[u] = IF Started(u) THEN 1 ELSE 0

Agrees == /\ ListAgrees /\ HandAgrees /\ Strays /\ CommandsAgree
          /\ LaneAgrees /\ RowsAgree /\ WordsAreRead

----------------------------------------------------------------------------
(* Types.                                                                  *)

\* The parts of TypeOK.
TypesOfRows == row \in [Update -> Row] /\ turn \in [Update -> Turn]
TypesOfParts == part \in [Update -> [Lease -> Part]] /\ wire \in [Update -> [Lease -> Nat]]
TypesOfSides == /\ kind \in [Update -> Kind] /\ paused \in BOOLEAN /\ poller \in Poller
                /\ gestiti \in SUBSET Update /\ lane \in Lane
TypesOfHistory == /\ read \in [Update -> Nat] /\ served \in [Update -> Nat] /\ away \in SUBSET Update
                  /\ astray \in SUBSET Update /\ presumed \in SUBSET Update
TypesOfBounds == /\ arrived \in 0 .. MaxUpdates /\ offset \in 1 .. MaxUpdates + 1
                 /\ left \in [crashes : 0 .. MaxCrashes, refusals : 0 .. MaxRefusals]

\* An update that is taken up is one.
LEMMA TakenUp ==
  ASSUME TypeOK, NEW e, TakesUp(e)
  PROVE  /\ e.id \in Update /\ e.work \in Update \cup {None} /\ e.settled \in BOOLEAN
         /\ e \in drain.list /\ drain.pc = "next" /\ drain.todo = <<>> /\ lane.todo = <<>>
BY DrainFields DEF TakesUp, Yielded, TypeOK

LEMMA TypesOfDrain ==
  ASSUME TypeOK, Next
  PROVE  row' \in [Update -> Row] => drain' \in Drain
<1> SUFFICES ASSUME row' \in [Update -> Row] PROVE drain' \in Drain OBVIOUS
<1> USE DEF TypeOK
<1>1. CASE Send BY <1>1 DEF Send
<1>2. CASE Connect BY <1>2, ScheduledType DEF Connect
<1>3. CASE Poll BY <1>3 DEF Poll
<1>4. CASE PollDone BY <1>4, ScheduledType DEF PollDone
<1>5. ASSUME NEW u \in Update, ServeControl(u) PROVE drain' \in Drain BY <1>5 DEF ServeControl
<1>6. ASSUME NEW u \in Update, ControlDone(u) PROVE drain' \in Drain
  BY <1>6, DrainedType DEF ControlDone
<1>7. CASE DrainEnds BY <1>7, DrainedType, NoDrainType DEF DrainEnds
<1>8. ASSUME NEW e, Skips(e) \/ Refuse(e) PROVE drain' \in Drain
  BY <1>8, RestType DEF Skips, Refuse
<1>9. ASSUME NEW e, Serve(e) PROVE drain' \in Drain
  <2>1. e.id \in Update BY <1>9, TakenUp DEF Serve
  <2>2. drain' = [RestOf(e) EXCEPT !.pc = "serving", !.at = e.id] BY <1>9 DEF Serve
  <2> QED BY <2>1, <2>2, RestType DEF Drain
<1>10. CASE Served
  <2>1. drain' = LetGo(<<>>) BY <1>10 DEF Served
  <2> QED BY <2>1, LetGoType, FinishType
<1>11. ASSUME NEW e, Bind(e) PROVE drain' \in Drain
  <2>1. e.id \in Update BY <1>11, TakenUp DEF Bind
  <2>2. PICK target \in Targets(e.id) \cup Unnamed(e.id) :
          drain' = [RestOf(e) EXCEPT !.pc = "bound", !.at = e.id,
                      !.work = IF target = None THEN e.id ELSE target]
    BY <1>11 DEF Bind
  <2>3. target \in Update \cup {None} BY DEF Targets, Unnamed, Continuable
  <2> QED BY <2>1, <2>2, <2>3, RestType DEF Drain
<1>12. ASSUME NEW e, Recover(e) PROVE drain' \in Drain
  <2> DEFINE held == [RestOf(e) EXCEPT !.at = e.id, !.work = e.work]
  <2>1. e.id \in Update /\ e.work \in Update \cup {None} BY <1>12, TakenUp DEF Recover
  <2>2. held \in Drain BY <2>1, RestType DEF Drain
  <2>3. \/ drain' = RestOf(e)
        \/ drain' = [held EXCEPT !.pc = "bound"]
        \/ drain' = [held EXCEPT !.pc = "made", !.on = e.work]
        \/ drain' = [held EXCEPT !.todo = Repaired(e.work)]
        \/ drain' = [held EXCEPT !.todo = FinishAfter("undeliverable")]
    BY <1>12 DEF Recover
  <2>4. Repaired(e.work) \in Seq(Statement) BY FinishType DEF Repaired, Delivery
  <2>5. FinishAfter("undeliverable") \in Seq(Statement) BY FinishType DEF Delivery
  <2> HIDE DEF held
  <2>6. [held EXCEPT !.pc = "bound"] \in Drain BY <2>2 DEF Drain
  <2>7. [held EXCEPT !.pc = "made", !.on = e.work] \in Drain BY <2>1, <2>2 DEF Drain
  <2>8. \A todo \in Seq(Statement) : [held EXCEPT !.todo = todo] \in Drain BY <2>2 DEF Drain
  <2>9. [held EXCEPT !.todo = Repaired(e.work)] \in Drain BY <2>4, <2>8
  <2>10. [held EXCEPT !.todo = FinishAfter("undeliverable")] \in Drain BY <2>5, <2>8
  <2>11. RestOf(e) \in Drain BY RestType
  <2> QED BY <2>3, <2>6, <2>7, <2>9, <2>10, <2>11
<1>13. CASE Enqueue \/ Gone BY <1>13, LetGoType, FinishType, ThenType DEF Enqueue, Gone
<1>14. CASE Run \/ Asks \/ DeadRoute
  <2>1. PICK pc \in {"running", "made", "refused"} : drain' = [drain EXCEPT !.pc = pc, !.on = drain.work]
    BY <1>14 DEF Run, Asks, DeadRoute
  <2> QED BY <2>1, DrainFields DEF Drain
<1>15. CASE Resume
  <2>1. PICK t \in Targets(drain.at) \ {None} : drain' = [drain EXCEPT !.pc = "running", !.on = t]
    BY <1>15 DEF Resume
  <2>2. t \in Update BY DEF Targets, Unnamed, Continuable
  <2> QED BY <2>1, <2>2, DrainFields DEF Drain
<1>16. ASSUME NEW s \in Ending, RunEnds(s) PROVE drain' \in Drain
  <2>1. [drain EXCEPT !.pc = "made"] \in Drain BY DEF Drain
  <2> QED BY <1>16, <2>1, LetGoType, FinishType DEF RunEnds
<1>17. CASE DrainSends
  <2>1. [drain EXCEPT !.pc = "sending"] \in Drain BY DEF Drain
  <2> QED BY <1>17, <2>1, LetGoType, ThenType DEF DrainSends
<1>18. ASSUME NEW o \in Outcome, DrainHears(o) PROVE drain' \in Drain
  BY <1>18, LetGoType, ThenType DEF DrainHears
<1>19. CASE DrainWrites
  <2>1. drain.todo \in Seq(Statement) /\ drain.todo # <<>> BY <1>19, DrainFields DEF DrainWrites
  <2>2. Tail(drain.todo) \in Seq(Statement) BY <2>1, HeadTailProperties
  <2>3. drain' = [drain EXCEPT !.todo = Tail(drain.todo)] BY <1>19 DEF DrainWrites
  <2> QED BY <2>2, <2>3 DEF Drain
<1>20. CASE Lanes BY <1>20 DEF Lanes, LaneSends, LaneWrites, LaneTakes, LaneEnds, LaneHears
<1>21. CASE Restart BY <1>21, NoDrainType DEF Restart
<1> QED
  BY <1>1, <1>2, <1>3, <1>4, <1>5, <1>6, <1>7, <1>8, <1>9, <1>10, <1>11, <1>12, <1>13, <1>14,
     <1>15, <1>16, <1>17, <1>18, <1>19, <1>20, <1>21
  DEF Next, Polling, DrainsUpdate, DrainsWork

LEMMA TypesOfRowsStep ==
  ASSUME TypeOK, Next
  PROVE  TypesOfRows'
<1> USE DEF TypeOK
<1>0. ASSUME NEW u \in Update
      PROVE  /\ [row[u] EXCEPT !.processed = TRUE] \in Row
             /\ [row[u] EXCEPT !.settled = TRUE] \in Row
             /\ [row[u] EXCEPT !.body = "stub"] \in Row
             /\ [row[u] EXCEPT !.body = "raw"] \in Row
             /\ [row[u] EXCEPT !.body = "stub", !.settled = TRUE, !.processed = TRUE] \in Row
             /\ [row[u] EXCEPT !.body = "empty", !.processed = TRUE] \in Row
             /\ \A t \in Update \cup {None} : [row[u] EXCEPT !.work = t] \in Row
  <2>1. row[u] \in Row OBVIOUS
  <2>2. [row[u] EXCEPT !.processed = TRUE] \in Row BY <2>1 DEF Row
  <2>3. [row[u] EXCEPT !.settled = TRUE] \in Row BY <2>1 DEF Row
  <2>4. [row[u] EXCEPT !.body = "stub"] \in Row BY <2>1 DEF Row
  <2>5. [row[u] EXCEPT !.body = "raw"] \in Row BY <2>1 DEF Row
  <2>6. [row[u] EXCEPT !.body = "stub", !.settled = TRUE, !.processed = TRUE] \in Row BY <2>1 DEF Row
  <2>7. [row[u] EXCEPT !.body = "empty", !.processed = TRUE] \in Row BY <2>1 DEF Row
  <2>8. \A t \in Update \cup {None} : [row[u] EXCEPT !.work = t] \in Row BY <2>1 DEF Row
  <2> QED BY <2>2, <2>3, <2>4, <2>5, <2>6, <2>7, <2>8
<1>a. ASSUME NEW u, NEW r, u \in Update => r \in Row, row' = [row EXCEPT ![u] = r], turn' = turn
      PROVE  TypesOfRows'
  BY <1>a DEF TypesOfRows
<1>1. ASSUME NEW u, row' = Processed(u), turn' = turn PROVE TypesOfRows'
  <2>1. row' = [row EXCEPT ![u] = [row[u] EXCEPT !.processed = TRUE]] BY <1>1 DEF Processed
  <2> QED BY <1>0, <1>1, <1>a, <2>1
<1>2. CASE Poll
  <2>1. turn' = turn BY <1>2 DEF Poll, turnVars
  <2> QED BY <1>0, <1>2, <2>1 DEF Poll, TypesOfRows
<1>3. ASSUME NEW u \in Update, ControlDone(u) PROVE TypesOfRows'
  BY <1>1, <1>3 DEF ControlDone, turnVars
<1>4. ASSUME NEW e, Refuse(e) PROVE TypesOfRows'
  <2>1. e.id \in Update BY <1>4, TakenUp DEF Refuse
  <2>2. turn' = turn BY <1>4 DEF Refuse, turnVars
  <2>3. \/ row' = [row EXCEPT ![e.id] = [row[e.id] EXCEPT !.body = "stub", !.settled = TRUE, !.processed = TRUE]]
        \/ row' = [row EXCEPT ![e.id] = [row[e.id] EXCEPT !.body = "empty", !.processed = TRUE]]
    BY <1>4 DEF Refuse
  <2> QED BY <1>0, <1>a, <2>1, <2>2, <2>3
<1>5. CASE Served BY <1>1, <1>5 DEF Served, turnVars
<1>6. ASSUME NEW e, Bind(e) PROVE TypesOfRows'
  <2>1. e.id \in Update BY <1>6, TakenUp DEF Bind
  <2>2. PICK target \in Targets(e.id) \cup Unnamed(e.id) :
          row' = [row EXCEPT ![e.id] = [row[e.id] EXCEPT !.work = IF target = None THEN e.id ELSE target]]
    BY <1>6 DEF Bind
  <2>3. target \in Update \cup {None} BY DEF Targets, Unnamed, Continuable
  <2>4. turn' = turn BY <1>6 DEF Bind, turnVars
  <2> QED BY <1>0, <1>a, <2>1, <2>2, <2>3, <2>4
<1>7. \A status \in Status : Opened(status) \in Turn
  BY Bounds DEF Opened, Turn, Status, Lease, Delivery
<1>8. CASE Enqueue
  BY <1>7, <1>8 DEF Enqueue, TypesOfRows, Status
<1>9. CASE Run
  BY <1>7, <1>9 DEF Run, TypesOfRows, Status
<1>9a. CASE Asks
  <2>1. Opened("done") \in Turn BY <1>7 DEF Status
  <2>2. row' = row /\ turn' = [turn EXCEPT ![drain.work] = Opened("done")] BY <1>9a DEF Asks
  <2> QED BY <2>1, <2>2 DEF TypesOfRows
<1>10. CASE Resume
  <2>1. PICK t \in Targets(drain.at) \ {None} :
          /\ turn[t].lease < MaxLeases
          /\ turn' = [turn EXCEPT ![t] = [status |-> "running", lease |-> @.lease + 1, delivery |-> "none"]]
    BY <1>10 DEF Resume
  <2>2. t \in Update BY DEF Targets, Unnamed, Continuable
  <2>3. turn[t].lease + 1 \in Lease BY <2>1, <2>2, Bounds DEF Turn, Lease
  <2>4. [status |-> "running", lease |-> turn[t].lease + 1, delivery |-> "none"] \in Turn
    BY <2>3 DEF Turn, Status, Delivery
  <2> QED BY <1>10, <2>1, <2>4 DEF Resume, TypesOfRows
<1>11. ASSUME NEW t, NEW status \in Status, Ends(t, status), row' = row PROVE TypesOfRows'
  BY <1>11 DEF Ends, TypesOfRows, Turn
<1>12. ASSUME NEW s \in Ending, RunEnds(s) \/ LaneEnds(s) PROVE TypesOfRows'
  BY <1>11, <1>12 DEF RunEnds, LaneEnds, Ending, Status
<1>13. ASSUME NEW t \in Update, LaneTakes(t) PROVE TypesOfRows'
  BY <1>11, <1>13 DEF LaneTakes, Status
<1>14. ASSUME NEW t, NEW state \in Delivery, Delivered(t, state), row' = row PROVE TypesOfRows'
  BY <1>14 DEF Delivered, TypesOfRows, Turn
<1>18. CASE UNCHANGED <<row, turn>> BY <1>18 DEF TypesOfRows
<1>15. CASE DrainWrites
  <2> DEFINE next == Head(drain.todo)
  <2>1. CASE next = "settle" /\ row' = [row EXCEPT ![drain.at].settled = TRUE] /\ UNCHANGED turn
    <3>1. row' = [row EXCEPT ![drain.at] = [row[drain.at] EXCEPT !.settled = TRUE]] BY <2>1
    <3> QED BY <1>0, <1>a, <2>1, <3>1
  <2>2. CASE next = "mark" /\ row' = Processed(drain.at) /\ UNCHANGED turn
    BY <1>1, <2>2
  <2>3. CASE /\ next = "scrub" /\ UNCHANGED turn
             /\ row' \in {[row EXCEPT ![drain.at].body = "stub"], row}
    <3>1. row' = row \/ row' = [row EXCEPT ![drain.at] = [row[drain.at] EXCEPT !.body = "stub"]] BY <2>3
    <3> QED BY <1>0, <1>a, <1>18, <2>3, <3>1
  <2>4. CASE next \in Delivery /\ Delivered(drain.work, next) /\ UNCHANGED row
    BY <1>14, <2>4
  <2> QED BY <1>15, <2>1, <2>2, <2>3, <2>4 DEF DrainWrites
<1>16. CASE LaneWrites
  <2>1. lane.todo \in Seq(Delivery) /\ lane.todo # <<>> BY <1>16 DEF LaneWrites, Lane
  <2>2. Head(lane.todo) \in Delivery BY <2>1, HeadTailProperties
  <2> QED BY <1>14, <1>16, <2>2 DEF LaneWrites
<1>17. CASE Restart
  <2>1. \A t \in Update : [turn[t] EXCEPT !.status = "interrupted"] \in Turn BY DEF Turn, Status
  <2> QED BY <1>17, <2>1 DEF Restart, TypesOfRows
<1>19. ASSUME NEW u \in Update, ServeControl(u) PROVE UNCHANGED <<row, turn>>
  BY <1>19 DEF ServeControl, turnVars
<1>20. ASSUME NEW e, Skips(e) \/ Serve(e) \/ Recover(e) PROVE UNCHANGED <<row, turn>>
  BY <1>20 DEF Skips, Serve, Recover, turnVars
<1>21. ASSUME NEW o, DrainHears(o) \/ LaneHears(o) PROVE UNCHANGED <<row, turn>>
  BY <1>21 DEF DrainHears, LaneHears
<1>22. ASSUME Send \/ Connect \/ PollDone \/ DrainEnds \/ Gone \/ DeadRoute \/ DrainSends \/ LaneSends
       PROVE  UNCHANGED <<row, turn>>
  BY <1>22 DEF Send, Connect, PollDone, DrainEnds, Gone, DeadRoute, DrainSends, LaneSends, turnVars
<1> QED
  BY <1>2, <1>3, <1>4, <1>5, <1>6, <1>8, <1>9, <1>9a, <1>10, <1>12, <1>13, <1>15, <1>16, <1>17, <1>18,
     <1>19, <1>20, <1>21, <1>22
  DEF Next, Polling, DrainsUpdate, DrainsWork, Lanes

LEMMA TypesOfPartsStep ==
  ASSUME TypeOK, Next
  PROVE  TypesOfParts'
<1> USE DEF TypeOK
<1>1. ASSUME NEW t, NEW status \in Part, Planned(t, status) PROVE part' \in [Update -> [Lease -> Part]]
  BY <1>1 DEF Planned
<1>2. ASSUME NEW t, Accepted(t) PROVE wire' \in [Update -> [Lease -> Nat]]
  <2>1. CASE t \in Update
    <3>1. \A l \in Lease : wire[t][l] + 1 \in Nat BY <2>1
    <3> QED BY <1>2, <2>1, <3>1 DEF Accepted
  <2>2. CASE t \notin Update BY <1>2, <2>2 DEF Accepted
  <2> QED BY <2>1, <2>2
<1>3. ASSUME NEW t, NEW key, NEW o, Response(t, key, o) PROVE TypesOfParts'
  BY <1>1, <1>2, <1>3 DEF Response, TypesOfParts, Part
<1>4. ASSUME NEW o, DrainHears(o) \/ LaneHears(o) PROVE TypesOfParts'
  BY <1>3, <1>4 DEF DrainHears, LaneHears
<1>5. CASE DrainSends \/ LaneSends
  BY <1>1, <1>5 DEF DrainSends, LaneSends, TypesOfParts, Part, history
<1>6. CASE Restart
  BY <1>6 DEF Restart, TypesOfParts, Part, history
<1>7. CASE UNCHANGED <<part, wire>> BY <1>7 DEF TypesOfParts
<1>8. ASSUME NEW u \in Update, ServeControl(u) \/ ControlDone(u) PROVE UNCHANGED <<part, wire>>
  BY <1>8 DEF ServeControl, ControlDone, turnVars, history
<1>9. ASSUME NEW e, Skips(e) \/ Refuse(e) \/ Serve(e) \/ Bind(e) \/ Recover(e)
      PROVE  UNCHANGED <<part, wire>>
  BY <1>9 DEF Skips, Refuse, Serve, Bind, Recover, turnVars, history
<1>10. ASSUME NEW s, RunEnds(s) \/ LaneEnds(s) PROVE UNCHANGED <<part, wire>>
  BY <1>10 DEF RunEnds, LaneEnds, history
<1>11. ASSUME NEW t, LaneTakes(t) PROVE UNCHANGED <<part, wire>>
  BY <1>11 DEF LaneTakes
<1>12. ASSUME \/ Send \/ Connect \/ Poll \/ PollDone \/ DrainEnds \/ Served
              \/ Enqueue \/ Run \/ Resume \/ Gone \/ DeadRoute \/ Asks \/ DrainWrites \/ LaneWrites
       PROVE  UNCHANGED <<part, wire>>
  BY <1>12 DEF Send, Connect, Poll, PollDone, DrainEnds, Served, Enqueue, Run, Resume, Gone, DeadRoute, Asks,
     DrainWrites, LaneWrites, turnVars, history
<1> QED
  BY <1>4, <1>5, <1>6, <1>7, <1>8, <1>9, <1>10, <1>11, <1>12
  DEF Next, Polling, DrainsUpdate, DrainsWork, Lanes

LEMMA TypesOfSidesStep ==
  ASSUME TypeOK, Next
  PROVE  TypesOfSides'
<1> USE DEF TypeOK
<1>0. /\ \A pc \in {"connecting", "idle", "controls", "replying"} : [poller EXCEPT !.pc = pc] \in Poller
      /\ \A pc \in {"connecting", "idle", "controls", "replying"}, queue \in SUBSET Update :
           [pc |-> pc, queue |-> queue] \in Poller
      /\ poller.queue \in SUBSET Update
  BY DEF Poller
<1>1. ASSUME Send \/ Connect \/ PollDone PROVE TypesOfSides'
  BY <1>0, <1>1 DEF Send, Connect, PollDone, TypesOfSides, inboxVars, sides
<1>2. CASE Poll
  <2>1. PICK controls \in SUBSET Update :
          /\ gestiti' = gestiti \cup controls
          /\ poller' = [pc |-> "controls", queue |-> controls]
    BY <1>2 DEF Poll
  <2> QED BY <1>0, <1>2, <2>1 DEF Poll, TypesOfSides
<1>3. ASSUME NEW u \in Update, ServeControl(u) \/ ControlDone(u) PROVE TypesOfSides'
  BY <1>0, <1>3 DEF ServeControl, ControlDone, TypesOfSides, inboxVars
<1>4. ASSUME NEW e, Serve(e) PROVE TypesOfSides'
  BY <1>4 DEF Serve, TypesOfSides, inboxVars
<1>5. ASSUME NEW e, Skips(e) \/ Refuse(e) \/ Bind(e) \/ Recover(e) PROVE TypesOfSides'
  BY <1>5 DEF Skips, Refuse, Bind, Recover, TypesOfSides, inboxVars, sides
<1>6. ASSUME NEW s, RunEnds(s) PROVE TypesOfSides'
  BY <1>6 DEF RunEnds, TypesOfSides, inboxVars, sides
<1>7. ASSUME NEW o, DrainHears(o) PROVE TypesOfSides'
  BY <1>7 DEF DrainHears, TypesOfSides, inboxVars, sides
<1>8. ASSUME \/ DrainEnds \/ Served \/ Enqueue \/ Run \/ Resume \/ Gone \/ DeadRoute \/ Asks \/ DrainSends \/ DrainWrites
      PROVE  TypesOfSides'
  BY <1>8 DEF DrainEnds, Served, Enqueue, Run, Resume, Gone, DeadRoute, Asks, DrainSends, DrainWrites,
     TypesOfSides, inboxVars, sides
<1>9. /\ \A pc \in {"idle", "running", "made", "sending"} : [lane EXCEPT !.pc = pc] \in Lane
      /\ \A todo \in Seq(Delivery) : [lane EXCEPT !.pc = "idle", !.todo = todo] \in Lane
      /\ \A todo \in Seq(Delivery) : [lane EXCEPT !.todo = todo] \in Lane
      /\ \A t \in Update : [lane EXCEPT !.pc = "running", !.on = t] \in Lane
  BY DEF Lane
<1>10. CASE LaneSends
  BY <1>9, <1>10, ThenType DEF LaneSends, TypesOfSides, inboxVars, sides
<1>11. ASSUME NEW o, LaneHears(o) PROVE TypesOfSides'
  BY <1>9, <1>11, ThenType DEF LaneHears, TypesOfSides, inboxVars, sides
<1>12. CASE LaneWrites
  <2>1. lane.todo \in Seq(Delivery) /\ lane.todo # <<>> BY <1>12 DEF LaneWrites, Lane
  <2>2. Tail(lane.todo) \in Seq(Delivery) BY <2>1, HeadTailProperties
  <2>3. lane' = [lane EXCEPT !.todo = Tail(lane.todo)] BY <1>12 DEF LaneWrites
  <2> QED BY <1>9, <1>12, <2>2, <2>3 DEF LaneWrites, TypesOfSides, inboxVars, sides
<1>13. ASSUME NEW t \in Update, LaneTakes(t) PROVE TypesOfSides'
  BY <1>9, <1>13 DEF LaneTakes, TypesOfSides, inboxVars, sides
<1>14. ASSUME NEW s, LaneEnds(s) PROVE TypesOfSides'
  BY <1>9, <1>14 DEF LaneEnds, TypesOfSides, inboxVars, sides
<1>15. CASE Restart
  <2>1. NoLane \in Lane BY DEF NoLane, Lane
  <2> QED BY <1>0, <1>15, <2>1 DEF Restart, TypesOfSides, inboxVars
<1> QED
  BY <1>1, <1>2, <1>3, <1>4, <1>5, <1>6, <1>7, <1>8, <1>10, <1>11, <1>12, <1>13, <1>14, <1>15
  DEF Next, Polling, DrainsUpdate, DrainsWork, Lanes

LEMMA TypesOfHistoryStep ==
  ASSUME TypeOK, HandAgrees, Next
  PROVE  TypesOfHistory'
<1> USE DEF TypeOK
<1>1. ASSUME NEW u, served' = [served EXCEPT ![u] = @ + 1], UNCHANGED <<read, away, astray, presumed>>
      PROVE  TypesOfHistory'
  <2>1. \A v \in Update : served[v] + 1 \in Nat OBVIOUS
  <2> QED BY <1>1, <2>1 DEF TypesOfHistory
<1>2. ASSUME NEW u, Reads(u) PROVE read' \in [Update -> Nat]
  <2>1. \A v \in Update : read[v] + 1 \in Nat OBVIOUS
  <2> QED BY <1>2, <2>1 DEF Reads
<1>3. ASSUME NEW u \in Update, ServeControl(u) PROVE TypesOfHistory'
  BY <1>1, <1>3 DEF ServeControl
<1>4. ASSUME NEW e, Serve(e) PROVE TypesOfHistory' BY <1>1, <1>4 DEF Serve
<1>5. CASE Enqueue \/ Run BY <1>2, <1>5 DEF Enqueue, Run, TypesOfHistory
<1>13. CASE DeadRoute
  <2>1. PICK t \in Targets(drain.at) \ {None} : GoesTo(t) BY <1>13 DEF DeadRoute
  <2>2. t \in Update BY DEF Targets, Continuable
  <2>3. drain.work \in Update BY <1>13 DEF DeadRoute, HandAgrees, InHand, AtWork
  <2>4. astray' \in SUBSET Update BY <2>1, <2>2, <2>3 DEF GoesTo
  <2> QED BY <1>13, <2>4 DEF DeadRoute, TypesOfHistory
<1>6. CASE Resume
  <2>1. PICK t \in Targets(drain.at) \ {None} :
          /\ astray' = IF t = drain.work THEN astray ELSE astray \cup {t, drain.work}
          /\ presumed' = IF \E u \in Update : row[u].work = t /\ row[u].settled /\ ~row[u].processed
                         THEN presumed \cup {t} ELSE presumed
    BY <1>6 DEF Resume, GoesTo
  <2>2. t \in Update BY DEF Targets, Unnamed, Continuable
  <2>3. drain.work \in Update BY <1>6 DEF Resume, HandAgrees, InHand, AtWork
  <2>4. astray' \in SUBSET Update /\ presumed' \in SUBSET Update BY <2>1, <2>2, <2>3
  <2> QED BY <1>2, <1>6, <2>4 DEF Resume, TypesOfHistory
<1>7. ASSUME NEW t \in Update, LaneTakes(t) PROVE TypesOfHistory'
  BY <1>7 DEF LaneTakes, TypesOfHistory
<1>8. CASE UNCHANGED <<read, served, away, astray, presumed>> BY <1>8 DEF TypesOfHistory
<1>9. ASSUME NEW u, ControlDone(u) PROVE UNCHANGED <<read, served, away, astray, presumed>>
  BY <1>9 DEF ControlDone, history
<1>10. ASSUME NEW e, Skips(e) \/ Refuse(e) \/ Bind(e) \/ Recover(e)
       PROVE  UNCHANGED <<read, served, away, astray, presumed>>
  BY <1>10 DEF Skips, Refuse, Bind, Recover, history
<1>11. ASSUME NEW o, \/ RunEnds(o) \/ LaneEnds(o) \/ DrainHears(o) \/ LaneHears(o)
       PROVE  UNCHANGED <<read, served, away, astray, presumed>>
  BY <1>11 DEF RunEnds, LaneEnds, DrainHears, LaneHears, history
<1>12. ASSUME \/ Send \/ Connect \/ Poll \/ PollDone \/ DrainEnds \/ Served \/ Gone \/ Asks
              \/ DrainSends \/ DrainWrites \/ LaneSends \/ LaneWrites \/ Restart
       PROVE  UNCHANGED <<read, served, away, astray, presumed>>
  BY <1>12 DEF Send, Connect, Poll, PollDone, DrainEnds, Served, Gone, Asks, DrainSends, DrainWrites,
     LaneSends, LaneWrites, Restart, history
<1> QED
  BY <1>3, <1>4, <1>5, <1>6, <1>7, <1>8, <1>9, <1>10, <1>11, <1>12, <1>13
  DEF Next, Polling, DrainsUpdate, DrainsWork, Lanes

LEMMA TypesOfBoundsStep ==
  ASSUME TypeOK, Next
  PROVE  TypesOfBounds'
<1> USE DEF TypeOK
<1>1. CASE Send
  <2>1. arrived' \in 0 .. MaxUpdates BY <1>1, Bounds DEF Send
  <2> QED BY <1>1, <2>1 DEF Send, TypesOfBounds
<1>2. CASE Poll
  <2>1. PICK last \in Update : offset' = After(last) BY <1>2 DEF Poll
  <2>2. offset' \in 1 .. MaxUpdates + 1 BY <2>1, Bounds DEF After, Update
  <2> QED BY <1>2, <2>2 DEF Poll, TypesOfBounds
<1>3. ASSUME NEW t, NEW key, NEW o, Response(t, key, o)
      PROVE  left' \in [crashes : 0 .. MaxCrashes, refusals : 0 .. MaxRefusals]
  <2>1. CASE left' = left BY <2>1
  <2>2. CASE left.refusals > 0 /\ left' = [left EXCEPT !.refusals = @ - 1]
    <3>1. left.refusals - 1 \in 0 .. MaxRefusals BY <2>2, Bounds
    <3> QED BY <2>2, <3>1
  <2> QED BY <1>3, <2>1, <2>2 DEF Response
<1>4. ASSUME NEW o, DrainHears(o) \/ LaneHears(o) PROVE TypesOfBounds'
  BY <1>3, <1>4 DEF DrainHears, LaneHears, TypesOfBounds, inboxVars
<1>5. CASE Restart
  <2>1. left.crashes > 0 /\ left' = [left EXCEPT !.crashes = @ - 1] BY <1>5 DEF Restart
  <2>2. left.crashes - 1 \in 0 .. MaxCrashes BY <2>1, Bounds
  <2> QED BY <1>5, <2>1, <2>2 DEF Restart, TypesOfBounds, inboxVars
<1>6. CASE UNCHANGED <<arrived, offset, left>> BY <1>6 DEF TypesOfBounds
<1>7. ASSUME NEW u, ServeControl(u) \/ ControlDone(u) \/ LaneTakes(u)
      PROVE  UNCHANGED <<arrived, offset, left>>
  BY <1>7 DEF ServeControl, ControlDone, LaneTakes, inboxVars
<1>8. ASSUME NEW e, Skips(e) \/ Refuse(e) \/ Serve(e) \/ Bind(e) \/ Recover(e)
      PROVE  UNCHANGED <<arrived, offset, left>>
  BY <1>8 DEF Skips, Refuse, Serve, Bind, Recover, inboxVars
<1>9. ASSUME NEW s, RunEnds(s) \/ LaneEnds(s) PROVE UNCHANGED <<arrived, offset, left>>
  BY <1>9 DEF RunEnds, LaneEnds, inboxVars
<1>10. ASSUME \/ Connect \/ PollDone \/ DrainEnds \/ Served \/ Enqueue \/ Run \/ Resume \/ Gone \/ DeadRoute \/ Asks
              \/ DrainSends \/ DrainWrites \/ LaneSends \/ LaneWrites
       PROVE  UNCHANGED <<arrived, offset, left>>
  BY <1>10 DEF Connect, PollDone, DrainEnds, Served, Enqueue, Run, Resume, Gone, DeadRoute, Asks, DrainSends,
     DrainWrites, LaneSends, LaneWrites, inboxVars
<1> QED
  BY <1>1, <1>2, <1>4, <1>5, <1>6, <1>7, <1>8, <1>9, <1>10
  DEF Next, Polling, DrainsUpdate, DrainsWork, Lanes

LEMMA TypesStep ==
  ASSUME TypeOK, HandAgrees, Next
  PROVE  TypeOK'
BY TypesOfRowsStep, TypesOfDrain, TypesOfPartsStep, TypesOfSidesStep, TypesOfHistoryStep, TypesOfBoundsStep
DEF TypeOK, TypesOfRows, TypesOfParts, TypesOfSides, TypesOfHistory, TypesOfBounds

----------------------------------------------------------------------------
(* The steps keep who holds what.                                          *)

\* What is sent does not change, and what is written down of a turn stays.
LEMMA Onward ==
  ASSUME TypeOK, Next
  PROVE  kind' = kind /\ astray \subseteq astray' /\ away \subseteq away' /\ presumed \subseteq presumed'
<1>1. ASSUME NEW u, ServeControl(u) \/ ControlDone(u) \/ LaneTakes(u)
      PROVE  kind' = kind /\ astray \subseteq astray' /\ away \subseteq away' /\ presumed \subseteq presumed'
  BY <1>1 DEF ServeControl, ControlDone, LaneTakes, inboxVars, history
<1>2. ASSUME NEW e, Skips(e) \/ Refuse(e) \/ Serve(e) \/ Bind(e) \/ Recover(e)
      PROVE  kind' = kind /\ astray \subseteq astray' /\ away \subseteq away' /\ presumed \subseteq presumed'
  BY <1>2 DEF Skips, Refuse, Serve, Bind, Recover, inboxVars, history
<1>3. ASSUME NEW s, RunEnds(s) \/ LaneEnds(s) \/ DrainHears(s) \/ LaneHears(s)
      PROVE  kind' = kind /\ astray \subseteq astray' /\ away \subseteq away' /\ presumed \subseteq presumed'
  BY <1>3 DEF RunEnds, LaneEnds, DrainHears, LaneHears, inboxVars, history
<1>4. ASSUME \/ Send \/ Connect \/ Poll \/ PollDone \/ DrainEnds \/ Served \/ Enqueue \/ Run \/ Resume
             \/ Gone \/ DeadRoute \/ Asks \/ DrainSends \/ DrainWrites \/ LaneSends \/ LaneWrites \/ Restart
       PROVE  kind' = kind /\ astray \subseteq astray' /\ away \subseteq away' /\ presumed \subseteq presumed'
  BY <1>4 DEF Send, Connect, Poll, PollDone, DrainEnds, Served, Enqueue, Run, Resume, Gone, DeadRoute, Asks,
     GoesTo, DrainSends, DrainWrites, LaneSends, LaneWrites, Restart, inboxVars, history
<1> QED BY <1>1, <1>2, <1>3, <1>4 DEF Next, Polling, DrainsUpdate, DrainsWork, Lanes

\* A turn begins with the words in hand, and nothing else is read but a
\* resumption.
Begins ==
  /\ drain.pc = "bound" /\ ~Started(drain.work) /\ Reads(drain.at)
  /\ \A t \in Update : Started(t)' <=> Started(t) \/ t = drain.work

NoneBegins ==
  /\ \A t \in Update : Started(t)' <=> Started(t)
  /\ read' = read \/ (Reads(drain.at) /\ kind[drain.at] = "resumption")

\* A question begins the turn of its event, which is a resumption.
BeginsUnread ==
  /\ drain.pc = "bound" /\ ~Started(drain.work) /\ read' = read /\ kind[drain.at] = "resumption"
  /\ \A t \in Update : Started(t)' <=> Started(t) \/ t = drain.work

LEMMA StartsStep ==
  ASSUME TypeOK, HandAgrees, LaneAgrees, Next
  PROVE  Begins \/ BeginsUnread \/ NoneBegins
<1> USE DEF TypeOK
<1>1. CASE Enqueue \/ Run
  <2>1. PICK status \in {"runnable", "running"} : turn' = [turn EXCEPT ![drain.work] = Opened(status)]
    BY <1>1 DEF Enqueue, Run
  <2>2. drain.pc = "bound" /\ ~Started(drain.work) /\ Reads(drain.at)
    BY <1>1 DEF Enqueue, Run, Started
  <2>3. drain.work \in Update BY <2>2 DEF HandAgrees, InHand, AtWork
  <2>4. Opened(status).status # "none" BY <2>1 DEF Opened
  <2>5. \A t \in Update : turn'[t] = IF t = drain.work THEN Opened(status) ELSE turn[t] BY <2>1
  <2> QED BY <2>2, <2>3, <2>4, <2>5 DEF Begins, Started
<1>2. CASE Resume
  <2>1. PICK t \in Targets(drain.at) \ {None} :
          turn' = [turn EXCEPT ![t] = [status |-> "running", lease |-> @.lease + 1, delivery |-> "none"]]
    BY <1>2 DEF Resume
  <2>2. t \in Update /\ turn[t].status = "continuable" /\ kind[drain.at] = "resumption"
    BY DEF Targets, Unnamed, Continuable
  <2>3. Reads(drain.at) BY <1>2 DEF Resume
  <2> DEFINE r == [status |-> "running", lease |-> turn[t].lease + 1, delivery |-> "none"]
  <2>a. r.status = "running" OBVIOUS
  <2>b. \A u \in Update : turn'[u] = IF u = t THEN r ELSE turn[u] BY <2>1
  <2> HIDE DEF r
  <2>5. ASSUME NEW u \in Update PROVE turn'[u].status # "none" <=> turn[u].status # "none"
    BY <2>2, <2>a, <2>b
  <2>6. NoneBegins BY <2>2, <2>3, <2>5 DEF NoneBegins, Started
  <2> QED BY <2>6
<1>16. CASE Asks
  <2>1. /\ drain.pc = "bound" /\ ~Started(drain.work) /\ read' = read /\ kind[drain.at] = "resumption"
        /\ turn' = [turn EXCEPT ![drain.work] = Opened("done")]
    BY <1>16 DEF Asks, Ambiguous, Started, history
  <2>2. drain.work \in Update BY <2>1 DEF HandAgrees, InHand, AtWork
  <2>3. Opened("done").status # "none" BY DEF Opened
  <2>4. \A t \in Update : turn'[t] = IF t = drain.work THEN Opened("done") ELSE turn[t] BY <2>1
  <2> QED BY <2>1, <2>2, <2>3, <2>4 DEF BeginsUnread, Started
<1>3. ASSUME NEW t \in Update, Started(t), NEW status \in Status \ {"none"}, Ends(t, status), read' = read
      PROVE  NoneBegins
  <2>1. \A u \in Update : turn'[u] = IF u = t THEN [turn[t] EXCEPT !.status = status] ELSE turn[u]
    BY <1>3 DEF Ends
  <2>2. [turn[t] EXCEPT !.status = status].status = status BY DEF Turn
  <2> QED BY <1>3, <2>1, <2>2 DEF NoneBegins, Started
<1>4. ASSUME NEW s \in Ending, RunEnds(s) PROVE NoneBegins
  BY <1>3, <1>4 DEF RunEnds, Ending, Status, HandAgrees, history
<1>5. ASSUME NEW s \in Ending, LaneEnds(s) PROVE NoneBegins
  BY <1>3, <1>5 DEF LaneEnds, Ending, Status, LaneAgrees, history
<1>6. ASSUME NEW t \in Update, LaneTakes(t) PROVE NoneBegins
  BY <1>3, <1>6 DEF LaneTakes, Started, Status
<1>7. ASSUME NEW t, NEW state, Delivered(t, state), read' = read PROVE NoneBegins
  <2>1. \A u \in Update : turn'[u] = turn[u] \/ turn'[u] = [turn[u] EXCEPT !.delivery = state]
    BY <1>7 DEF Delivered
  <2>2. \A u \in Update : [turn[u] EXCEPT !.delivery = state].status = turn[u].status BY DEF Turn
  <2> QED BY <1>7, <2>1, <2>2 DEF NoneBegins, Started
<1>8. CASE UNCHANGED <<turn, read>> BY <1>8 DEF NoneBegins, Started
<1>9. CASE DrainWrites
  <2>1. turn' = turn \/ Delivered(drain.work, Head(drain.todo)) BY <1>9 DEF DrainWrites
  <2> QED BY <1>7, <1>8, <1>9, <2>1 DEF DrainWrites, history
<1>10. CASE LaneWrites BY <1>7, <1>10 DEF LaneWrites, history
<1>11. CASE Restart
  <2>1. \A t \in Update : turn'[t] = IF turn[t].status = "running"
                                     THEN [turn[t] EXCEPT !.status = "interrupted"] ELSE turn[t]
    BY <1>11 DEF Restart
  <2>2. \A t \in Update : [turn[t] EXCEPT !.status = "interrupted"].status = "interrupted" BY DEF Turn
  <2> QED BY <1>11, <2>1, <2>2 DEF Restart, NoneBegins, Started, history
<1>12. ASSUME NEW u, ServeControl(u) \/ ControlDone(u) PROVE UNCHANGED <<turn, read>>
  BY <1>12 DEF ServeControl, ControlDone, turnVars, history
<1>13. ASSUME NEW e, Skips(e) \/ Refuse(e) \/ Serve(e) \/ Bind(e) \/ Recover(e) PROVE UNCHANGED <<turn, read>>
  BY <1>13 DEF Skips, Refuse, Serve, Bind, Recover, turnVars, history
<1>14. ASSUME NEW o, DrainHears(o) \/ LaneHears(o) PROVE UNCHANGED <<turn, read>>
  BY <1>14 DEF DrainHears, LaneHears
<1>15. ASSUME \/ Send \/ Connect \/ Poll \/ PollDone \/ DrainEnds \/ Served \/ Gone \/ DeadRoute
              \/ DrainSends \/ LaneSends
       PROVE  UNCHANGED <<turn, read>>
  BY <1>15 DEF Send, Connect, Poll, PollDone, DrainEnds, Served, Gone, DeadRoute, DrainSends, LaneSends,
     turnVars, history
<1> QED
  BY <1>1, <1>2, <1>4, <1>5, <1>6, <1>8, <1>9, <1>10, <1>11, <1>12, <1>13, <1>14, <1>15, <1>16
  DEF Next, Polling, DrainsUpdate, DrainsWork, Lanes

\* Once begun, a turn has begun.
LEMMA BegunStays ==
  ASSUME TypeOK, HandAgrees, LaneAgrees, Next
  PROVE  /\ \A t \in Update : Started(t) => Started(t)'
         /\ \A u, t \in Update : Begun(u, t) => Begun(u, t)'
BY StartsStep, Onward DEF Begins, BeginsUnread, NoneBegins, Begun

\* What a step does to the row of an update: nothing that is said of it; it
\* closes one that opens no turn; it binds one that is taken up; or it is a
\* statement of the drain, about the one in hand.
Kept(u) == /\ row'[u].work = row[u].work
           /\ row'[u].settled = row[u].settled /\ row'[u].processed = row[u].processed

Closes(u) == u \notin Words /\ row'[u].work = row[u].work

Binds(u) ==
  /\ u \in Words /\ row[u].work = None /\ drain'.pc = "bound" /\ drain'.at = u
  /\ row'[u].settled = row[u].settled /\ row'[u].processed = row[u].processed
  /\ row'[u].work = u \/ (kind[u] = "resumption" /\ row'[u].work \in Continuable)

Writes(u) ==
  /\ DrainWrites /\ u = drain.at /\ row'[u].work = row[u].work
  /\ \/ /\ Head(drain.todo) = "settle"
        /\ row'[u].settled = TRUE /\ row'[u].processed = row[u].processed
     \/ /\ Head(drain.todo) = "mark"
        /\ row'[u].settled = row[u].settled /\ row'[u].processed = TRUE

\* The fields of a row that is written.
LEMMA RowFields ==
  ASSUME NEW r \in Row
  PROVE  /\ [r EXCEPT !.processed = TRUE].work = r.work /\ [r EXCEPT !.processed = TRUE].settled = r.settled
         /\ [r EXCEPT !.processed = TRUE].processed = TRUE
         /\ [r EXCEPT !.settled = TRUE].work = r.work /\ [r EXCEPT !.settled = TRUE].settled = TRUE
         /\ [r EXCEPT !.settled = TRUE].processed = r.processed
         /\ \A b : /\ [r EXCEPT !.body = b].work = r.work /\ [r EXCEPT !.body = b].settled = r.settled
                  /\ [r EXCEPT !.body = b].processed = r.processed
         /\ \A t : /\ [r EXCEPT !.work = t].work = t /\ [r EXCEPT !.work = t].settled = r.settled
                  /\ [r EXCEPT !.work = t].processed = r.processed
BY DEF Row

LEMMA RowMoves ==
  ASSUME TypeOK, ListAgrees, HandAgrees, CommandsAgree, Next, NEW u \in Update
  PROVE  Kept(u) \/ Closes(u) \/ Binds(u) \/ Writes(u)
<1>0. row[u] \in Row BY DEF TypeOK
<1>1. CASE row' = row BY <1>1 DEF Kept
<1>2. CASE Poll
  <2>1. row'[u] = row[u] \/ row'[u] = [row[u] EXCEPT !.body = "raw"] BY <1>2 DEF Poll
  <2>2. CASE row'[u] = row[u] BY <2>2 DEF Kept
  <2>3. CASE row'[u] = [row[u] EXCEPT !.body = "raw"]
    <3>1. /\ row'[u].work = row[u].work
          /\ row'[u].settled = row[u].settled /\ row'[u].processed = row[u].processed
      BY <1>0, <2>3 DEF Row
    <3> QED BY <3>1 DEF Kept
  <2> QED BY <2>1, <2>2, <2>3
<1>3. ASSUME NEW v, v \notin Words, row' = Processed(v) PROVE Kept(u) \/ Closes(u)
  <2>1. row'[u] = IF u = v THEN [row[u] EXCEPT !.processed = TRUE] ELSE row[u]
    BY <1>3 DEF Processed, TypeOK
  <2> QED BY <1>0, <1>3, <2>1, RowFields DEF Kept, Closes
<1>4. ASSUME NEW v \in Update, ControlDone(v) PROVE Kept(u) \/ Closes(u)
  BY <1>3, <1>4 DEF ControlDone, IsFirst, CommandsAgree, Words
<1>5. CASE Served BY <1>3, <1>5 DEF Served, HandAgrees
<1>6. ASSUME NEW e, Refuse(e) PROVE Kept(u) \/ Closes(u)
  <2>1. e.id \notin Words BY <1>6 DEF Refuse, Words
  <2>2. row'[u] = row[u] \/ u = e.id BY <1>6 DEF Refuse, TypeOK
  <2>3. u = e.id => \/ row'[u] = [row[u] EXCEPT !.body = "stub", !.settled = TRUE, !.processed = TRUE]
                    \/ row'[u] = [row[u] EXCEPT !.body = "empty", !.processed = TRUE]
    BY <1>6 DEF Refuse, TypeOK
  <2>4. u = e.id => row'[u].work = row[u].work BY <1>0, <2>3 DEF Row
  <2> QED BY <2>1, <2>2, <2>4 DEF Kept, Closes
<1>7. ASSUME NEW e, Bind(e) PROVE Kept(u) \/ Binds(u)
  <2>1. e.id \in Update /\ e \in drain.list BY <1>7, TakenUp DEF Bind
  <2>2. PICK target \in Targets(e.id) \cup Unnamed(e.id) :
          /\ row' = [row EXCEPT ![e.id].work = IF target = None THEN e.id ELSE target]
          /\ drain' = [RestOf(e) EXCEPT !.pc = "bound", !.at = e.id,
                         !.work = IF target = None THEN e.id ELSE target]
    BY <1>7 DEF Bind
  <2> DEFINE work == IF target = None THEN e.id ELSE target
  <2>3. row'[u] = IF u = e.id THEN [row[u] EXCEPT !.work = work] ELSE row[u] BY <2>2 DEF TypeOK
  <2>4. e.id \in Words /\ row[e.id].work = None BY <1>7, <2>1 DEF Bind, Words, ListAgrees
  <2>5. work = e.id \/ (kind[e.id] = "resumption" /\ work \in Continuable) BY DEF Targets, Unnamed
  <2>6. drain'.pc = "bound" /\ drain'.at = e.id BY <2>2, RestType DEF TypeOK, Drain
  <2> HIDE DEF work
  <2> QED BY <1>0, <2>3, <2>4, <2>5, <2>6, RowFields DEF Kept, Binds
<1>8. CASE DrainWrites
  <2>1. CASE Head(drain.todo) = "settle" /\ row' = [row EXCEPT ![drain.at].settled = TRUE]
    <3>1. row'[u] = IF u = drain.at THEN [row[u] EXCEPT !.settled = TRUE] ELSE row[u] BY <2>1 DEF TypeOK
    <3>2. CASE u # drain.at BY <1>0, <3>1, <3>2 DEF Kept
    <3>3. CASE u = drain.at
      <4>1. row'[u].work = row[u].work /\ row'[u].settled = TRUE /\ row'[u].processed = row[u].processed
        BY <1>0, <3>1, <3>3, RowFields
      <4> QED BY <1>8, <2>1, <3>3, <4>1 DEF Writes
    <3> QED BY <3>2, <3>3
  <2>2. CASE Head(drain.todo) = "mark" /\ row' = Processed(drain.at)
    <3>1. row'[u] = IF u = drain.at THEN [row[u] EXCEPT !.processed = TRUE] ELSE row[u]
      BY <2>2 DEF Processed, TypeOK
    <3>2. CASE u # drain.at BY <1>0, <3>1, <3>2 DEF Kept
    <3>3. CASE u = drain.at
      <4>1. row'[u].work = row[u].work /\ row'[u].settled = row[u].settled /\ row'[u].processed = TRUE
        BY <1>0, <3>1, <3>3, RowFields
      <4> QED BY <1>8, <2>2, <3>3, <4>1 DEF Writes
    <3> QED BY <3>2, <3>3
  <2>3. CASE row' = [row EXCEPT ![drain.at].body = "stub"]
    <3>1. row'[u] = IF u = drain.at THEN [row[u] EXCEPT !.body = "stub"] ELSE row[u] BY <2>3 DEF TypeOK
    <3> QED BY <1>0, <3>1, RowFields DEF Kept
  <2> QED BY <1>1, <1>8, <2>1, <2>2, <2>3 DEF DrainWrites
<1>9. ASSUME NEW v, ServeControl(v) \/ LaneTakes(v) PROVE row' = row BY <1>9 DEF ServeControl, LaneTakes
<1>10. ASSUME NEW e, Skips(e) \/ Serve(e) \/ Recover(e) PROVE row' = row BY <1>10 DEF Skips, Serve, Recover
<1>11. ASSUME NEW o, RunEnds(o) \/ LaneEnds(o) \/ DrainHears(o) \/ LaneHears(o) PROVE row' = row
  BY <1>11 DEF RunEnds, LaneEnds, DrainHears, LaneHears
<1>12. ASSUME \/ Send \/ Connect \/ PollDone \/ DrainEnds \/ Enqueue \/ Run \/ Resume \/ Gone \/ DeadRoute \/ Asks
              \/ DrainSends \/ LaneSends \/ LaneWrites \/ Restart
       PROVE  row' = row
  BY <1>12 DEF Send, Connect, PollDone, DrainEnds, Enqueue, Run, Resume, Gone, DeadRoute, Asks, DrainSends,
     LaneSends, LaneWrites, Restart
<1> QED
  BY <1>1, <1>2, <1>4, <1>5, <1>6, <1>7, <1>8, <1>9, <1>10, <1>11, <1>12
  DEF Next, Polling, DrainsUpdate, DrainsWork, Lanes

LEMMA RowsAgreeStep ==
  ASSUME TypeOK, Agrees, Next
  PROVE  RowsAgree'
<1> USE DEF Agrees
<1> DEFINE Goes(t) == turn'[t].status # "none"
           Went(u, t) == Goes(t) \/ (kind[u] = "resumption" /\ t \in astray')
           Ok(u) == /\ row'[u].work # None => u \in Words
                    /\ row'[u].work \in Update =>
                         row'[u].work = u \/ (kind[u] = "resumption" /\ Goes(row'[u].work))
                    /\ u \in Words /\ (row'[u].settled \/ row'[u].processed) =>
                         row'[u].work \in Update /\ Went(u, row'[u].work)
<1>1. SUFFICES ASSUME NEW u \in Update PROVE Ok(u)
  BY Onward DEF RowsAgree, Words, Begun, Started
<1>2. /\ row[u].work # None => u \in Words
      /\ row[u].work \in Update => row[u].work = u \/ (kind[u] = "resumption" /\ Started(row[u].work))
      /\ u \in Words /\ (row[u].settled \/ row[u].processed) =>
           row[u].work \in Update /\ Begun(u, row[u].work)
  BY DEF RowsAgree
<1>3. /\ \A t \in Update : Started(t) => Goes(t)
      /\ \A t \in Update : Begun(u, t) => Went(u, t)
  BY BegunStays, Onward DEF Started, Begun
<1> HIDE DEF Goes, Went
<1>4. CASE Kept(u) BY <1>2, <1>3, <1>4 DEF Kept
<1>5. CASE Closes(u) BY <1>2, <1>3, <1>5 DEF Closes
<1>6. CASE Binds(u)
  <2>1. \A t \in Continuable : t \in Update /\ Started(t) BY DEF Continuable, Started
  <2>2. ~(row[u].settled \/ row[u].processed) BY <1>2, <1>6, NoneIsNoUpdate DEF Binds
  <2> QED BY <1>2, <1>3, <1>6, <2>1, <2>2 DEF Binds
<1>7. CASE Writes(u)
  <2>1. drain.todo # <<>> /\ u = drain.at BY <1>7 DEF Writes, DrainWrites
  <2>2. row[u].work = drain.work /\ drain.work \in Update /\ Begun(u, drain.work)
    BY <2>1 DEF HandAgrees, InHand
  <2> QED BY <1>2, <1>3, <1>7, <2>2 DEF Writes
<1> QED BY <1>4, <1>5, <1>6, <1>7, RowMoves

\* The fields of the drain after a step, its list apart.
DrainIs(pc, at, work, on, todo) ==
  /\ drain'.pc = pc /\ drain'.at = at /\ drain'.work = work
  /\ drain'.on = on /\ drain'.todo = todo

\* What a recovery makes of the drain.
LEMMA RecoverFields ==
  ASSUME TypeOK, NEW e, Recover(e)
  PROVE  /\ drain'.list = drain.list \ {e} /\ drain'.at \in {None, e.id}
         /\ LET t    == e.work
                told == e.settled \/ Told(t)
            IN  \/ DrainIs("next", None, None, None, <<>>)
                \/ Unstarted(t) /\ DrainIs("bound", e.id, t, None, <<>>)
                \/ /\ told /\ turn[t].status \in {"continuable", "done"}
                   /\ DrainIs("next", e.id, t, None, Repaired(t))
                \/ /\ ~told /\ turn[t].status \in {"continuable", "done"}
                   /\ DrainIs("next", e.id, t, None, FinishAfter("undeliverable"))
                \/ ~told /\ turn[t].status = "done" /\ DrainIs("made", e.id, t, t, <<>>)
<1> DEFINE held == [RestOf(e) EXCEPT !.at = e.id, !.work = e.work]
           t    == e.work
           told == e.settled \/ Told(t)
<1>1. e.id \in Update /\ t \in Update \cup {None} /\ drain.pc = "next" /\ drain.todo = <<>>
  BY TakenUp DEF Recover
<1>2. /\ RestOf(e) \in Drain /\ RestOf(e).pc = "next" /\ RestOf(e).list = drain.list \ {e}
      /\ RestOf(e).todo = <<>> /\ RestOf(e).at = None /\ RestOf(e).work = None /\ RestOf(e).on = None
  BY <1>1, RestType DEF TypeOK
<1>3. /\ held \in Drain /\ held.pc = "next" /\ held.list = drain.list \ {e} /\ held.todo = <<>>
      /\ held.at = e.id /\ held.work = t /\ held.on = None
  BY <1>1, <1>2 DEF Drain
<1>4. \/ drain' = RestOf(e)
      \/ Unstarted(t) /\ drain' = [held EXCEPT !.pc = "bound"]
      \/ /\ told /\ turn[t].status \in {"continuable", "done"}
         /\ drain' = [held EXCEPT !.todo = Repaired(t)]
      \/ /\ ~told /\ turn[t].status \in {"continuable", "done"}
         /\ drain' = [held EXCEPT !.todo = FinishAfter("undeliverable")]
      \/ ~told /\ turn[t].status = "done" /\ drain' = [held EXCEPT !.pc = "made", !.on = t]
  BY DEF Recover
<1> HIDE DEF held, t, told
<1>5. CASE drain' = RestOf(e) BY <1>2, <1>5 DEF DrainIs
<1>6. CASE Unstarted(t) /\ drain' = [held EXCEPT !.pc = "bound"]
  <2>1. drain'.list = drain.list \ {e} /\ DrainIs("bound", e.id, t, None, <<>>)
    BY <1>3, <1>6 DEF DrainIs, Drain
  <2> QED BY <1>6, <2>1 DEF DrainIs, t
<1>7. ASSUME NEW todo, drain' = [held EXCEPT !.todo = todo]
      PROVE  drain'.list = drain.list \ {e} /\ DrainIs("next", e.id, t, None, todo)
  BY <1>3, <1>7 DEF DrainIs, Drain
<1>8. CASE /\ told /\ turn[t].status \in {"continuable", "done"}
           /\ drain' = [held EXCEPT !.todo = Repaired(t)]
  <2>1. drain'.list = drain.list \ {e} /\ DrainIs("next", e.id, t, None, Repaired(t)) BY <1>7, <1>8
  <2> QED BY <1>8, <2>1 DEF DrainIs, t, told
<1>9. CASE /\ ~told /\ turn[t].status \in {"continuable", "done"}
           /\ drain' = [held EXCEPT !.todo = FinishAfter("undeliverable")]
  <2>1. drain'.list = drain.list \ {e} /\ DrainIs("next", e.id, t, None, FinishAfter("undeliverable"))
    BY <1>7, <1>9
  <2> QED BY <1>9, <2>1 DEF DrainIs, t, told
<1>10. CASE ~told /\ turn[t].status = "done" /\ drain' = [held EXCEPT !.pc = "made", !.on = t]
  <2>1. drain'.list = drain.list \ {e} /\ DrainIs("made", e.id, t, t, <<>>)
    BY <1>3, <1>10 DEF DrainIs, Drain
  <2> QED BY <1>10, <2>1 DEF DrainIs, t, told
<1> QED BY <1>4, <1>5, <1>6, <1>8, <1>9, <1>10

\* The list is read anew, or gets shorter, and never holds the one in hand.
LEMMA ListMoves ==
  ASSUME TypeOK, ListAgrees, Next
  PROVE  \/ drain' = Drained(row')
         \/ drain'.list \subseteq drain.list /\ \A f \in drain'.list : f.id # drain'.at
<1> DEFINE Shorter == drain'.list \subseteq drain.list /\ \A f \in drain'.list : f.id # drain'.at
<1>0. drain \in Drain BY DEF TypeOK
<1>1. ASSUME drain'.list = drain.list, drain'.at = drain.at PROVE Shorter BY <1>1 DEF ListAgrees
<1>2. CASE drain' = drain BY <1>1, <1>2
<1>3. ASSUME drain' = Scheduled(row), row' = row PROVE drain' = Drained(row') \/ Shorter
  <2>1. [drain EXCEPT !.again = TRUE].list = drain.list /\ [drain EXCEPT !.again = TRUE].at = drain.at
    BY <1>0 DEF Drain
  <2> QED BY <1>1, <1>3, <2>1 DEF Scheduled
<1>4. CASE Connect \/ PollDone BY <1>3, <1>4 DEF Connect, PollDone
<1>5. ASSUME NEW u, ControlDone(u) PROVE drain' = Drained(row') \/ Shorter
  BY <1>2, <1>5 DEF ControlDone
<1>6. CASE DrainEnds
  <2>1. drain' = Drained(row) \/ drain' = NoDrain BY <1>6 DEF DrainEnds
  <2>2. row' = row BY <1>6 DEF DrainEnds
  <2> QED BY <2>1, <2>2, NoDrainType
<1>7. ASSUME NEW e, TakesUp(e), drain'.list = drain.list \ {e}, drain'.at \in {None, e.id} PROVE Shorter
  <2>1. e \in drain.list BY <1>7 DEF TakesUp
  <2>2. \A f \in drain.list : f.id \in Update BY <1>0, DrainFields
  <2>3. \A f \in drain.list \ {e} : f.id # e.id BY <2>1 DEF ListAgrees
  <2> QED BY <1>7, <2>2, <2>3, NoneIsNoUpdate
<1>8. ASSUME NEW e, Skips(e) \/ Refuse(e) PROVE Shorter
  <2>1. TakesUp(e) /\ drain' = RestOf(e) BY <1>8 DEF Skips, Refuse
  <2> QED BY <1>0, <1>7, <2>1, RestType
<1>9. ASSUME NEW e, Serve(e) PROVE Shorter
  <2>1. TakesUp(e) /\ drain' = [RestOf(e) EXCEPT !.pc = "serving", !.at = e.id] BY <1>9 DEF Serve
  <2>2. drain'.list = drain.list \ {e} /\ drain'.at = e.id BY <1>0, <2>1, RestType DEF Drain
  <2> QED BY <1>7, <2>1, <2>2
<1>10. ASSUME NEW e, Bind(e) PROVE Shorter
  <2>1. PICK target : drain' = [RestOf(e) EXCEPT !.pc = "bound", !.at = e.id,
                                               !.work = IF target = None THEN e.id ELSE target]
    BY <1>10 DEF Bind
  <2>2. drain'.list = drain.list \ {e} /\ drain'.at = e.id BY <1>0, <2>1, RestType DEF Drain
  <2> QED BY <1>7, <1>10, <2>2 DEF Bind
<1>11. ASSUME NEW e, Recover(e) PROVE Shorter
  <2>1. drain'.list = drain.list \ {e} /\ drain'.at \in {None, e.id} BY <1>11, RecoverFields
  <2> QED BY <1>7, <1>11, <2>1 DEF Recover
<1>12. ASSUME NEW todo, drain' = LetGo(todo) PROVE Shorter
  <2>1. drain'.list = drain.list /\ drain'.at = drain.at BY <1>0, <1>12 DEF LetGo, Drain
  <2> QED BY <1>1, <2>1
<1>13. CASE Served \/ Enqueue \/ Gone BY <1>12, <1>13 DEF Served, Enqueue, Gone
<1>14. ASSUME NEW pc, drain' = [drain EXCEPT !.pc = pc] PROVE Shorter
  <2>1. drain'.list = drain.list /\ drain'.at = drain.at BY <1>0, <1>14 DEF Drain
  <2> QED BY <1>1, <2>1
<1>15. CASE Run \/ Resume \/ Asks \/ DeadRoute
  <2>1. PICK pc, on : drain' = [drain EXCEPT !.pc = pc, !.on = on] BY <1>15 DEF Run, Resume, Asks, DeadRoute
  <2>2. drain'.list = drain.list /\ drain'.at = drain.at BY <1>0, <2>1 DEF Drain
  <2> QED BY <1>1, <2>2
<1>16. ASSUME NEW s, RunEnds(s) PROVE Shorter
  <2>1. drain' = LetGo(Finish) \/ drain' = [drain EXCEPT !.pc = "made"] BY <1>16 DEF RunEnds
  <2> QED BY <1>12, <1>14, <2>1
<1>17. CASE DrainSends
  <2>1. drain' = LetGo(Then(AlreadyThere(Plan(drain.work)))) \/ drain' = [drain EXCEPT !.pc = "sending"]
    BY <1>17 DEF DrainSends
  <2> QED BY <1>12, <1>14, <2>1
<1>18. ASSUME NEW o, DrainHears(o) PROVE Shorter BY <1>12, <1>18 DEF DrainHears
<1>19. CASE DrainWrites
  <2>1. drain' = [drain EXCEPT !.todo = Tail(drain.todo)] BY <1>19 DEF DrainWrites
  <2>2. drain'.list = drain.list /\ drain'.at = drain.at BY <1>0, <2>1 DEF Drain
  <2> QED BY <1>1, <2>2
<1>20. CASE Restart BY <1>20, NoDrainType DEF Restart
<1>21. CASE Send \/ Poll \/ Lanes
  BY <1>2, <1>21 DEF Send, Poll, Lanes, LaneSends, LaneWrites, LaneTakes, LaneEnds, LaneHears
<1>22. ASSUME NEW u, ServeControl(u) PROVE drain' = drain BY <1>22 DEF ServeControl
<1> QED
  BY <1>2, <1>4, <1>5, <1>6, <1>8, <1>9, <1>10, <1>11, <1>13, <1>15, <1>16, <1>17, <1>18, <1>19, <1>20,
     <1>21, <1>22
  DEF Next, Polling, DrainsUpdate, DrainsWork

LEMMA ListAgreesStep ==
  ASSUME TypeOK, Agrees, Next
  PROVE  ListAgrees'
<1>0. ListAgrees /\ HandAgrees /\ CommandsAgree BY DEF Agrees
<1>1. row' \in [Update -> Row] BY <1>0, TypesStep DEF TypeOK
<1>2. Words' = Words BY Onward DEF Words
<1>3. CASE drain' = Drained(row')
  <2>1. drain'.list = Listed(row') /\ drain'.at = None BY <1>1, <1>3, DrainedType
  <2>2. \A e \in Listed(row') :
          /\ e.id \in Update /\ e.work = row'[e.id].work /\ e.settled = row'[e.id].settled
          /\ ~row'[e.id].processed
    BY <1>1, DrainedType
  <2>3. \A e, f \in Listed(row') : e.id = f.id => e = f BY <1>1, DrainedType
  <2> QED BY <1>2, <2>1, <2>2, <2>3, NoneIsNoUpdate DEF ListAgrees
<1>4. CASE drain'.list \subseteq drain.list /\ \A f \in drain'.list : f.id # drain'.at
  <2>1. ASSUME NEW f \in drain'.list
        PROVE  /\ f.work = row'[f.id].work
               /\ f.id \in Words => f.settled = row'[f.id].settled /\ ~row'[f.id].processed
    <3>1. f \in drain.list /\ f.id \in Update BY <1>4, DrainFields DEF TypeOK
    <3>2. /\ f.work = row[f.id].work /\ f.id # drain.at
          /\ f.id \in Words => f.settled = row[f.id].settled /\ ~row[f.id].processed
      BY <1>0, <3>1 DEF ListAgrees
    <3>3. Kept(f.id) \/ Closes(f.id) \/ Binds(f.id) \/ Writes(f.id) BY <1>0, <3>1, RowMoves
    <3>4. ~Binds(f.id) BY <1>4 DEF Binds
    <3>5. ~Writes(f.id) BY <3>2 DEF Writes
    <3> QED BY <3>2, <3>3, <3>4, <3>5 DEF Kept, Closes
  <2> QED BY <1>0, <1>2, <1>4, <2>1 DEF ListAgrees
<1> QED BY <1>0, <1>3, <1>4, ListMoves

\* What a step does with the update in hand: it leaves it; it has none any
\* more; it shows one that opens no turn; it takes up a message that has no
\* turn, or one that is bound; it gives it to its turn, or to another that is
\* resumed; it has what the turn answered; it sends it; it lets go of it with
\* statements to write; or it writes one.
Same == DrainIs(drain.pc, drain.at, drain.work, drain.on, drain.todo)
Idles == drain'.pc \in {"off", "next"} /\ drain'.todo = <<>>
Shows(e) == TakesUp(e) /\ e.id \notin Words /\ DrainIs("serving", e.id, None, None, <<>>)
Takes(e) == /\ Bind(e) /\ \E work \in Update : /\ row'[e.id].work = work
                                            /\ DrainIs("bound", e.id, work, None, <<>>)
Retakes(e) ==
  /\ Recover(e) /\ e.work \in Update
  /\ \/ DrainIs("bound", e.id, e.work, None, <<>>)
     \/ /\ turn[e.work].status \in {"continuable", "done"}
        /\ \/ \E todo : DrainIs("next", e.id, e.work, None, todo)
           \/ DrainIs("made", e.id, e.work, e.work, <<>>)
Gives ==
  /\ Run \/ Resume
  /\ \E t \in Update :
       /\ turn'[t].status = "running" /\ turn'[t].delivery \in {"pending", "none"}
       /\ DrainIs("running", drain.at, drain.work, t, <<>>)
       /\ t # drain.work => {t, drain.work} \subseteq astray' /\ kind[drain.at] = "resumption"
Puts == /\ Asks /\ drain.work \in Update
        /\ turn'[drain.work].status = "done" /\ turn'[drain.work].delivery = "pending"
        /\ DrainIs("made", drain.at, drain.work, drain.work, <<>>)
Declines == /\ DeadRoute /\ drain.work \in Update
            /\ \/ turn[drain.work].status = "continuable"
               \/ kind[drain.at] = "resumption" /\ drain.work \in astray'
            /\ DrainIs("refused", drain.at, drain.work, drain.work, <<>>)
Answers == /\ drain.pc = "running" /\ (\E s \in {"continuable", "done"} : RunEnds(s))
           /\ DrainIs("made", drain.at, drain.work, drain.on, <<>>)
Tries == /\ drain.pc \in {"made", "refused"} /\ DrainSends
         /\ DrainIs("sending", drain.at, drain.work, drain.on, <<>>)
Leaves ==
  /\ \/ Enqueue /\ Started(drain.work)'
     \/ /\ drain.pc \in {"running", "refused", "made", "sending"}
        /\ DrainSends \/ (\E s \in Ending : RunEnds(s)) \/ (\E o : DrainHears(o))
  /\ drain.pc \in AtWork /\ \E todo : DrainIs("next", drain.at, drain.work, drain.on, todo)
WritesOne == /\ DrainWrites /\ drain.todo # <<>>
             /\ DrainIs(drain.pc, drain.at, drain.work, drain.on, Tail(drain.todo))

LEMMA HandMoves ==
  ASSUME TypeOK, HandAgrees, Next
  PROVE  \/ Same \/ Idles \/ (\E e : Shows(e) \/ Takes(e) \/ Retakes(e))
         \/ Gives \/ Puts \/ Declines \/ Answers \/ Tries \/ Leaves \/ WritesOne
<1> DEFINE Goal == \/ Same \/ Idles \/ (\E e : Shows(e) \/ Takes(e) \/ Retakes(e))
                   \/ Gives \/ Puts \/ Declines \/ Answers \/ Tries \/ Leaves \/ WritesOne
<1> SUFFICES Goal OBVIOUS
<1>0. drain \in Drain /\ row \in [Update -> Row] BY DEF TypeOK
<1>a. ASSUME drain' = drain PROVE Same BY <1>a DEF Same, DrainIs
<1>b. ASSUME NEW rows, drain' = Drained(rows), rows \in [Update -> Row] PROVE Idles
  BY <1>b, DrainedType DEF Idles
<1>c. ASSUME drain' = Scheduled(row) PROVE Same \/ Idles
  <2>1. drain.pc # "off" => drain' = [drain EXCEPT !.again = TRUE] BY <1>c DEF Scheduled
  <2>2. drain.pc = "off" => drain' = Drained(row) BY <1>c DEF Scheduled
  <2>3. drain' = [drain EXCEPT !.again = TRUE] => Same BY <1>0 DEF Same, DrainIs, Drain
  <2> QED BY <1>0, <1>b, <2>1, <2>2, <2>3
<1>d. ASSUME NEW todo, drain' = LetGo(todo) PROVE DrainIs("next", drain.at, drain.work, drain.on, todo)
  BY <1>0, <1>d DEF LetGo, DrainIs, Drain
<1>e. ASSUME NEW pc, drain' = [drain EXCEPT !.pc = pc]
      PROVE  DrainIs(pc, drain.at, drain.work, drain.on, drain.todo)
  BY <1>0, <1>e DEF DrainIs, Drain
<1>f. ASSUME NEW e, TakesUp(e) PROVE /\ RestOf(e) \in Drain /\ RestOf(e).pc = "next" /\ RestOf(e).todo = <<>>
                                     /\ RestOf(e).at = None /\ RestOf(e).work = None /\ RestOf(e).on = None
  BY <1>0, <1>f, RestType DEF TakesUp, Yielded
<1>1. CASE Connect \/ PollDone
  <2>1. drain' = Scheduled(row) BY <1>1 DEF Connect, PollDone
  <2> QED BY <1>c, <2>1
<1>2. ASSUME NEW u \in Update, ControlDone(u) PROVE Goal
  <2>1. row' \in [Update -> Row] BY TypesOfRowsStep DEF TypesOfRows
  <2>2. drain' = drain \/ drain' = Drained(row') BY <1>2 DEF ControlDone
  <2> QED BY <1>a, <1>b, <2>1, <2>2
<1>3. CASE DrainEnds
  <2>1. drain' = Drained(row) \/ drain' = NoDrain BY <1>3 DEF DrainEnds
  <2> QED BY <1>0, <1>b, <2>1, NoDrainType DEF Idles
<1>4. ASSUME NEW e, Skips(e) \/ Refuse(e) PROVE Goal
  <2>1. TakesUp(e) /\ drain' = RestOf(e) BY <1>4 DEF Skips, Refuse
  <2> QED BY <1>f, <2>1 DEF Idles
<1>5. ASSUME NEW e, Serve(e) PROVE Goal
  <2>1. TakesUp(e) /\ drain' = [RestOf(e) EXCEPT !.pc = "serving", !.at = e.id] /\ e.id \notin Words
    BY <1>5 DEF Serve, Words
  <2>2. DrainIs("serving", e.id, None, None, <<>>) BY <1>f, <2>1 DEF DrainIs, Drain
  <2> QED BY <2>1, <2>2 DEF Shows
<1>6. CASE Served
  <2>1. drain' = LetGo(<<>>) BY <1>6 DEF Served
  <2> QED BY <1>d, <2>1 DEF Idles, DrainIs
<1>7. ASSUME NEW e, Bind(e) PROVE Goal
  <2>1. PICK target \in Targets(e.id) \cup Unnamed(e.id) :
          /\ row' = [row EXCEPT ![e.id].work = IF target = None THEN e.id ELSE target]
          /\ drain' = [RestOf(e) EXCEPT !.pc = "bound", !.at = e.id,
                         !.work = IF target = None THEN e.id ELSE target]
    BY <1>7 DEF Bind
  <2> DEFINE work == IF target = None THEN e.id ELSE target
  <2>2. e.id \in Update /\ TakesUp(e) BY <1>7, TakenUp DEF Bind
  <2>3. work \in Update BY <2>2 DEF Targets, Unnamed, Continuable
  <2>4. /\ row' = [row EXCEPT ![e.id].work = work]
        /\ drain' = [RestOf(e) EXCEPT !.pc = "bound", !.at = e.id, !.work = work]
    BY <2>1
  <2> HIDE DEF work
  <2>5. row'[e.id].work = work BY <1>0, <2>2, <2>4, RowFields
  <2>6. DrainIs("bound", e.id, work, None, <<>>) BY <1>f, <2>2, <2>4 DEF DrainIs, Drain
  <2> QED BY <1>7, <2>3, <2>5, <2>6 DEF Takes
<1>8. ASSUME NEW e, Recover(e) PROVE Goal
  <2>1. e.work \in Update BY <1>8, TakenUp DEF Recover
  <2>2. \/ DrainIs("next", None, None, None, <<>>)
        \/ DrainIs("bound", e.id, e.work, None, <<>>)
        \/ /\ turn[e.work].status \in {"continuable", "done"}
           /\ \/ \E todo : DrainIs("next", e.id, e.work, None, todo)
              \/ DrainIs("made", e.id, e.work, e.work, <<>>)
    BY <1>8, RecoverFields
  <2>3. DrainIs("next", None, None, None, <<>>) => Idles BY DEF DrainIs, Idles
  <2> QED BY <1>8, <2>1, <2>2, <2>3 DEF Retakes
<1>9. CASE Enqueue \/ Run
  <2>1. PICK status \in {"runnable", "running"} : turn' = [turn EXCEPT ![drain.work] = Opened(status)]
    BY <1>9 DEF Enqueue, Run
  <2>2. drain.pc = "bound" /\ drain.work \in Update
    BY <1>9 DEF Enqueue, Run, HandAgrees, InHand, AtWork
  <2>3. turn'[drain.work] = Opened(status) BY <2>1, <2>2 DEF TypeOK
  <2>4. Started(drain.work)' \/ drain'.work # drain.work BY <2>3 DEF Opened, Started
  <2>5. CASE Enqueue
    <3>1. DrainIs("next", drain.at, drain.work, drain.on, Finish) BY <1>d, <2>5 DEF Enqueue
    <3>2. Started(drain.work)' BY <2>4, <3>1 DEF DrainIs
    <3> QED BY <2>2, <2>5, <3>1, <3>2 DEF Leaves, AtWork
  <2>6. CASE Run
    <3>1. drain' = [drain EXCEPT !.pc = "running", !.on = drain.work] /\ drain.todo = <<>>
      BY <2>6 DEF Run, Yielded
    <3>2. DrainIs("running", drain.at, drain.work, drain.work, <<>>) BY <1>0, <3>1 DEF DrainIs, Drain
    <3>3. turn' = [turn EXCEPT ![drain.work] = Opened("running")] BY <2>6 DEF Run
    <3>4. turn'[drain.work].status = "running" /\ turn'[drain.work].delivery = "pending"
      BY <2>2, <3>3 DEF Opened, TypeOK
    <3> QED BY <2>2, <2>6, <3>2, <3>4 DEF Gives
  <2> QED BY <1>9, <2>5, <2>6
<1>10. CASE Resume
  <2>1. PICK t \in Targets(drain.at) \ {None} :
          /\ turn' = [turn EXCEPT ![t] = [status |-> "running", lease |-> @.lease + 1, delivery |-> "none"]]
          /\ drain' = [drain EXCEPT !.pc = "running", !.on = t]
          /\ astray' = IF t = drain.work THEN astray ELSE astray \cup {t, drain.work}
    BY <1>10 DEF Resume, GoesTo
  <2>2. t \in Update /\ kind[drain.at] = "resumption" BY DEF Targets, Unnamed, Continuable
  <2>3. drain.todo = <<>> BY <1>10 DEF Resume, Yielded
  <2>4. DrainIs("running", drain.at, drain.work, t, <<>>) BY <1>0, <2>1, <2>3 DEF DrainIs, Drain
  <2>5. turn'[t] = [status |-> "running", lease |-> turn[t].lease + 1, delivery |-> "none"]
    BY <2>1, <2>2 DEF TypeOK
  <2>6. turn'[t].status = "running" /\ turn'[t].delivery = "none" BY <2>5
  <2>7. t # drain.work => {t, drain.work} \subseteq astray' BY <2>1
  <2> QED BY <1>10, <2>2, <2>4, <2>6, <2>7 DEF Gives
<1>19. CASE Asks
  <2>1. /\ turn' = [turn EXCEPT ![drain.work] = Opened("done")] /\ drain.todo = <<>>
        /\ drain' = [drain EXCEPT !.pc = "made", !.on = drain.work]
    BY <1>19 DEF Asks, Yielded
  <2>2. drain.work \in Update BY <1>19 DEF Asks, HandAgrees, InHand, AtWork
  <2>3. DrainIs("made", drain.at, drain.work, drain.work, <<>>) BY <1>0, <2>1 DEF DrainIs, Drain
  <2>4. turn'[drain.work].status = "done" /\ turn'[drain.work].delivery = "pending"
    BY <2>1, <2>2 DEF Opened, TypeOK
  <2> QED BY <1>19, <2>2, <2>3, <2>4 DEF Puts
<1>20. CASE DeadRoute
  <2>1. PICK t \in Targets(drain.at) \ {None} :
          astray' = IF t = drain.work THEN astray ELSE astray \cup {t, drain.work}
    BY <1>20 DEF DeadRoute, GoesTo
  <2>2. turn[t].status = "continuable" /\ kind[drain.at] = "resumption" BY DEF Targets, Continuable
  <2>3. drain.todo = <<>> /\ drain' = [drain EXCEPT !.pc = "refused", !.on = drain.work]
    BY <1>20 DEF DeadRoute, Yielded
  <2>4. drain.work \in Update BY <1>20 DEF DeadRoute, HandAgrees, InHand, AtWork
  <2>5. DrainIs("refused", drain.at, drain.work, drain.work, <<>>) BY <1>0, <2>3 DEF DrainIs, Drain
  <2>6. turn[drain.work].status = "continuable" \/ drain.work \in astray' BY <2>1, <2>2
  <2> QED BY <1>20, <2>2, <2>4, <2>5, <2>6 DEF Declines
<1>11. CASE Gone
  <2>1. drain' = LetGo(<<>>) BY <1>11 DEF Gone
  <2> QED BY <1>d, <2>1 DEF Idles, DrainIs
<1>12. ASSUME NEW s \in Ending, RunEnds(s) PROVE Goal
  <2>1. drain.pc = "running" /\ drain.todo = <<>> BY <1>12 DEF RunEnds, Yielded
  <2>2. drain' = LetGo(Finish) \/ (drain' = [drain EXCEPT !.pc = "made"] /\ s # "waiting")
    BY <1>12 DEF RunEnds
  <2>3. s # "waiting" => s \in {"continuable", "done"} BY DEF Ending
  <2> QED BY <1>12, <1>d, <1>e, <2>1, <2>2, <2>3 DEF Leaves, Answers, AtWork
<1>13. CASE DrainSends
  <2>1. drain.pc \in {"made", "refused"} /\ drain.todo = <<>> BY <1>13 DEF DrainSends, Yielded
  <2>2. drain' = LetGo(Then(AlreadyThere(Plan(drain.work)))) \/ drain' = [drain EXCEPT !.pc = "sending"]
    BY <1>13 DEF DrainSends
  <2> QED BY <1>13, <1>d, <1>e, <2>1, <2>2 DEF Leaves, Tries, AtWork
<1>14. ASSUME NEW o, DrainHears(o) PROVE Goal
  <2>1. drain.pc = "sending" /\ drain' = LetGo(Then(o)) BY <1>14 DEF DrainHears
  <2> QED BY <1>14, <1>d, <2>1 DEF Leaves, AtWork
<1>15. CASE DrainWrites
  <2>1. drain' = [drain EXCEPT !.todo = Tail(drain.todo)] /\ drain.todo # <<>> BY <1>15 DEF DrainWrites
  <2> QED BY <1>0, <1>15, <2>1 DEF WritesOne, DrainIs, Drain
<1>16. CASE Restart BY <1>16, NoDrainType DEF Restart, Idles
<1>17. CASE Send \/ Poll \/ Lanes
  BY <1>a, <1>17 DEF Send, Poll, Lanes, LaneSends, LaneWrites, LaneTakes, LaneEnds, LaneHears
<1>18. ASSUME NEW u, ServeControl(u) PROVE Goal
  <2>1. drain' = drain BY <1>18 DEF ServeControl
  <2> QED BY <1>a, <2>1
<1> HIDE DEF Goal
<1> QED
  BY <1>1, <1>2, <1>3, <1>4, <1>5, <1>6, <1>7, <1>8, <1>9, <1>10, <1>11, <1>12, <1>13, <1>14, <1>15,
     <1>16, <1>17, <1>18, <1>19, <1>20
  DEF Next, Polling, DrainsUpdate, DrainsWork

\* What is in hand stays what its row says it is.
LEMMA HandAgreesStep ==
  ASSUME TypeOK, Agrees, Next
  PROVE  HandAgrees' /\ Strays'
<1> DEFINE Goes(t) == turn'[t].status # "none"
           Went(u, t) == Goes(t) \/ (kind[u] = "resumption" /\ t \in astray')
           Busy == {"running", "refused", "made", "sending"}
           Ok(pc, at, work, on, todo) ==
             /\ pc \in AtWork \/ todo # <<>> => at \in Words /\ work \in Update /\ row'[at].work = work
             /\ pc \in AtWork => todo = <<>> /\ ~row'[at].processed
             /\ pc = "serving" => todo = <<>> /\ at \in Update \ Words
             /\ pc = "off" => todo = <<>>
             /\ pc \in Busy => on \in Update
             /\ pc = "running" => Goes(on)
             /\ todo # <<>> \/ pc \in Busy => Went(at, work)
             /\ pc \in Busy /\ on # work => {on, work} \subseteq astray'
<1>0. ListAgrees /\ HandAgrees /\ Strays /\ CommandsAgree /\ LaneAgrees BY DEF Agrees
<1>1. SUFFICES Ok(drain'.pc, drain'.at, drain'.work, drain'.on, drain'.todo)
  BY Onward DEF HandAgrees, Strays, InHand, Words, Begun, Started
<1>2. /\ \A t \in Update : Started(t) => Goes(t)
      /\ \A u, t \in Update : Begun(u, t) => Went(u, t)
      /\ astray \subseteq astray'
  BY <1>0, BegunStays, Onward DEF Started, Begun
<1> HIDE DEF Goes, Went
<1>3. ASSUME NEW u \in Words
      PROVE  /\ row[u].work \in Update => row'[u].work = row[u].work
             /\ ~row[u].processed /\ ~DrainWrites => ~row'[u].processed
  <2>1. Kept(u) \/ Closes(u) \/ Binds(u) \/ Writes(u) BY <1>0, RowMoves DEF Words
  <2> QED BY <2>1, NoneIsNoUpdate DEF Kept, Closes, Binds, Writes
<1>4. Words \subseteq Update BY DEF Words
<1>5. ~DrainWrites \/ drain.todo # <<>> BY DEF DrainWrites
<1>6. ASSUME NEW e, TakesUp(e)
      PROVE  /\ e.id \in Update /\ e.work = row[e.id].work /\ drain.todo = <<>>
             /\ e.id \in Words => ~row[e.id].processed
  BY <1>0, <1>6, TakenUp DEF ListAgrees
<1>7. ASSUME Same PROVE Ok(drain'.pc, drain'.at, drain'.work, drain'.on, drain'.todo)
  <2>1. Ok(drain.pc, drain.at, drain.work, drain.on, drain.todo)
    BY <1>0, <1>2, <1>3, <1>4, <1>5 DEF HandAgrees, Strays, InHand, AtWork
  <2> QED BY <1>7, <2>1 DEF Same, DrainIs
<1>8. ASSUME Idles PROVE Ok(drain'.pc, drain'.at, drain'.work, drain'.on, drain'.todo)
  BY <1>8 DEF Idles, AtWork
<1>9. ASSUME NEW e, Shows(e) PROVE Ok(drain'.pc, drain'.at, drain'.work, drain'.on, drain'.todo)
  BY <1>6, <1>9 DEF Shows, DrainIs, AtWork
<1>10. ASSUME NEW e, Takes(e) PROVE Ok(drain'.pc, drain'.at, drain'.work, drain'.on, drain'.todo)
  <2>1. TakesUp(e) /\ e.id \in Words BY <1>10, TakenUp DEF Takes, Bind, Words
  <2>2. PICK work \in Update : row'[e.id].work = work /\ DrainIs("bound", e.id, work, None, <<>>)
    BY <1>10 DEF Takes
  <2>3. ~row'[e.id].processed BY <1>3, <1>5, <1>6, <2>1
  <2>4. Ok("bound", e.id, work, None, <<>>) BY <2>1, <2>2, <2>3 DEF AtWork
  <2> QED BY <2>2, <2>4 DEF DrainIs
<1>11. ASSUME NEW e, Retakes(e) PROVE Ok(drain'.pc, drain'.at, drain'.work, drain'.on, drain'.todo)
  <2>1. TakesUp(e) /\ e.id \in Words /\ e.work \in Update BY <1>11, TakenUp DEF Retakes, Recover, Words
  <2>2. row'[e.id].work = e.work /\ ~row'[e.id].processed BY <1>3, <1>5, <1>6, <2>1
  <2>3. CASE DrainIs("bound", e.id, e.work, None, <<>>) BY <2>1, <2>2, <2>3 DEF DrainIs, AtWork
  <2>4. CASE /\ turn[e.work].status \in {"continuable", "done"}
             /\ \E todo : DrainIs("next", e.id, e.work, None, todo)
    <3>1. PICK todo : DrainIs("next", e.id, e.work, None, todo) BY <2>4
    <3>2. Goes(e.work) BY <1>2, <2>1, <2>4 DEF Started
    <3> QED BY <2>1, <2>2, <3>1, <3>2 DEF DrainIs, AtWork, Went
  <2>5. CASE turn[e.work].status \in {"continuable", "done"} /\ DrainIs("made", e.id, e.work, e.work, <<>>)
    <3>2. Goes(e.work) BY <1>2, <2>1, <2>5 DEF Started
    <3> QED BY <2>1, <2>2, <2>5, <3>2 DEF DrainIs, AtWork, Went
  <2> QED BY <1>11, <2>3, <2>4, <2>5 DEF Retakes
<1>12. ASSUME Gives PROVE Ok(drain'.pc, drain'.at, drain'.work, drain'.on, drain'.todo)
  <2>1. drain.pc = "bound" /\ drain.todo = <<>> BY <1>12 DEF Gives, Run, Resume, Yielded
  <2>2. PICK t \in Update :
          /\ Goes(t) /\ DrainIs("running", drain.at, drain.work, t, <<>>)
          /\ t # drain.work => {t, drain.work} \subseteq astray' /\ kind[drain.at] = "resumption"
    BY <1>12 DEF Gives, Started, Goes
  <2>3. /\ drain.at \in Words /\ drain.work \in Update /\ row'[drain.at].work = drain.work
        /\ ~row'[drain.at].processed
    BY <1>0, <1>3, <1>5, <2>1 DEF HandAgrees, InHand, AtWork
  <2>4. Ok("running", drain.at, drain.work, t, <<>>) BY <2>2, <2>3 DEF AtWork, Went
  <2> QED BY <2>2, <2>4 DEF DrainIs
<1>16. ASSUME Puts \/ Declines PROVE Ok(drain'.pc, drain'.at, drain'.work, drain'.on, drain'.todo)
  <2>1. drain.pc = "bound" /\ drain.todo = <<>> BY <1>16 DEF Puts, Declines, Asks, DeadRoute, Yielded
  <2>2. PICK pc \in {"made", "refused"} : DrainIs(pc, drain.at, drain.work, drain.work, <<>>)
    BY <1>16 DEF Puts, Declines
  <2>3. /\ drain.at \in Words /\ drain.work \in Update /\ row'[drain.at].work = drain.work
        /\ ~row'[drain.at].processed
    BY <1>0, <1>3, <1>5, <2>1 DEF HandAgrees, InHand, AtWork
  <2>4. Went(drain.at, drain.work)
    <3>1. CASE Puts BY <3>1 DEF Puts, Went, Goes
    <3>2. CASE Declines BY <1>2, <2>3, <3>2 DEF Declines, Started, Went
    <3> QED BY <1>16, <3>1, <3>2
  <2>5. Ok(pc, drain.at, drain.work, drain.work, <<>>) BY <2>3, <2>4 DEF AtWork
  <2> QED BY <2>2, <2>5 DEF DrainIs
<1>13. ASSUME Answers \/ Tries PROVE Ok(drain'.pc, drain'.at, drain'.work, drain'.on, drain'.todo)
  <2>1. drain.pc \in Busy /\ drain.todo = <<>>
    BY <1>0, <1>13 DEF Answers, Tries, HandAgrees, AtWork
  <2>2. /\ drain.at \in Words /\ drain.work \in Update /\ row'[drain.at].work = drain.work
        /\ ~row'[drain.at].processed /\ drain.on \in Update /\ Went(drain.at, drain.work)
        /\ drain.on # drain.work => {drain.on, drain.work} \subseteq astray'
    BY <1>0, <1>2, <1>3, <1>4, <1>5, <2>1 DEF HandAgrees, Strays, InHand, AtWork
  <2>3. ASSUME NEW pc \in Busy \ {"running"} PROVE Ok(pc, drain.at, drain.work, drain.on, <<>>)
    BY <2>2, <2>3
  <2> QED BY <1>13, <2>3 DEF Answers, Tries, DrainIs
<1>14. ASSUME Leaves PROVE Ok(drain'.pc, drain'.at, drain'.work, drain'.on, drain'.todo)
  <2>1. PICK todo : DrainIs("next", drain.at, drain.work, drain.on, todo) BY <1>14 DEF Leaves
  <2>2. drain.at \in Words /\ drain.work \in Update /\ row'[drain.at].work = drain.work
    BY <1>0, <1>3, <1>14 DEF Leaves, HandAgrees, InHand
  <2>3. Went(drain.at, drain.work)
    <3>1. CASE drain.pc \in Busy BY <1>0, <1>2, <1>4, <2>2, <3>1 DEF HandAgrees
    <3>2. CASE Started(drain.work)' BY <2>1, <3>2 DEF DrainIs, Started, Went, Goes
    <3> QED BY <1>14, <3>1, <3>2 DEF Leaves
  <2>4. Ok("next", drain.at, drain.work, drain.on, todo) BY <2>2, <2>3 DEF AtWork
  <2> QED BY <2>1, <2>4 DEF DrainIs
<1>15. ASSUME WritesOne PROVE Ok(drain'.pc, drain'.at, drain'.work, drain'.on, drain'.todo)
  <2>1. drain.todo # <<>> BY <1>15 DEF WritesOne
  <2>2. drain.pc \notin AtWork /\ drain.pc \notin {"off", "serving"} BY <1>0, <2>1 DEF HandAgrees
  <2>3. /\ drain.at \in Words /\ drain.work \in Update /\ row'[drain.at].work = drain.work
        /\ Went(drain.at, drain.work)
    BY <1>0, <1>2, <1>3, <1>4, <2>1 DEF HandAgrees, InHand
  <2>4. Ok(drain.pc, drain.at, drain.work, drain.on, Tail(drain.todo)) BY <2>2, <2>3 DEF AtWork
  <2> QED BY <1>15, <2>4 DEF WritesOne, DrainIs
<1> HIDE DEF Ok
<1> QED
  BY <1>0, <1>7, <1>8, <1>9, <1>10, <1>11, <1>12, <1>13, <1>14, <1>15, <1>16, HandMoves

LEMMA CommandsAgreeStep ==
  ASSUME TypeOK, CommandsAgree, Next
  PROVE  CommandsAgree'
<1>1. kind' = kind BY Onward
<1>2. ASSUME poller'.queue \subseteq poller.queue PROVE CommandsAgree' BY <1>1, <1>2 DEF CommandsAgree
<1>3. ASSUME poller' = poller \/ \E pc : poller' = [poller EXCEPT !.pc = pc] PROVE CommandsAgree'
  <2>1. poller'.queue = poller.queue BY <1>3 DEF TypeOK, Poller
  <2> QED BY <1>2, <2>1
<1>4. CASE Poll
  <2>1. poller'.queue \subseteq {u \in Update : kind[u] = "control"} BY <1>4 DEF Poll
  <2> QED BY <1>1, <2>1 DEF CommandsAgree
<1>5. ASSUME NEW u, ServeControl(u) PROVE CommandsAgree' BY <1>3, <1>5 DEF ServeControl
<1>6. ASSUME NEW u, ControlDone(u) PROVE CommandsAgree'
  <2>1. poller'.queue \subseteq poller.queue BY <1>6 DEF ControlDone
  <2> QED BY <1>2, <2>1
<1>7. CASE Restart
  <2>1. poller'.queue \subseteq poller.queue BY <1>7 DEF Restart
  <2> QED BY <1>2, <2>1
<1>8. CASE Send \/ Connect \/ PollDone BY <1>3, <1>8 DEF Send, Connect, PollDone, sides
<1>9. ASSUME NEW e, Skips(e) \/ Refuse(e) \/ Serve(e) \/ Bind(e) \/ Recover(e) PROVE poller' = poller
  BY <1>9 DEF Skips, Refuse, Serve, Bind, Recover, sides
<1>10. ASSUME NEW s, RunEnds(s) \/ LaneEnds(s) \/ DrainHears(s) \/ LaneHears(s) \/ LaneTakes(s)
       PROVE  poller' = poller
  BY <1>10 DEF RunEnds, LaneEnds, DrainHears, LaneHears, LaneTakes, sides
<1>11. ASSUME \/ DrainEnds \/ Served \/ Enqueue \/ Run \/ Resume \/ Gone \/ DeadRoute \/ Asks \/ DrainSends \/ DrainWrites
              \/ LaneSends \/ LaneWrites
       PROVE  poller' = poller
  BY <1>11 DEF DrainEnds, Served, Enqueue, Run, Resume, Gone, DeadRoute, Asks, DrainSends, DrainWrites, LaneSends,
     LaneWrites, sides
<1> QED
  BY <1>3, <1>4, <1>5, <1>6, <1>7, <1>8, <1>9, <1>10, <1>11
  DEF Next, Polling, DrainsUpdate, DrainsWork, Lanes

\* What a step does with the turn the lane holds: it takes one; it has ended
\* the lease, or is sending; it lets go of it, with what it has to write or
\* with nothing; it writes.
LaneIs(pc, on, todo) == lane'.pc = pc /\ lane'.on = on /\ lane'.todo = todo

LEMMA LaneMoves ==
  ASSUME TypeOK, Next
  PROVE  \/ LaneIs(lane.pc, lane.on, lane.todo)
         \/ LaneIs("idle", None, <<>>)
         \/ \E t \in Update : LaneTakes(t) /\ Started(t) /\ LaneIs("running", t, <<>>)
         \/ \E pc \in {"idle", "made", "sending"} : \E todo :
              /\ lane.pc # "idle" /\ lane.todo = <<>> /\ LaneIs(pc, lane.on, todo)
              /\ pc # "idle" => todo = <<>> /\ (pc = "sending" => LaneSends)
         \/ LaneWrites /\ LaneIs(lane.pc, lane.on, Tail(lane.todo))
<1>0. lane \in Lane BY DEF TypeOK
<1>1. CASE lane' = lane BY <1>1 DEF LaneIs
<1>2. CASE Restart BY <1>2 DEF Restart, LaneIs, NoLane
<1>3. ASSUME NEW t \in Update, LaneTakes(t)
      PROVE  LaneTakes(t) /\ Started(t) /\ LaneIs("running", t, <<>>)
  <2>1. lane' = [lane EXCEPT !.pc = "running", !.on = t] /\ lane.todo = <<>> /\ Started(t)
    BY <1>3 DEF LaneTakes, Yielded, Started
  <2> QED BY <1>0, <1>3, <2>1 DEF LaneIs, Lane
<1>4. ASSUME NEW pc, lane' = [lane EXCEPT !.pc = pc] PROVE LaneIs(pc, lane.on, lane.todo)
  BY <1>0, <1>4 DEF LaneIs, Lane
<1>5. ASSUME NEW todo, lane' = [lane EXCEPT !.pc = "idle", !.todo = todo]
      PROVE  LaneIs("idle", lane.on, todo)
  BY <1>0, <1>5 DEF LaneIs, Lane
<1>6. ASSUME NEW s, LaneEnds(s)
      PROVE  \E pc \in {"idle", "made"} : lane.pc # "idle" /\ lane.todo = <<>> /\ LaneIs(pc, lane.on, <<>>)
  <2>1. PICK pc \in {"idle", "made"} : lane' = [lane EXCEPT !.pc = pc] BY <1>6 DEF LaneEnds
  <2>2. lane.pc = "running" /\ lane.todo = <<>> BY <1>6 DEF LaneEnds, Yielded
  <2> QED BY <1>4, <2>1, <2>2
<1>7. CASE LaneSends
  <2>1. lane.pc = "made" /\ lane.todo = <<>> BY <1>7 DEF LaneSends, Yielded
  <2>2. \/ lane' = [lane EXCEPT !.pc = "sending"]
        \/ lane' = [lane EXCEPT !.pc = "idle", !.todo = LaneThen(AlreadyThere(Plan(lane.on)))]
    BY <1>7 DEF LaneSends
  <2> QED BY <1>4, <1>5, <1>7, <2>1, <2>2
<1>8. ASSUME NEW o, LaneHears(o)
      PROVE  lane.pc # "idle" /\ lane.todo = <<>> /\ LaneIs("idle", lane.on, LaneThen(o))
  <2>1. lane.pc = "sending" /\ lane.todo = <<>> /\ lane' = [lane EXCEPT !.pc = "idle", !.todo = LaneThen(o)]
    BY <1>8 DEF LaneHears, Yielded
  <2> QED BY <1>5, <2>1
<1>9. CASE LaneWrites
  <2>1. lane' = [lane EXCEPT !.todo = Tail(lane.todo)] BY <1>9 DEF LaneWrites
  <2>2. LaneIs(lane.pc, lane.on, Tail(lane.todo)) BY <1>0, <2>1 DEF LaneIs, Lane
  <2> QED BY <1>9, <2>2
<1>10. ASSUME NEW u, ServeControl(u) \/ ControlDone(u) PROVE lane' = lane
  BY <1>10 DEF ServeControl, ControlDone
<1>11. ASSUME NEW e, Skips(e) \/ Refuse(e) \/ Serve(e) \/ Bind(e) \/ Recover(e) PROVE lane' = lane
  BY <1>11 DEF Skips, Refuse, Serve, Bind, Recover
<1>12. ASSUME NEW s, RunEnds(s) \/ DrainHears(s) PROVE lane' = lane BY <1>12 DEF RunEnds, DrainHears
<1>13. ASSUME \/ Send \/ Connect \/ Poll \/ PollDone \/ DrainEnds \/ Served \/ Enqueue \/ Run \/ Resume
              \/ Gone \/ DeadRoute \/ Asks \/ DrainSends \/ DrainWrites
       PROVE  lane' = lane
  BY <1>13 DEF Send, Connect, Poll, PollDone, DrainEnds, Served, Enqueue, Run, Resume, Gone, DeadRoute, Asks,
     DrainSends, DrainWrites
<1>14. ASSUME NEW s, LaneEnds(s)
       PROVE  \E pc \in {"idle", "made", "sending"} : \E todo :
                /\ lane.pc # "idle" /\ lane.todo = <<>> /\ LaneIs(pc, lane.on, todo)
                /\ pc # "idle" => todo = <<>> /\ (pc = "sending" => LaneSends)
  BY <1>6, <1>14
<1>15. ASSUME NEW o, LaneHears(o)
       PROVE  \E pc \in {"idle", "made", "sending"} : \E todo :
                /\ lane.pc # "idle" /\ lane.todo = <<>> /\ LaneIs(pc, lane.on, todo)
                /\ pc # "idle" => todo = <<>> /\ (pc = "sending" => LaneSends)
  BY <1>8, <1>15
<1> QED
  BY <1>1, <1>2, <1>3, <1>7, <1>9, <1>10, <1>11, <1>12, <1>13, <1>14, <1>15
  DEF Next, Polling, DrainsUpdate, DrainsWork, Lanes

LEMMA LaneAgreesStep ==
  ASSUME TypeOK, HandAgrees, LaneAgrees, Next
  PROVE  LaneAgrees'
<1> DEFINE Goes(t) == turn'[t].status # "none"
           Ok(pc, on, todo) == /\ pc # "idle" => on \in Update /\ todo = <<>> /\ Goes(on)
                               /\ pc # "idle" \/ todo # <<>> => on \in away'
<1>1. SUFFICES Ok(lane'.pc, lane'.on, lane'.todo) BY DEF LaneAgrees, Started
<1>2. /\ \A t \in Update : Started(t) => Goes(t)
      /\ away \subseteq away'
  BY BegunStays, Onward DEF Started
<1> HIDE DEF Goes
<1>3. Ok(lane.pc, lane.on, lane.todo) BY <1>2 DEF LaneAgrees
<1>4. ASSUME NEW t \in Update, LaneTakes(t), Started(t) PROVE Ok("running", t, <<>>)
  <2>1. t \in away' BY <1>4 DEF LaneTakes
  <2> QED BY <1>2, <1>4, <2>1
<1>5. ASSUME NEW pc, NEW todo, lane.pc # "idle", pc # "idle" => todo = <<>> PROVE Ok(pc, lane.on, todo)
  BY <1>2, <1>5 DEF LaneAgrees
<1>6. ASSUME LaneWrites PROVE Ok(lane.pc, lane.on, Tail(lane.todo))
  <2>1. lane.todo # <<>> BY <1>6 DEF LaneWrites
  <2> QED BY <1>2, <2>1 DEF LaneAgrees
<1>7. Ok("idle", None, <<>>) OBVIOUS
<1> HIDE DEF Ok
<1> QED BY <1>3, <1>4, <1>5, <1>6, <1>7, LaneMoves DEF LaneIs

\* A turn has the words of its own update, once.
LEMMA WordsAreReadStep ==
  ASSUME TypeOK, Agrees, Next
  PROVE  WordsAreRead'
<1> DEFINE Goes(t) == turn'[t].status # "none"
<1>0. HandAgrees /\ LaneAgrees /\ RowsAgree /\ WordsAreRead BY DEF Agrees
<1>1. SUFFICES ASSUME NEW u \in Update, kind[u] = "text" PROVE read'[u] = IF Goes(u) THEN 1 ELSE 0
  BY Onward DEF WordsAreRead, Started
<1>2. read[u] = IF Started(u) THEN 1 ELSE 0 BY <1>0, <1>1 DEF WordsAreRead
<1>3. CASE Begins
  <2>1. drain.at \in Words /\ drain.work \in Update /\ row[drain.at].work = drain.work
    BY <1>0, <1>3 DEF Begins, HandAgrees, InHand, AtWork
  <2>2. drain.work = drain.at BY <1>0, <1>3, <2>1 DEF Begins, RowsAgree, Words
  <2>3. read'[u] = IF u = drain.at THEN read[u] + 1 ELSE read[u]
    BY <1>3 DEF Begins, Reads, TypeOK
  <2>4. Goes(u) <=> Started(u) \/ u = drain.work BY <1>3 DEF Begins, Started
  <2>5. ~Started(drain.work) BY <1>3 DEF Begins
  <2> QED BY <1>2, <2>2, <2>3, <2>4, <2>5
<1>4. CASE NoneBegins
  <2>1. read'[u] = read[u] BY <1>1, <1>4 DEF NoneBegins, Reads, TypeOK
  <2>2. Goes(u) <=> Started(u) BY <1>4 DEF NoneBegins, Started
  <2> QED BY <1>2, <2>1, <2>2
<1>5. CASE BeginsUnread
  <2>1. drain.at \in Words /\ drain.work \in Update /\ row[drain.at].work = drain.work
    BY <1>0, <1>5 DEF BeginsUnread, HandAgrees, InHand, AtWork
  <2>2. drain.work = drain.at BY <1>0, <1>5, <2>1 DEF BeginsUnread, RowsAgree, Words
  <2>3. u # drain.work BY <1>1, <1>5, <2>2 DEF BeginsUnread
  <2>4. Goes(u) <=> Started(u) BY <1>5, <2>3 DEF BeginsUnread, Started
  <2> QED BY <1>2, <1>5, <2>4 DEF BeginsUnread
<1> QED BY <1>0, <1>3, <1>4, <1>5, StartsStep

LEMMA AgreesStep ==
  ASSUME TypeOK, Agrees, Next
  PROVE  TypeOK' /\ Agrees'
BY TypesStep, ListAgreesStep, HandAgreesStep, CommandsAgreeStep, LaneAgreesStep, RowsAgreeStep,
   WordsAreReadStep
DEF Agrees

----------------------------------------------------------------------------
(* No update is lost.                                                      *)

\* The server is never told of more than it has sent.
Held == EveryUpdateIsHeld /\ offset <= arrived + 1

\* What a step does to the body of an update.
LEMMA BodyMoves ==
  ASSUME TypeOK, ~Poll, Next, NEW u \in Update
  PROVE  \/ row'[u].body = row[u].body /\ (row[u].processed => row'[u].processed)
         \/ row'[u].body # "none" /\ row'[u].processed
<1> DEFINE Goal == \/ row'[u].body = row[u].body /\ (row[u].processed => row'[u].processed)
                   \/ row'[u].body # "none" /\ row'[u].processed
<1> SUFFICES Goal OBVIOUS
<1>0. row[u] \in Row /\ row \in [Update -> Row] BY DEF TypeOK
<1>1. ASSUME row' = row PROVE Goal BY <1>1
<1>2. ASSUME NEW v, row' = Processed(v) PROVE Goal
  <2>1. row'[u] = IF u = v THEN [row[u] EXCEPT !.processed = TRUE] ELSE row[u] BY <1>0, <1>2 DEF Processed
  <2>2. [row[u] EXCEPT !.processed = TRUE].body = row[u].body /\ [row[u] EXCEPT !.processed = TRUE].processed
    BY <1>0 DEF Row
  <2> QED BY <2>1, <2>2
<1>3. ASSUME NEW v, ControlDone(v) PROVE Goal BY <1>2, <1>3 DEF ControlDone
<1>4. CASE Served BY <1>2, <1>4 DEF Served
<1>5. ASSUME NEW e, Refuse(e) PROVE Goal
  <2>1. u # e.id => row'[u] = row[u] BY <1>0, <1>5 DEF Refuse
  <2>2. u = e.id => \/ row'[u] = [row[u] EXCEPT !.body = "stub", !.settled = TRUE, !.processed = TRUE]
                    \/ row'[u] = [row[u] EXCEPT !.body = "empty", !.processed = TRUE]
    BY <1>0, <1>5 DEF Refuse
  <2>3. u = e.id => row'[u].body # "none" /\ row'[u].processed BY <1>0, <2>2 DEF Row
  <2> QED BY <2>1, <2>3
<1>6. ASSUME NEW e, Bind(e) PROVE Goal
  <2>1. PICK work : row' = [row EXCEPT ![e.id].work = work] BY <1>6 DEF Bind
  <2>2. row'[u] = IF u = e.id THEN [row[u] EXCEPT !.work = work] ELSE row[u] BY <1>0, <2>1
  <2>3. /\ [row[u] EXCEPT !.work = work].body = row[u].body
        /\ [row[u] EXCEPT !.work = work].processed = row[u].processed
    BY <1>0 DEF Row
  <2> QED BY <2>2, <2>3
<1>7. CASE DrainWrites
  <2>1. CASE row' = [row EXCEPT ![drain.at].settled = TRUE]
    <3>1. row'[u] = IF u = drain.at THEN [row[u] EXCEPT !.settled = TRUE] ELSE row[u] BY <1>0, <2>1
    <3>2. /\ [row[u] EXCEPT !.settled = TRUE].body = row[u].body
          /\ [row[u] EXCEPT !.settled = TRUE].processed = row[u].processed
      BY <1>0 DEF Row
    <3> QED BY <3>1, <3>2
  <2>2. CASE row[drain.at].processed /\ row' = [row EXCEPT ![drain.at].body = "stub"]
    <3>1. row'[u] = IF u = drain.at THEN [row[u] EXCEPT !.body = "stub"] ELSE row[u] BY <1>0, <2>2
    <3>2. /\ [row[u] EXCEPT !.body = "stub"].body = "stub"
          /\ [row[u] EXCEPT !.body = "stub"].processed = row[u].processed
      BY <1>0 DEF Row
    <3> QED BY <2>2, <3>1, <3>2
  <2> QED BY <1>1, <1>2, <1>7, <2>1, <2>2 DEF DrainWrites
<1>8. ASSUME NEW v, ServeControl(v) \/ LaneTakes(v) PROVE Goal
  <2>1. row' = row BY <1>8 DEF ServeControl, LaneTakes
  <2> QED BY <1>1, <2>1
<1>9. ASSUME NEW e, Skips(e) \/ Serve(e) \/ Recover(e) PROVE Goal BY <1>1, <1>9 DEF Skips, Serve, Recover
<1>10. ASSUME NEW o, RunEnds(o) \/ LaneEnds(o) \/ DrainHears(o) \/ LaneHears(o) PROVE Goal
  BY <1>1, <1>10 DEF RunEnds, LaneEnds, DrainHears, LaneHears
<1>11. ASSUME \/ Send \/ Connect \/ PollDone \/ DrainEnds \/ Enqueue \/ Run \/ Resume \/ Gone \/ DeadRoute \/ Asks
              \/ DrainSends \/ LaneSends \/ LaneWrites \/ Restart
       PROVE  row' = row
  BY <1>11 DEF Send, Connect, PollDone, DrainEnds, Enqueue, Run, Resume, Gone, DeadRoute, Asks, DrainSends,
     LaneSends, LaneWrites, Restart
<1> HIDE DEF Goal
<1> QED
  BY <1>1, <1>3, <1>4, <1>5, <1>6, <1>7, <1>8, <1>9, <1>10, <1>11
  DEF Next, Polling, DrainsUpdate, DrainsWork, Lanes

LEMMA OffsetMoves ==
  ASSUME TypeOK, Next
  PROVE  Send \/ Poll \/ UNCHANGED <<arrived, offset>>
<1>1. ASSUME NEW u, ServeControl(u) \/ ControlDone(u) \/ LaneTakes(u) PROVE UNCHANGED <<arrived, offset>>
  BY <1>1 DEF ServeControl, ControlDone, LaneTakes, inboxVars
<1>2. ASSUME NEW e, Skips(e) \/ Refuse(e) \/ Serve(e) \/ Bind(e) \/ Recover(e)
      PROVE  UNCHANGED <<arrived, offset>>
  BY <1>2 DEF Skips, Refuse, Serve, Bind, Recover, inboxVars
<1>3. ASSUME NEW s, RunEnds(s) \/ LaneEnds(s) \/ DrainHears(s) \/ LaneHears(s)
      PROVE  UNCHANGED <<arrived, offset>>
  BY <1>3 DEF RunEnds, LaneEnds, DrainHears, LaneHears, inboxVars
<1>4. ASSUME \/ Connect \/ PollDone \/ DrainEnds \/ Served \/ Enqueue \/ Run \/ Resume \/ Gone \/ DeadRoute \/ Asks
             \/ DrainSends \/ DrainWrites \/ LaneSends \/ LaneWrites \/ Restart
      PROVE  UNCHANGED <<arrived, offset>>
  BY <1>4 DEF Connect, PollDone, DrainEnds, Served, Enqueue, Run, Resume, Gone, DeadRoute, Asks, DrainSends,
     DrainWrites, LaneSends, LaneWrites, Restart, inboxVars
<1> QED BY <1>1, <1>2, <1>3, <1>4 DEF Next, Polling, DrainsUpdate, DrainsWork, Lanes

LEMMA HeldStep ==
  ASSUME TypeOK, Held, Next
  PROVE  Held'
<1>0. /\ arrived \in 0 .. MaxUpdates /\ offset \in 1 .. MaxUpdates + 1 /\ MaxUpdates \in Nat
      /\ row \in [Update -> Row]
  BY Bounds DEF TypeOK
<1>1. /\ \A u \in 1 .. arrived : u < offset => row[u].body # "none"
      /\ \A u \in Update : row[u].body # "none" /\ ~row[u].processed => row[u].body = "raw"
      /\ offset <= arrived + 1
  BY DEF Held, EveryUpdateIsHeld, Pending
<1>2. SUFFICES
        /\ \A u \in 1 .. arrived' : u < offset' => row'[u].body # "none"
        /\ \A u \in Update : row'[u].body # "none" /\ ~row'[u].processed => row'[u].body = "raw"
        /\ offset' <= arrived' + 1
  BY DEF Held, EveryUpdateIsHeld, Pending
<1>3. CASE Poll
  <2> DEFINE batch    == {u \in Update : offset <= u /\ u <= arrived}
             accepted == {u \in batch : row[u].body = "none"}
  <2>1. PICK last \in batch : (\A u \in batch : u <= last) /\ offset' = After(last) BY <1>3 DEF Poll
  <2>2. /\ arrived' = arrived
        /\ row' = [u \in Update |-> IF u \in accepted THEN [row[u] EXCEPT !.body = "raw"] ELSE row[u]]
    BY <1>3 DEF Poll
  <2>3. last \in Update /\ last <= arrived /\ offset' = last + 1 BY <2>1 DEF After
  <2>4. \A u \in Update : /\ [row[u] EXCEPT !.body = "raw"].body = "raw"
                          /\ [row[u] EXCEPT !.body = "raw"].processed = row[u].processed
    BY <1>0 DEF Row
  <2>5. ASSUME NEW u \in Update
        PROVE  /\ u \in accepted => row'[u].body = "raw" /\ row'[u].processed = row[u].processed
               /\ u \notin accepted => row'[u] = row[u]
    BY <2>2, <2>4
  <2>6. ASSUME NEW u \in 1 .. arrived, u < offset' PROVE row'[u].body # "none"
    <3>1. u \in Update BY <1>0 DEF Update
    <3>2. CASE u < offset BY <1>1, <2>5, <3>1, <3>2
    <3>3. CASE offset <= u
      <4>1. u \in batch BY <3>1, <3>3
      <4> QED BY <2>5, <3>1, <4>1
    <3> QED BY <1>0, <3>2, <3>3
  <2>7. offset' <= arrived' + 1 BY <1>0, <2>2, <2>3 DEF Update
  <2>8. ASSUME NEW u \in Update, row'[u].body # "none", ~row'[u].processed PROVE row'[u].body = "raw"
    BY <1>1, <2>5, <2>8
  <2> QED BY <2>2, <2>6, <2>7, <2>8
<1>4. CASE Send
  <2>1. arrived' = arrived + 1 /\ offset' = offset /\ row' = row /\ arrived < MaxUpdates BY <1>4 DEF Send
  <2>2. \A u \in 1 .. arrived' : u < offset' => u \in 1 .. arrived BY <1>0, <1>1, <2>1
  <2> QED BY <1>0, <1>1, <2>1, <2>2
<1>5. CASE ~Poll /\ UNCHANGED <<arrived, offset>>
  <2>1. \A u \in Update : \/ row'[u].body = row[u].body /\ (row[u].processed => row'[u].processed)
                          \/ row'[u].body # "none" /\ row'[u].processed
    BY <1>5, BodyMoves
  <2>2. \A u \in 1 .. arrived : u \in Update BY <1>0 DEF Update
  <2> QED BY <1>1, <1>5, <2>1, <2>2
<1> QED BY <1>3, <1>4, <1>5, OffsetMoves

----------------------------------------------------------------------------
(* An answer is sent once.                                                 *)

LeaseStarts == \A t \in Update : ~Started(t) => turn[t].lease = 0

\* What has not been sent, or was refused, has not been accepted.
PlansAgree ==
  \A t \in Update \ astray, l \in Lease :
    /\ part[t][l] \in {"none", "rejected", "attempting"} => wire[t][l] = 0
    /\ part[t][l] = "sent" => wire[t][l] = 1
    /\ wire[t][l] <= 1

\* Who is sending has claimed the part, and no two have.
SendersClaimed ==
  /\ drain.pc = "sending" /\ drain.work \notin astray => Plan(drain.work) = "attempting"
  /\ lane.pc = "sending" /\ lane.on \notin astray => Plan(lane.on) = "attempting"
  /\ drain.pc = "sending" /\ lane.pc = "sending" /\ drain.work \notin astray => drain.work # lane.on

Plans == LeaseStarts /\ PlansAgree /\ SendersClaimed

\* A turn goes to its next lease only when it is resumed.
LEMMA LeaseMoves ==
  ASSUME TypeOK, HandAgrees, LaneAgrees, LeaseStarts, Next
  PROVE  /\ ~Resume => \A t \in Update : turn'[t].lease = turn[t].lease
         /\ LeaseStarts'
<1>0. turn \in [Update -> Turn] BY DEF TypeOK
<1>a. \A t \in Update : /\ \A s : [turn[t] EXCEPT !.status = s].lease = turn[t].lease
                        /\ \A d : [turn[t] EXCEPT !.delivery = d].lease = turn[t].lease
  BY <1>0 DEF Turn
<1>b. \A t \in Update : Started(t) => Started(t)' BY BegunStays
<1>1. ASSUME \A t \in Update : turn'[t].lease = turn[t].lease
      PROVE  LeaseStarts'
  BY <1>1, <1>b DEF LeaseStarts, Started
<1>2. ASSUME NEW t, NEW status, Ends(t, status) PROVE \A u \in Update : turn'[u].lease = turn[u].lease
  BY <1>0, <1>2, <1>a DEF Ends
<1>3. ASSUME NEW t, NEW state, Delivered(t, state) PROVE \A u \in Update : turn'[u].lease = turn[u].lease
  BY <1>0, <1>3, <1>a DEF Delivered
<1>4. CASE Enqueue \/ Run \/ Asks
  <2>1. PICK status : turn' = [turn EXCEPT ![drain.work] = Opened(status)] BY <1>4 DEF Enqueue, Run, Asks
  <2>2. ~Started(drain.work) /\ drain.work \in Update
    BY <1>4 DEF Enqueue, Run, Asks, Started, HandAgrees, InHand, AtWork
  <2>3. \A u \in Update : turn'[u].lease = turn[u].lease BY <1>0, <2>1, <2>2 DEF Opened, LeaseStarts
  <2> QED BY <1>1, <2>3
<1>5. CASE Resume
  <2>1. PICK t \in Targets(drain.at) \ {None} :
          turn' = [turn EXCEPT ![t] = [status |-> "running", lease |-> @.lease + 1, delivery |-> "none"]]
    BY <1>5 DEF Resume
  <2>2. t \in Update /\ Started(t) BY DEF Targets, Continuable, Started
  <2>3. \A u \in Update \ {t} : turn'[u] = turn[u] BY <1>0, <2>1
  <2> QED BY <1>5, <1>b, <2>2, <2>3 DEF LeaseStarts, Started
<1>6. ASSUME NEW s, RunEnds(s) \/ LaneEnds(s) \/ LaneTakes(s)
      PROVE  \A u \in Update : turn'[u].lease = turn[u].lease
  BY <1>2, <1>6 DEF RunEnds, LaneEnds, LaneTakes
<1>7. CASE UNCHANGED turn BY <1>1, <1>7
<1>8. CASE DrainWrites \/ LaneWrites
  <2>1. turn' = turn \/ \E t, state : Delivered(t, state) BY <1>8 DEF DrainWrites, LaneWrites
  <2> QED BY <1>1, <1>3, <1>7, <2>1
<1>9. CASE Restart
  <2>1. \A u \in Update : turn'[u].lease = turn[u].lease BY <1>9, <1>a DEF Restart
  <2> QED BY <1>1, <2>1
<1>10. ASSUME NEW u, ServeControl(u) \/ ControlDone(u) PROVE turn' = turn
  BY <1>10 DEF ServeControl, ControlDone, turnVars
<1>11. ASSUME NEW e, Skips(e) \/ Refuse(e) \/ Serve(e) \/ Bind(e) \/ Recover(e) PROVE turn' = turn
  BY <1>11 DEF Skips, Refuse, Serve, Bind, Recover, turnVars
<1>12. ASSUME NEW o, DrainHears(o) \/ LaneHears(o) PROVE turn' = turn BY <1>12 DEF DrainHears, LaneHears
<1>13. ASSUME \/ Send \/ Connect \/ Poll \/ PollDone \/ DrainEnds \/ Served \/ Gone \/ DeadRoute
              \/ DrainSends \/ LaneSends
       PROVE  turn' = turn
  BY <1>13 DEF Send, Connect, Poll, PollDone, DrainEnds, Served, Gone, DeadRoute, DrainSends, LaneSends, turnVars
<1> QED
  BY <1>1, <1>4, <1>5, <1>6, <1>7, <1>8, <1>9, <1>10, <1>11, <1>12, <1>13
  DEF Next, Polling, DrainsUpdate, DrainsWork, Lanes

\* Who begins to send claims the part; nobody else does.
DrainClaims ==
  /\ drain.pc \in {"made", "refused"} /\ Claimable(Plan(drain.work)) /\ Planned(drain.work, "attempting")
  /\ drain'.pc = "sending" /\ drain'.work = drain.work
  /\ UNCHANGED <<turn, wire, lane>>

LaneClaims ==
  /\ lane.pc = "made" /\ Claimable(Plan(lane.on)) /\ Planned(lane.on, "attempting")
  /\ lane'.pc = "sending" /\ lane'.on = lane.on
  /\ UNCHANGED <<turn, wire, drain>>

NobodyClaims ==
  /\ drain'.pc = "sending" => drain.pc = "sending" /\ drain'.work = drain.work
  /\ lane'.pc = "sending" => lane.pc = "sending" /\ lane'.on = lane.on

LEMMA PartMoves ==
  ASSUME TypeOK, HandAgrees, LaneAgrees, Next
  PROVE  \/ DrainClaims \/ LaneClaims
         \/ /\ NobodyClaims
            /\ \/ UNCHANGED <<part, wire>>
               \/ (\E o \in Outcome : DrainHears(o)) /\ drain'.pc = "next"
               \/ (\E o \in Outcome : LaneHears(o)) /\ lane'.pc = "idle"
               \/ Restart /\ drain'.pc = "off" /\ lane'.pc = "idle"
<1> DEFINE Goal == \/ DrainClaims \/ LaneClaims
                   \/ /\ NobodyClaims
                      /\ \/ UNCHANGED <<part, wire>>
                         \/ (\E o \in Outcome : DrainHears(o)) /\ drain'.pc = "next"
                         \/ (\E o \in Outcome : LaneHears(o)) /\ lane'.pc = "idle"
                         \/ Restart /\ drain'.pc = "off" /\ lane'.pc = "idle"
<1> SUFFICES Goal OBVIOUS
<1>0. drain \in Drain /\ lane \in Lane BY DEF TypeOK
<1>1. CASE DrainSends
  <2>1. lane' = lane BY <1>1 DEF DrainSends
  <2>2. CASE Claimable(Plan(drain.work))
    <3>1. drain' = [drain EXCEPT !.pc = "sending"] BY <1>1, <2>2 DEF DrainSends
    <3>2. drain'.pc = "sending" /\ drain'.work = drain.work BY <1>0, <3>1 DEF Drain
    <3> QED BY <1>1, <2>2, <3>2 DEF DrainSends, DrainClaims, history
  <2>3. CASE ~Claimable(Plan(drain.work))
    <3>1. drain' = LetGo(Then(AlreadyThere(Plan(drain.work)))) BY <1>1, <2>3 DEF DrainSends
    <3>2. drain'.pc = "next" BY <1>0, <3>1 DEF LetGo, Drain
    <3> QED BY <1>1, <2>1, <2>3, <3>2 DEF DrainSends, NobodyClaims, history
  <2> QED BY <2>2, <2>3
<1>2. CASE LaneSends
  <2>1. drain' = drain BY <1>2 DEF LaneSends
  <2>2. CASE Claimable(Plan(lane.on))
    <3>1. lane' = [lane EXCEPT !.pc = "sending"] BY <1>2, <2>2 DEF LaneSends
    <3>2. lane'.pc = "sending" /\ lane'.on = lane.on BY <1>0, <3>1 DEF Lane
    <3> QED BY <1>2, <2>2, <3>2 DEF LaneSends, LaneClaims, history
  <2>3. CASE ~Claimable(Plan(lane.on))
    <3>1. lane' = [lane EXCEPT !.pc = "idle", !.todo = LaneThen(AlreadyThere(Plan(lane.on)))]
      BY <1>2, <2>3 DEF LaneSends
    <3>2. lane'.pc = "idle" BY <1>0, <3>1 DEF Lane
    <3> QED BY <1>2, <2>1, <2>3, <3>2 DEF LaneSends, NobodyClaims, history
  <2> QED BY <2>2, <2>3
<1>3. CASE Restart BY <1>3, NoDrainType DEF Restart, NobodyClaims, NoLane
<1>4. ASSUME NEW o \in Outcome, DrainHears(o) PROVE Goal
  <2>1. drain' = LetGo(Then(o)) /\ lane' = lane BY <1>4 DEF DrainHears
  <2>2. drain'.pc = "next" BY <1>0, <2>1 DEF LetGo, Drain
  <2> QED BY <1>4, <2>1, <2>2 DEF NobodyClaims
<1>5. ASSUME NEW o \in Outcome, LaneHears(o) PROVE Goal
  <2>1. lane' = [lane EXCEPT !.pc = "idle", !.todo = LaneThen(o)] /\ drain' = drain BY <1>5 DEF LaneHears
  <2>2. lane'.pc = "idle" BY <1>0, <2>1 DEF Lane
  <2> QED BY <1>5, <2>1, <2>2 DEF NobodyClaims
<1>6. ASSUME ~DrainSends, ~LaneSends, \A o : ~LaneHears(o) PROVE NobodyClaims
  <2>1. drain'.pc = "sending" => drain.pc = "sending" /\ drain'.work = drain.work
    BY <1>6, HandMoves
    DEF HandAgrees, AtWork, DrainIs, Same, Idles, Shows, Takes, Retakes, Gives, Puts, Declines, Answers, Tries, Leaves, WritesOne
  <2>2. lane'.pc = "sending" => lane.pc = "sending" /\ lane'.on = lane.on
    BY <1>6, LaneMoves DEF LaneIs
  <2> QED BY <2>1, <2>2 DEF NobodyClaims
<1>7. CASE UNCHANGED <<part, wire>> /\ ~DrainSends /\ ~LaneSends /\ \A o : ~LaneHears(o)
  BY <1>6, <1>7
<1>8. ASSUME ~DrainSends, ~LaneSends, \A o \in Outcome : ~LaneHears(o) /\ ~DrainHears(o), ~Restart
      PROVE  UNCHANGED <<part, wire>>
  <2>1. ASSUME NEW u, ServeControl(u) \/ ControlDone(u) \/ LaneTakes(u) PROVE UNCHANGED <<part, wire>>
    BY <2>1 DEF ServeControl, ControlDone, LaneTakes, turnVars, history
  <2>2. ASSUME NEW e, Skips(e) \/ Refuse(e) \/ Serve(e) \/ Bind(e) \/ Recover(e)
        PROVE  UNCHANGED <<part, wire>>
    BY <2>2 DEF Skips, Refuse, Serve, Bind, Recover, turnVars, history
  <2>3. ASSUME NEW s, RunEnds(s) \/ LaneEnds(s) PROVE UNCHANGED <<part, wire>>
    BY <2>3 DEF RunEnds, LaneEnds, history
  <2>4. ASSUME \/ Send \/ Connect \/ Poll \/ PollDone \/ DrainEnds \/ Served
               \/ Enqueue \/ Run \/ Resume \/ Gone \/ DeadRoute \/ Asks \/ DrainWrites \/ LaneWrites
        PROVE  UNCHANGED <<part, wire>>
    BY <2>4 DEF Send, Connect, Poll, PollDone, DrainEnds, Served, Enqueue, Run, Resume, Gone, DeadRoute, Asks,
       DrainWrites, LaneWrites, turnVars, history
  <2> QED BY <1>8, <2>1, <2>2, <2>3, <2>4 DEF Next, Polling, DrainsUpdate, DrainsWork, Lanes
<1>9. ASSUME NEW o, LaneHears(o) PROVE o \in Outcome
  BY <1>9 DEF LaneHears, Response, Outcome
<1> HIDE DEF Goal
<1> QED BY <1>1, <1>2, <1>3, <1>4, <1>5, <1>7, <1>8, <1>9

\* A response to a part that was claimed, and not accepted before.
LEMMA ResponseMoves ==
  ASSUME TypeOK, NEW t \in Update, NEW o, Response(t, t, o)
  PROVE  /\ \A u \in Update, l \in Lease :
              u # t \/ l # turn[t].lease => part'[u][l] = part[u][l] /\ wire'[u][l] = wire[u][l]
         /\ LET l == turn[t].lease
                p == part'[t][l]
            IN  \/ p = "sent" /\ wire'[t][l] = wire[t][l] + 1
                \/ p = "rejected" /\ wire'[t][l] = wire[t][l]
                \/ p = "possibly" /\ wire'[t][l] \in {wire[t][l], wire[t][l] + 1}
<1>0. /\ turn[t].lease \in Lease /\ part \in [Update -> [Lease -> Part]] /\ wire \in [Update -> [Lease -> Nat]]
  BY DEF TypeOK, Turn
<1>1. ASSUME NEW s, Planned(t, s)
      PROVE  /\ \A u \in Update, l \in Lease : u # t \/ l # turn[t].lease => part'[u][l] = part[u][l]
             /\ part'[t][turn[t].lease] = s
  BY <1>0, <1>1 DEF Planned
<1>2. ASSUME Accepted(t)
      PROVE  /\ \A u \in Update, l \in Lease : u # t \/ l # turn[t].lease => wire'[u][l] = wire[u][l]
             /\ wire'[t][turn[t].lease] = wire[t][turn[t].lease] + 1
  BY <1>0, <1>2 DEF Accepted
<1> QED BY <1>0, <1>1, <1>2 DEF Response

LEMMA PlansStep ==
  ASSUME TypeOK, Agrees, Plans, Next
  PROVE  Plans'
<1> DEFINE P(t) == part'[t][turn'[t].lease]
<1>0. /\ HandAgrees /\ LaneAgrees /\ Strays /\ LeaseStarts /\ PlansAgree /\ SendersClaimed
      /\ turn \in [Update -> Turn] /\ part \in [Update -> [Lease -> Part]]
      /\ wire \in [Update -> [Lease -> Nat]] /\ drain \in Drain /\ lane \in Lane
  BY DEF Agrees, Plans, TypeOK
<1>1. LeaseStarts' /\ (~Resume => \A t \in Update : turn'[t].lease = turn[t].lease) BY <1>0, LeaseMoves
<1>2. astray \subseteq astray' BY Onward
<1>3. \A t \in Update : turn[t].lease \in Lease BY <1>0 DEF Turn
<1>4. drain.pc = "sending" => drain.work \in Update BY <1>0 DEF HandAgrees, InHand, AtWork
<1>5. lane.pc = "sending" => lane.on \in Update BY <1>0 DEF LaneAgrees
<1>6. SUFFICES
        /\ \A t \in Update \ astray, l \in Lease :
             /\ part'[t][l] \in {"none", "rejected", "attempting"} => wire'[t][l] = 0
             /\ part'[t][l] = "sent" => wire'[t][l] = 1
             /\ wire'[t][l] <= 1
        /\ drain'.pc = "sending" /\ drain'.work \notin astray => P(drain'.work) = "attempting"
        /\ lane'.pc = "sending" /\ lane'.on \notin astray => P(lane'.on) = "attempting"
        /\ drain'.pc = "sending" /\ lane'.pc = "sending" /\ drain'.work \notin astray => drain'.work # lane'.on
  BY <1>1, <1>2 DEF Plans, PlansAgree, SendersClaimed, Plan
<1>7. NobodyClaims /\ (drain'.pc = "sending" \/ lane'.pc = "sending") =>
        \A t \in Update : turn'[t].lease = turn[t].lease
  BY <1>1 DEF NobodyClaims, Resume
<1>8. ASSUME NEW t \in Update, Planned(t, "attempting"), Claimable(Plan(t)), UNCHANGED <<turn, wire>>
      PROVE  /\ P(t) = "attempting"
             /\ \A u \in Update \ {t} : P(u) = Plan(u)
             /\ \A u \in Update \ astray, l \in Lease :
                  /\ part'[u][l] \in {"none", "rejected", "attempting"} => wire'[u][l] = 0
                  /\ part'[u][l] = "sent" => wire'[u][l] = 1
                  /\ wire'[u][l] <= 1
  <2>1. /\ \A u \in Update, l \in Lease : u # t \/ l # turn[t].lease => part'[u][l] = part[u][l]
        /\ part'[t][turn[t].lease] = "attempting"
    BY <1>0, <1>3, <1>8 DEF Planned
  <2>2. t \notin astray => wire[t][turn[t].lease] = 0 BY <1>0, <1>3, <1>8 DEF Claimable, Plan, PlansAgree
  <2>3. P(t) = "attempting" /\ \A u \in Update \ {t} : P(u) = Plan(u) BY <1>3, <1>8, <2>1 DEF Plan
  <2>4. ASSUME NEW u \in Update \ astray, NEW l \in Lease
        PROVE  /\ part'[u][l] \in {"none", "rejected", "attempting"} => wire'[u][l] = 0
               /\ part'[u][l] = "sent" => wire'[u][l] = 1
               /\ wire'[u][l] <= 1
    BY <1>0, <1>8, <2>1, <2>2 DEF PlansAgree
  <2> QED BY <2>3, <2>4
<1>9. CASE DrainClaims
  <2>1. drain.work \in Update BY <1>0, <1>9 DEF DrainClaims, HandAgrees, InHand, AtWork
  <2>2. Claimable(Plan(drain.work)) /\ Planned(drain.work, "attempting") /\ UNCHANGED <<turn, wire>>
    BY <1>9 DEF DrainClaims
  <2>3. lane.pc = "sending" /\ lane.on \notin astray => lane.on # drain.work
    BY <1>0, <2>2 DEF SendersClaimed, Claimable
  <2>4. lane' = lane /\ drain'.work = drain.work BY <1>9 DEF DrainClaims
  <2> HIDE DEF P
  <2>5. lane.pc = "sending" /\ lane.on \notin astray => P(lane.on) = "attempting"
    BY <1>0, <1>5, <1>8, <2>1, <2>2, <2>3 DEF SendersClaimed
  <2> QED BY <1>8, <2>1, <2>2, <2>3, <2>4, <2>5
<1>10. CASE LaneClaims
  <2>1. lane.on \in Update BY <1>0, <1>10 DEF LaneClaims, LaneAgrees
  <2>2. Claimable(Plan(lane.on)) /\ Planned(lane.on, "attempting") /\ UNCHANGED <<turn, wire>>
    BY <1>10 DEF LaneClaims
  <2>3. drain.pc = "sending" /\ drain.work \notin astray => lane.on # drain.work
    BY <1>0, <2>2 DEF SendersClaimed, Claimable
  <2>4. drain' = drain /\ lane'.on = lane.on BY <1>10 DEF LaneClaims
  <2> HIDE DEF P
  <2>5. drain.pc = "sending" /\ drain.work \notin astray => P(drain.work) = "attempting"
    BY <1>0, <1>4, <1>8, <2>1, <2>2, <2>3 DEF SendersClaimed
  <2> QED BY <1>8, <2>1, <2>2, <2>3, <2>4, <2>5
<1>11. CASE NobodyClaims /\ UNCHANGED <<part, wire>>
  BY <1>0, <1>4, <1>5, <1>7, <1>11 DEF NobodyClaims, PlansAgree, SendersClaimed, Plan
<1>12. ASSUME NEW t \in Update, NEW o, Response(t, t, o), t \in astray \/ Plan(t) = "attempting"
       PROVE  /\ \A u \in Update, l \in Lease : u # t => part'[u][l] = part[u][l]
              /\ \A u \in Update \ astray, l \in Lease :
                   /\ part'[u][l] \in {"none", "rejected", "attempting"} => wire'[u][l] = 0
                   /\ part'[u][l] = "sent" => wire'[u][l] = 1
                   /\ wire'[u][l] <= 1
  <2> DEFINE k == turn[t].lease
  <2>1. /\ \A u \in Update, l \in Lease :
             u # t \/ l # k => part'[u][l] = part[u][l] /\ wire'[u][l] = wire[u][l]
        /\ \/ part'[t][k] = "sent" /\ wire'[t][k] = wire[t][k] + 1
           \/ part'[t][k] = "rejected" /\ wire'[t][k] = wire[t][k]
           \/ part'[t][k] = "possibly" /\ wire'[t][k] \in {wire[t][k], wire[t][k] + 1}
    BY <1>12, ResponseMoves
  <2>2. t \notin astray => wire[t][k] = 0 BY <1>0, <1>3, <1>12 DEF Plan, PlansAgree
  <2> HIDE DEF k
  <2>3. ASSUME NEW u \in Update \ astray, NEW l \in Lease
        PROVE  /\ part'[u][l] \in {"none", "rejected", "attempting"} => wire'[u][l] = 0
               /\ part'[u][l] = "sent" => wire'[u][l] = 1
               /\ wire'[u][l] <= 1
    <3>1. CASE u # t \/ l # k BY <1>0, <2>1, <3>1 DEF PlansAgree
    <3>2. CASE u = t /\ l = k BY <2>1, <2>2, <3>2
    <3> QED BY <3>1, <3>2
  <2> QED BY <2>1, <2>3
<1>13. CASE NobodyClaims /\ (\E o \in Outcome : DrainHears(o)) /\ drain'.pc = "next"
  <2>1. PICK o \in Outcome : DrainHears(o) BY <1>13
  <2>2. drain.pc = "sending" /\ Response(drain.on, drain.work, o) /\ turn' = turn BY <2>1 DEF DrainHears
  <2>3. drain.work \in Update /\ drain.on \in Update BY <1>0, <1>4, <2>2 DEF HandAgrees
  <2>4. lane.pc = "sending" /\ lane.on \notin astray => lane.on # drain.work
    BY <1>0, <2>2 DEF SendersClaimed
  <2>5. CASE drain.on = drain.work
    <3>1. drain.work \in astray \/ Plan(drain.work) = "attempting" BY <1>0, <2>2 DEF SendersClaimed
    <3>2. \A l \in Lease : lane.pc = "sending" /\ lane.on \notin astray =>
            part'[lane.on][l] = part[lane.on][l]
      BY <1>5, <1>12, <2>2, <2>3, <2>4, <2>5, <3>1
    <3>3. lane'.pc = "sending" /\ lane.on \notin astray => P(lane.on) = "attempting"
      BY <1>0, <1>3, <1>5, <1>13, <2>2, <3>2 DEF NobodyClaims, SendersClaimed, Plan
    <3>4. \A u \in Update \ astray, l \in Lease :
            /\ part'[u][l] \in {"none", "rejected", "attempting"} => wire'[u][l] = 0
            /\ part'[u][l] = "sent" => wire'[u][l] = 1
            /\ wire'[u][l] <= 1
      BY <1>12, <2>2, <2>3, <2>5, <3>1
    <3> QED BY <1>13, <3>3, <3>4 DEF NobodyClaims
  <2>6. CASE drain.on # drain.work
    <3>1. drain.on \in astray /\ drain.work \in astray BY <1>0, <2>2, <2>6 DEF Strays
    <3>2. \A u \in Update \ astray : part'[u] = part[u] /\ wire'[u] = wire[u]
      BY <1>0, <2>2, <2>3, <3>1 DEF Response, Planned, Accepted
    <3>3. lane'.pc = "sending" /\ lane.on \notin astray => P(lane.on) = "attempting"
      BY <1>0, <1>5, <1>13, <2>2, <3>2 DEF NobodyClaims, SendersClaimed, Plan
    <3>4. \A u \in Update \ astray, l \in Lease :
            /\ part'[u][l] \in {"none", "rejected", "attempting"} => wire'[u][l] = 0
            /\ part'[u][l] = "sent" => wire'[u][l] = 1
            /\ wire'[u][l] <= 1
      BY <1>0, <3>2 DEF PlansAgree
    <3> QED BY <1>13, <3>3, <3>4 DEF NobodyClaims
  <2> QED BY <2>5, <2>6
<1>14. CASE NobodyClaims /\ (\E o \in Outcome : LaneHears(o)) /\ lane'.pc = "idle"
  <2>1. PICK o \in Outcome : LaneHears(o) BY <1>14
  <2>2. lane.pc = "sending" /\ Response(lane.on, lane.on, o) /\ turn' = turn /\ drain' = drain
    BY <2>1 DEF LaneHears
  <2>3. lane.on \in Update BY <1>5, <2>2
  <2>4. lane.on \in astray \/ Plan(lane.on) = "attempting" BY <1>0, <2>2 DEF SendersClaimed
  <2>5. drain.pc = "sending" /\ drain.work \notin astray => drain.work # lane.on
    BY <1>0, <2>2 DEF SendersClaimed
  <2>6. \A l \in Lease : drain.pc = "sending" /\ drain.work \notin astray =>
          part'[drain.work][l] = part[drain.work][l]
    BY <1>4, <1>12, <2>2, <2>3, <2>4, <2>5
  <2>7. drain.pc = "sending" /\ drain.work \notin astray => P(drain.work) = "attempting"
    BY <1>0, <1>3, <1>4, <2>2, <2>6 DEF SendersClaimed, Plan
  <2>8. \A u \in Update \ astray, l \in Lease :
            /\ part'[u][l] \in {"none", "rejected", "attempting"} => wire'[u][l] = 0
            /\ part'[u][l] = "sent" => wire'[u][l] = 1
            /\ wire'[u][l] <= 1
    BY <1>12, <2>2, <2>3, <2>4
  <2> HIDE DEF P
  <2> QED BY <1>14, <2>2, <2>7, <2>8
<1>15. CASE Restart /\ drain'.pc = "off" /\ lane'.pc = "idle"
  <2>1. \A t \in Update, l \in Lease :
          part'[t][l] = IF part[t][l] = "attempting" THEN "possibly" ELSE part[t][l]
    BY <1>15 DEF Restart
  <2>2. wire' = wire BY <1>15 DEF Restart, history
  <2>3. ASSUME NEW u \in Update \ astray, NEW l \in Lease
        PROVE  /\ part'[u][l] \in {"none", "rejected", "attempting"} => wire'[u][l] = 0
               /\ part'[u][l] = "sent" => wire'[u][l] = 1
               /\ wire'[u][l] <= 1
    BY <1>0, <2>1, <2>2 DEF PlansAgree
  <2> QED BY <1>15, <2>3
<1> HIDE DEF P
<1> QED BY <1>0, <1>9, <1>10, <1>11, <1>13, <1>14, <1>15, PartMoves

----------------------------------------------------------------------------
(* What is closed was answered.                                            *)

\* The statements a drain still has to write: those that write an outcome
\* down, those that close an event, and those of a text that is gone.
Proves == {<<"settle", "sent", "mark", "scrub">>, <<"sent", "mark", "scrub">>,
           <<"sent", "settle", "mark", "scrub">>, <<"possibly", "settle", "mark", "scrub">>,
           <<"settle", "mark", "scrub", "possibly">>, <<"mark", "scrub", "possibly">>,
           <<"scrub", "possibly">>, <<"possibly">>}
Closing == {<<"settle", "mark", "scrub">>, <<"mark", "scrub">>,
            <<"settle", "sent", "mark", "scrub">>, <<"sent", "mark", "scrub">>,
            <<"sent", "settle", "mark", "scrub">>, <<"possibly", "settle", "mark", "scrub">>,
            <<"settle", "mark", "scrub", "possibly">>, <<"mark", "scrub", "possibly">>}
Refusal == <<"failed">>
Renounces == <<"undeliverable", "settle", "mark", "scrub">>

Scripts == Proves \cup Closing \cup {<<>>, <<"scrub">>, Refusal, Renounces}

\* What is left of a script once its first statement is written.
GoesOn(s) ==
  /\ Tail(s) \in Scripts /\ Tail(s) \notin {Refusal, Renounces}
  /\ Tail(s) \in Proves => s \in Proves
  /\ Tail(s) \in Closing => s \in Closing \cup {Renounces}
  /\ Head(s) \in {"settle", "mark"} => s \in Closing
  /\ Head(s) \in {"sent", "possibly"} => s \in Proves
  /\ Head(s) = "failed" => s = Refusal
  /\ Head(s) = "undeliverable" => s = Renounces
  /\ Head(s) \in Delivery => Head(s) \in {"sent", "possibly", "failed", "undeliverable"}

LEMMA ScriptGoesOn ==
  ASSUME NEW s \in Scripts, s # <<>>
  PROVE  GoesOn(s)
<1> USE DEF GoesOn, Scripts, Proves, Closing, Refusal, Renounces, Delivery
<1>1. CASE s = <<"settle", "sent", "mark", "scrub">>
  <2>1. Head(s) = "settle" /\ Tail(s) = <<"sent", "mark", "scrub">> BY <1>1
  <2> QED BY <1>1, <2>1
<1>2. CASE s = <<"sent", "mark", "scrub">>
  <2>1. Head(s) = "sent" /\ Tail(s) = <<"mark", "scrub">> BY <1>2
  <2> QED BY <1>2, <2>1
<1>3. CASE s = <<"sent", "settle", "mark", "scrub">>
  <2>1. Head(s) = "sent" /\ Tail(s) = <<"settle", "mark", "scrub">> BY <1>3
  <2> QED BY <1>3, <2>1
<1>4. CASE s = <<"possibly", "settle", "mark", "scrub">>
  <2>1. Head(s) = "possibly" /\ Tail(s) = <<"settle", "mark", "scrub">> BY <1>4
  <2> QED BY <1>4, <2>1
<1>5. CASE s = <<"settle", "mark", "scrub", "possibly">>
  <2>1. Head(s) = "settle" /\ Tail(s) = <<"mark", "scrub", "possibly">> BY <1>5
  <2> QED BY <1>5, <2>1
<1>6. CASE s = <<"mark", "scrub", "possibly">>
  <2>1. Head(s) = "mark" /\ Tail(s) = <<"scrub", "possibly">> BY <1>6
  <2> QED BY <1>6, <2>1
<1>7. CASE s = <<"scrub", "possibly">>
  <2>1. Head(s) = "scrub" /\ Tail(s) = <<"possibly">> BY <1>7
  <2> QED BY <1>7, <2>1
<1>8. CASE s = <<"possibly">>
  <2>1. Head(s) = "possibly" /\ Tail(s) = <<>> BY <1>8
  <2> QED BY <1>8, <2>1
<1>9. CASE s = <<"settle", "mark", "scrub">>
  <2>1. Head(s) = "settle" /\ Tail(s) = <<"mark", "scrub">> BY <1>9
  <2> QED BY <1>9, <2>1
<1>10. CASE s = <<"mark", "scrub">>
  <2>1. Head(s) = "mark" /\ Tail(s) = <<"scrub">> BY <1>10
  <2> QED BY <1>10, <2>1
<1>11. CASE s = <<"scrub">>
  <2>1. Head(s) = "scrub" /\ Tail(s) = <<>> BY <1>11
  <2> QED BY <1>11, <2>1
<1>12. CASE s = <<"failed">>
  <2>1. Head(s) = "failed" /\ Tail(s) = <<>> BY <1>12
  <2> QED BY <1>12, <2>1
<1>13. CASE s = <<"undeliverable", "settle", "mark", "scrub">>
  <2>1. Head(s) = "undeliverable" /\ Tail(s) = <<"settle", "mark", "scrub">> BY <1>13
  <2> QED BY <1>13, <2>1
<1> QED
  BY <1>1, <1>2, <1>3, <1>4, <1>5, <1>6, <1>7, <1>8, <1>9, <1>10, <1>11, <1>12, <1>13

\* The turns that only the drain drives, each for the events that are bound to it.
Its == Update \ (away \cup astray \cup presumed)

\* Its answer has been accepted, or may have been; or its text was gone.
Proven(t) == wire[t][turn[t].lease] = 1 \/ Uncertain(t)
Answered(t) == Proven(t) \/ turn[t].delivery = "undeliverable"

\* Of a turn that is left to be continued nothing is claimed: a refusal of its next
\* lease may be told, or not, over what its last lease had been told.
Left(t) == turn[t].status = "continuable"

OverOrAtWork == {"running", "done"}

SentIsProven == \A t \in Its : ~Left(t) /\ turn[t].delivery \in {"sent", "possibly"} => Proven(t)

SettledIsAnswered ==
  \A u \in Update :
    LET t == row[u].work
    IN  t \in Its /\ row[u].settled /\ ~row[u].processed /\ turn[t].status \in OverOrAtWork =>
          turn[t].status # "running" /\ Answered(t)

ScriptIsTrue ==
  /\ drain.todo \in Scripts
  /\ LET t == drain.work
     IN  t \in Its =>
       /\ drain.todo \in Proves /\ ~Left(t) => Proven(t)
       /\ drain.todo = Refusal /\ ~Left(t) => turn[t].delivery # "undeliverable"
       /\ drain.todo \in Closing \cup {Renounces} => turn[t].status # "running"
       /\ drain.todo \in Closing /\ turn[t].status \in OverOrAtWork => Answered(t)

NotToldYet ==
  /\ drain.pc \in {"running", "refused", "made", "sending"} /\ drain.on \in Its /\ ~Left(drain.on) =>
       turn[drain.on].delivery # "undeliverable"
  /\ drain.pc = "running" /\ drain.on \in Its => turn[drain.on].status = "running"
  /\ drain.pc \in {"refused", "made", "sending"} /\ drain.on \in Its =>
       turn[drain.on].status \in {"continuable", "done"}

DoneIsTold ==
  \A t \in Its : turn[t].status = "done" =>
    Answered(t) \/ \E u \in Update : row[u].work = t /\ ~row[u].processed

Answering == SentIsProven /\ SettledIsAnswered /\ ScriptIsTrue /\ NotToldYet /\ DoneIsTold

\* What a step does to a turn that only the drain drives.
SameLease(t) == turn'[t].lease = turn[t].lease

Opens(t) == /\ \/ (Enqueue \/ Run) /\ turn'[t].status \in {"runnable", "running"}
               \/ Asks /\ turn'[t].status = "done"
            /\ t = drain.work /\ ~Started(t) /\ turn'[t].delivery = "pending"

Resumes(t) == /\ Resume /\ t = drain.work
              /\ turn'[t].status = "running" /\ turn'[t].delivery = "none"
              /\ ~\E u \in Update : row[u].work = t /\ row[u].settled /\ ~row[u].processed

Ended(t) == /\ t = drain.on /\ SameLease(t) /\ turn'[t].delivery = turn[t].delivery
            /\ RunEnds(turn'[t].status) /\ turn'[t].status \in Ending

WritesTurn(t) == /\ DrainWrites /\ t = drain.work /\ Head(drain.todo) \in Delivery
                 /\ SameLease(t) /\ turn'[t].status = turn[t].status
                 /\ turn'[t].delivery = Head(drain.todo)

Interrupted(t) == /\ Restart /\ turn[t].status = "running" /\ turn'[t].status = "interrupted"
                  /\ SameLease(t) /\ turn'[t].delivery = turn[t].delivery

LEMMA TurnFields ==
  ASSUME NEW r \in Turn
  PROVE  /\ \A s : /\ [r EXCEPT !.status = s].status = s /\ [r EXCEPT !.status = s].lease = r.lease
                  /\ [r EXCEPT !.status = s].delivery = r.delivery
         /\ \A d : /\ [r EXCEPT !.delivery = d].status = r.status /\ [r EXCEPT !.delivery = d].lease = r.lease
                  /\ [r EXCEPT !.delivery = d].delivery = d
BY DEF Turn

LEMMA TurnMoves ==
  ASSUME TypeOK, HandAgrees, LaneAgrees, Next, NEW t \in Its'
  PROVE  \/ turn'[t] = turn[t] \/ Opens(t) \/ Resumes(t) \/ Ended(t) \/ WritesTurn(t) \/ Interrupted(t)
<1> DEFINE Goal == turn'[t] = turn[t] \/ Opens(t) \/ Resumes(t) \/ Ended(t) \/ WritesTurn(t) \/ Interrupted(t)
<1> SUFFICES Goal OBVIOUS
<1>0. turn \in [Update -> Turn] /\ t \in Update /\ turn[t] \in Turn
  BY DEF TypeOK, Its
<1>a. t \notin away' /\ t \notin astray' /\ t \notin presumed' BY DEF Its
<1>1. CASE Enqueue \/ Run
  <2>1. PICK status \in {"runnable", "running"} : turn' = [turn EXCEPT ![drain.work] = Opened(status)]
    BY <1>1 DEF Enqueue, Run
  <2>2. ~Started(drain.work) BY <1>1 DEF Enqueue, Run, Started
  <2>3. turn'[t] = IF t = drain.work THEN Opened(status) ELSE turn[t] BY <1>0, <2>1
  <2> QED BY <1>1, <2>1, <2>2, <2>3 DEF Opens, Opened
<1>14. CASE Asks
  <2>1. turn' = [turn EXCEPT ![drain.work] = Opened("done")] /\ ~Started(drain.work)
    BY <1>14 DEF Asks, Started
  <2>2. turn'[t] = IF t = drain.work THEN Opened("done") ELSE turn[t] BY <1>0, <2>1
  <2> QED BY <1>14, <2>1, <2>2 DEF Opens, Opened
<1>2. CASE Resume
  <2>1. PICK v \in Targets(drain.at) \ {None} :
          /\ turn' = [turn EXCEPT ![v] = [status |-> "running", lease |-> @.lease + 1, delivery |-> "none"]]
          /\ astray' = IF v = drain.work THEN astray ELSE astray \cup {v, drain.work}
          /\ presumed' = IF \E u \in Update : row[u].work = v /\ row[u].settled /\ ~row[u].processed
                         THEN presumed \cup {v} ELSE presumed
    BY <1>2 DEF Resume, GoesTo
  <2>2. CASE v = t
    <3>1. t = drain.work BY <1>a, <2>1, <2>2
    <3>2. ~\E u \in Update : row[u].work = t /\ row[u].settled /\ ~row[u].processed BY <1>a, <2>1, <2>2
    <3>3. turn'[t] = [status |-> "running", lease |-> turn[t].lease + 1, delivery |-> "none"]
      BY <1>0, <2>1, <2>2
    <3>4. turn'[t].status = "running" /\ turn'[t].delivery = "none" BY <3>3
    <3> QED BY <1>2, <3>1, <3>2, <3>4 DEF Resumes
  <2>3. CASE v # t BY <1>0, <2>1, <2>3
  <2> QED BY <2>2, <2>3
<1>3. ASSUME NEW s \in Ending, RunEnds(s) PROVE Goal
  <2>1. turn'[t] = IF t = drain.on THEN [turn[t] EXCEPT !.status = s] ELSE turn[t]
    BY <1>0, <1>3 DEF RunEnds, Ends
  <2> QED BY <1>0, <1>3, <2>1, TurnFields DEF Ended, SameLease
<1>4. ASSUME NEW s, LaneEnds(s) PROVE Goal
  <2>1. lane.on \in away BY <1>4 DEF LaneEnds, LaneAgrees
  <2>2. lane.on # t BY <1>a, <2>1, Onward
  <2> QED BY <1>0, <1>4, <2>2 DEF LaneEnds, Ends
<1>5. ASSUME NEW v, LaneTakes(v) PROVE Goal
  <2>1. v # t BY <1>5, <1>a DEF LaneTakes
  <2> QED BY <1>0, <1>5, <2>1 DEF LaneTakes, Ends
<1>6. CASE turn' = turn BY <1>6
<1>7. CASE DrainWrites
  <2>1. \/ turn' = turn
        \/ Head(drain.todo) \in Delivery /\ Delivered(drain.work, Head(drain.todo))
    BY <1>7 DEF DrainWrites
  <2>2. \/ turn'[t] = turn[t]
        \/ /\ Head(drain.todo) \in Delivery /\ t = drain.work
           /\ turn'[t] = [turn[t] EXCEPT !.delivery = Head(drain.todo)]
    BY <1>0, <2>1 DEF Delivered
  <2>3. CASE /\ Head(drain.todo) \in Delivery /\ t = drain.work
             /\ turn'[t] = [turn[t] EXCEPT !.delivery = Head(drain.todo)]
    <3>1. /\ turn'[t].status = turn[t].status /\ turn'[t].lease = turn[t].lease
          /\ turn'[t].delivery = Head(drain.todo)
      BY <1>0, <2>3, TurnFields
    <3>2. WritesTurn(t) BY <1>7, <2>3, <3>1 DEF WritesTurn, SameLease
    <3> QED BY <3>2
  <2> QED BY <2>2, <2>3
<1>8. CASE LaneWrites
  <2>1. lane.on \in away BY <1>8 DEF LaneWrites, LaneAgrees
  <2>2. lane.on # t BY <1>a, <2>1, Onward
  <2> QED BY <1>0, <1>8, <2>2 DEF LaneWrites, Delivered
<1>9. CASE Restart
  <2>1. turn'[t] = IF turn[t].status = "running" THEN [turn[t] EXCEPT !.status = "interrupted"] ELSE turn[t]
    BY <1>0, <1>9 DEF Restart
  <2> QED BY <1>0, <1>9, <2>1, TurnFields DEF Interrupted, SameLease
<1>10. ASSUME NEW u, ServeControl(u) \/ ControlDone(u) PROVE turn' = turn
  BY <1>10 DEF ServeControl, ControlDone, turnVars
<1>11. ASSUME NEW e, Skips(e) \/ Refuse(e) \/ Serve(e) \/ Bind(e) \/ Recover(e) PROVE turn' = turn
  BY <1>11 DEF Skips, Refuse, Serve, Bind, Recover, turnVars
<1>12. ASSUME NEW o, DrainHears(o) \/ LaneHears(o) PROVE turn' = turn BY <1>12 DEF DrainHears, LaneHears
<1>13. ASSUME \/ Send \/ Connect \/ Poll \/ PollDone \/ DrainEnds \/ Served \/ Gone \/ DeadRoute
              \/ DrainSends \/ LaneSends
       PROVE  turn' = turn
  BY <1>13 DEF Send, Connect, Poll, PollDone, DrainEnds, Served, Gone, DeadRoute, DrainSends, LaneSends, turnVars
<1> HIDE DEF Goal
<1> QED
  BY <1>1, <1>2, <1>3, <1>4, <1>5, <1>6, <1>7, <1>8, <1>9, <1>10, <1>11, <1>12, <1>13, <1>14
  DEF Next, Polling, DrainsUpdate, DrainsWork, Lanes

\* What was proved to have been sent stays proved, as long as its lease lasts.
LEMMA ProvenStays ==
  ASSUME TypeOK, Agrees, Plans, Next, NEW t \in Its', SameLease(t)
  PROVE  Proven(t) => Proven(t)'
<1>0. /\ HandAgrees /\ LaneAgrees /\ Strays /\ PlansAgree /\ SendersClaimed /\ t \in Update
      /\ t \notin astray /\ t \notin away /\ turn[t].lease \in Lease
      /\ part \in [Update -> [Lease -> Part]] /\ wire \in [Update -> [Lease -> Nat]]
      /\ drain \in Drain /\ lane \in Lane
  BY Onward DEF Agrees, Plans, Its, TypeOK, Turn
<1>1. \A l \in Lease : wire'[t][l] <= 1
  <2>1. Plans' BY PlansStep
  <2> QED BY <2>1 DEF Plans, PlansAgree, Its
<1>2. SUFFICES /\ \A l \in Lease : wire'[t][l] \in {wire[t][l], wire[t][l] + 1}
               /\ \A l \in Lease : part[t][l] = "possibly" => part'[t][l] = "possibly"
  <2> DEFINE l == turn[t].lease
  <2>1. wire[t][l] = 1 => wire'[t][l] = 1 BY <1>0, <1>1
  <2>2. turn'[t].lease = l BY DEF SameLease
  <2>3. Uncertain(t) => Uncertain(t)' BY DEF Uncertain
  <2> HIDE DEF l
  <2>4. wire[t][turn[t].lease] = 1 => (wire[t][turn[t].lease])' = 1 BY <2>1, <2>2 DEF l
  <2> QED BY <2>3, <2>4 DEF Proven
<1>3. ASSUME NEW v \in Update, Planned(v, "attempting"), Claimable(Plan(v)), UNCHANGED wire
      PROVE  /\ \A l \in Lease : wire'[t][l] \in {wire[t][l], wire[t][l] + 1}
             /\ \A l \in Lease : part[t][l] = "possibly" => part'[t][l] = "possibly"
  <2> DEFINE k == turn[v].lease
  <2>1. k \in Lease BY DEF TypeOK, Turn
  <2>2. part' = [part EXCEPT ![v][k] = "attempting"] /\ part[v][k] # "possibly"
    BY <1>3 DEF Planned, Plan, Claimable
  <2> HIDE DEF k
  <2>3. \A l \in Lease : part[t][l] = "possibly" => part'[t][l] = "possibly" BY <1>0, <2>1, <2>2
  <2> QED BY <1>0, <1>3, <2>3
<1>4. CASE DrainClaims
  <2>1. drain.work \in Update BY <1>0, <1>4 DEF DrainClaims, HandAgrees, InHand, AtWork
  <2> QED BY <1>3, <1>4, <2>1 DEF DrainClaims
<1>5. CASE LaneClaims
  <2>1. lane.on \in Update BY <1>0, <1>5 DEF LaneClaims, LaneAgrees
  <2> QED BY <1>3, <1>5, <2>1 DEF LaneClaims
<1>6. CASE UNCHANGED <<part, wire>> BY <1>6
<1>7. ASSUME NEW v, NEW key, NEW o, Response(v, key, o), key # t, v # t
      PROVE  part'[t] = part[t] /\ wire'[t] = wire[t]
  BY <1>0, <1>7 DEF Response, Planned, Accepted
<1>8. ASSUME NEW o, DrainHears(o)
      PROVE  /\ \A l \in Lease : wire'[t][l] \in {wire[t][l], wire[t][l] + 1}
             /\ \A l \in Lease : part[t][l] = "possibly" => part'[t][l] = "possibly"
  <2>1. drain.pc = "sending" /\ Response(drain.on, drain.work, o) BY <1>8 DEF DrainHears
  <2>2. CASE drain.work = t
    <3>1. drain.on = t BY <1>0, <2>1, <2>2 DEF Strays
    <3>2. part[t][turn[t].lease] = "attempting" BY <1>0, <2>1, <2>2 DEF SendersClaimed, Plan
    <3> DEFINE k == turn[t].lease
    <3>3. /\ \A l \in Lease : l # k => part'[t][l] = part[t][l] /\ wire'[t][l] = wire[t][l]
          /\ wire'[t][k] \in {wire[t][k], wire[t][k] + 1}
      BY <1>0, <2>1, <2>2, <3>1, ResponseMoves
    <3>4. part[t][k] # "possibly" BY <3>2
    <3> HIDE DEF k
    <3> QED BY <3>3, <3>4
  <2>3. CASE drain.work # t
    <3>1. drain.on # t BY <1>0, <2>1, <2>3 DEF Strays
    <3> QED BY <1>7, <2>1, <2>3, <3>1
  <2> QED BY <2>2, <2>3
<1>9. ASSUME NEW o, LaneHears(o)
      PROVE  /\ \A l \in Lease : wire'[t][l] \in {wire[t][l], wire[t][l] + 1}
             /\ \A l \in Lease : part[t][l] = "possibly" => part'[t][l] = "possibly"
  <2>1. lane.pc = "sending" /\ Response(lane.on, lane.on, o) BY <1>9 DEF LaneHears
  <2>2. lane.on # t BY <1>0, <2>1 DEF LaneAgrees
  <2> QED BY <1>7, <2>1, <2>2
<1>10. CASE Restart BY <1>0, <1>10 DEF Restart, history
<1> QED BY <1>0, <1>4, <1>5, <1>6, <1>8, <1>9, <1>10, PartMoves

\* A step that neither opens the turn nor resumes it takes no answer back.
Stands(t) == turn'[t] = turn[t] \/ Ended(t) \/ WritesTurn(t) \/ Interrupted(t)

LEMMA AnsweredStays ==
  ASSUME TypeOK, Agrees, Plans, ScriptIsTrue, Next, NEW t \in Its', Stands(t)
  PROVE  /\ t \in Its /\ SameLease(t)
         /\ Proven(t) => Proven(t)'
         /\ Answered(t) /\ (~Left(t) \/ turn'[t] = turn[t]) => Answered(t)'
         /\ WritesTurn(t) => GoesOn(drain.todo)
<1>1. t \in Its BY Onward DEF Its
<1>2. SameLease(t) BY DEF Stands, Ended, WritesTurn, Interrupted, SameLease
<1>3. Proven(t) => Proven(t)' BY <1>2, ProvenStays
<1>4. ASSUME turn[t].delivery = "undeliverable", ~Left(t) \/ turn'[t] = turn[t] PROVE Answered(t)'
  <2>1. CASE turn'[t].delivery = turn[t].delivery BY <1>4, <2>1 DEF Answered
  <2>2. CASE WritesTurn(t) /\ ~Left(t)
    <3>1. GoesOn(drain.todo) BY <2>2, ScriptGoesOn DEF WritesTurn, DrainWrites, ScriptIsTrue
    <3>2. t = drain.work /\ Head(drain.todo) \in Delivery /\ turn'[t].delivery = Head(drain.todo)
      BY <2>2 DEF WritesTurn
    <3>3. Head(drain.todo) # "failed" BY <1>1, <1>4, <2>2, <3>1, <3>2 DEF GoesOn, ScriptIsTrue
    <3>4. Head(drain.todo) \in {"sent", "possibly"} => Proven(t)
      BY <1>1, <2>2, <3>1, <3>2 DEF GoesOn, ScriptIsTrue
    <3> QED BY <1>3, <3>1, <3>2, <3>3, <3>4 DEF GoesOn, Answered
  <2> QED BY <1>4, <2>1, <2>2 DEF Stands, Ended, Interrupted
<1>5. WritesTurn(t) => GoesOn(drain.todo)
  BY ScriptGoesOn DEF WritesTurn, DrainWrites, ScriptIsTrue
<1> QED BY <1>1, <1>2, <1>3, <1>4, <1>5 DEF Answered

LEMMA SentIsProvenStep ==
  ASSUME TypeOK, Agrees, Plans, Answering, Next
  PROVE  SentIsProven'
<1> SUFFICES ASSUME NEW t \in Its', turn'[t].status # "continuable",
                    turn'[t].delivery \in {"sent", "possibly"}
             PROVE  Proven(t)'
  BY DEF SentIsProven, Left
<1>0. HandAgrees /\ LaneAgrees /\ ScriptIsTrue /\ SentIsProven /\ NotToldYet BY DEF Agrees, Answering
<1>1. Stands(t) BY <1>0, TurnMoves DEF Stands, Opens, Resumes
<1>2. t \in Its /\ (Proven(t) => Proven(t)') /\ (WritesTurn(t) => GoesOn(drain.todo))
  BY <1>0, <1>1, AnsweredStays
<1>3. CASE turn'[t].delivery = turn[t].delivery /\ ~Left(t) BY <1>0, <1>2, <1>3 DEF SentIsProven
<1>4. CASE WritesTurn(t) BY <1>0, <1>2, <1>4 DEF WritesTurn, GoesOn, ScriptIsTrue, Left
<1>5. Ended(t) => ~Left(t) BY <1>0, <1>2 DEF Ended, RunEnds, NotToldYet, Left
<1> QED BY <1>1, <1>3, <1>4, <1>5 DEF Stands, Ended, Interrupted, Left

\* An update that is settled and open stays so, or its drain has just said so.
LEMMA SettledIsAnsweredStep ==
  ASSUME TypeOK, Agrees, Plans, Answering, Next
  PROVE  SettledIsAnswered'
<1>0. /\ HandAgrees /\ LaneAgrees /\ Strays /\ ScriptIsTrue /\ SettledIsAnswered /\ NotToldYet /\ RowsAgree
      /\ ListAgrees /\ CommandsAgree
  BY DEF Agrees, Answering
<1>1. SUFFICES ASSUME NEW u \in Update, NEW t, t = row'[u].work, t \in Its',
                      row'[u].settled, ~row'[u].processed, turn'[t].status \in OverOrAtWork
               PROVE  turn'[t].status # "running" /\ Answered(t)'
  <2>1. \A u \in Update :
            /\ row'[u].work \in Its' /\ row'[u].settled /\ ~row'[u].processed
            /\ turn'[row'[u].work].status \in OverOrAtWork
          => turn'[row'[u].work].status # "running" /\ Answered(row[u].work)'
    BY <1>1 DEF Answered, Proven, Uncertain
  <2> QED BY <2>1 DEF SettledIsAnswered
<1>2. t \in Update /\ t \in Its /\ t \notin astray /\ t # None
  BY Onward, NoneIsNoUpdate, <1>1 DEF Its
<1>3. Kept(u) \/ Closes(u) \/ Binds(u) \/ Writes(u) BY <1>0, RowMoves
<1>4. CASE row[u].work = t /\ row[u].settled /\ ~row[u].processed
  <2>1. Started(t) BY <1>0, <1>2, <1>4 DEF RowsAgree, Begun
  <2>2. Stands(t) BY <1>0, <1>1, <1>4, <2>1, TurnMoves DEF Stands, Opens, Resumes
  <2>3. Answered(t) /\ ~Left(t) => Answered(t)' BY <1>0, <1>1, <2>2, AnsweredStays
  <2>4. turn[t].status \in OverOrAtWork => turn[t].status # "running" /\ Answered(t)
    BY <1>0, <1>2, <1>4 DEF SettledIsAnswered
  <2>5. CASE turn'[t].status = turn[t].status BY <1>1, <2>3, <2>4, <2>5 DEF Left, OverOrAtWork
  <2>6. CASE Ended(t)
    <3>1. drain.pc = "running" /\ drain.on = t BY <2>6 DEF Ended, RunEnds
    <3>2. turn[t].status = "running" BY <1>0, <1>2, <3>1 DEF NotToldYet
    <3> QED BY <2>4, <3>2 DEF OverOrAtWork
  <2> QED BY <1>1, <2>2, <2>5, <2>6 DEF Stands, WritesTurn, Interrupted, OverOrAtWork
<1>5. CASE Kept(u) BY <1>1, <1>4, <1>5 DEF Kept
<1>6. CASE Closes(u) BY <1>0, <1>1, <1>2, <1>6 DEF Closes, RowsAgree
<1>7. CASE Binds(u) BY <1>0, <1>1, <1>7, NoneIsNoUpdate DEF Binds, RowsAgree
<1>8. CASE Writes(u)
  <2>1. DrainWrites /\ u = drain.at /\ drain.todo # <<>> BY <1>8 DEF Writes, DrainWrites
  <2>2. t = drain.work BY <1>0, <1>1, <1>8, <2>1 DEF Writes, HandAgrees, InHand
  <2>3. Head(drain.todo) = "settle" BY <1>1, <1>8 DEF Writes
  <2>4. GoesOn(drain.todo) BY <1>0, <2>1, ScriptGoesOn DEF ScriptIsTrue
  <2>5. drain.todo \in Closing BY <2>3, <2>4 DEF GoesOn
  <2>6. turn' = turn BY <2>1, <2>3 DEF DrainWrites, Delivery
  <2>7. turn[t].status # "running" /\ Answered(t) BY <1>0, <1>1, <1>2, <2>2, <2>5, <2>6 DEF ScriptIsTrue
  <2>8. Answered(t)' BY <1>0, <1>1, <2>6, <2>7, AnsweredStays DEF Stands
  <2> QED BY <2>6, <2>7, <2>8
<1> QED BY <1>3, <1>5, <1>6, <1>7, <1>8

LEMMA DoneIsToldStep ==
  ASSUME TypeOK, Agrees, Plans, Answering, Next
  PROVE  DoneIsTold'
<1>0. /\ HandAgrees /\ LaneAgrees /\ Strays /\ ScriptIsTrue /\ DoneIsTold /\ RowsAgree
      /\ ListAgrees /\ CommandsAgree
  BY DEF Agrees, Answering
<1>1. SUFFICES ASSUME NEW t \in Its', turn'[t].status = "done",
                      \A u \in Update : row'[u].work = t => row'[u].processed
               PROVE  Answered(t)'
  BY DEF DoneIsTold
<1>2. t \in Update /\ t \in Its /\ t \notin astray /\ t # None
  BY Onward, NoneIsNoUpdate DEF Its
<1>8. ~Opens(t)
  <2>1. SUFFICES ASSUME Opens(t), Asks PROVE FALSE BY <1>1 DEF Opens
  <2>2. t = drain.work /\ drain.pc = "bound" /\ row' = row BY <2>1 DEF Opens, Asks
  <2>3. drain.at \in Update /\ row[drain.at].work = t /\ ~row[drain.at].processed
    BY <1>0, <2>2 DEF HandAgrees, InHand, AtWork, Words
  <2> QED BY <1>1, <2>2, <2>3
<1>3. Stands(t) BY <1>0, <1>1, <1>8, TurnMoves DEF Stands, Resumes
<1>4. Answered(t) /\ ~Left(t) => Answered(t)' BY <1>0, <1>3, AnsweredStays
<1>5. CASE Ended(t)
  <2>1. drain.pc = "running" /\ drain.on = t /\ row' = row BY <1>5 DEF Ended, RunEnds
  <2>2. drain.work = t BY <1>0, <1>2, <2>1 DEF Strays
  <2>3. drain.at \in Update /\ row[drain.at].work = t /\ ~row[drain.at].processed
    BY <1>0, <2>1, <2>2 DEF HandAgrees, InHand, AtWork, Words
  <2> QED BY <1>1, <2>1, <2>3
<1>6. CASE turn[t].status = "done"
  <2>1. CASE Answered(t) BY <1>4, <1>6, <2>1 DEF Left
  <2>2. CASE \E u \in Update : row[u].work = t /\ ~row[u].processed
    <3>1. PICK u \in Update : row[u].work = t /\ ~row[u].processed BY <2>2
    <3>2. Kept(u) \/ Closes(u) \/ Binds(u) \/ Writes(u) BY <1>0, RowMoves
    <3>3. ~Kept(u) BY <1>1, <3>1 DEF Kept
    <3>4. ~Closes(u) BY <1>0, <1>2, <3>1 DEF Closes, RowsAgree
    <3>5. ~Binds(u) BY <1>2, <3>1 DEF Binds
    <3>6. Writes(u) BY <3>2, <3>3, <3>4, <3>5
    <3>7. DrainWrites /\ u = drain.at /\ drain.todo # <<>> BY <3>6 DEF Writes, DrainWrites
    <3>8. t = drain.work BY <1>0, <3>1, <3>7 DEF HandAgrees, InHand
    <3>9. Head(drain.todo) = "mark" BY <1>1, <3>1, <3>6 DEF Writes
    <3>10. drain.todo \in Closing BY <1>0, <3>7, <3>9, ScriptGoesOn DEF GoesOn, ScriptIsTrue
    <3>11. Answered(t) BY <1>0, <1>2, <1>6, <3>8, <3>10 DEF ScriptIsTrue, OverOrAtWork
    <3> QED BY <1>4, <1>6, <3>11 DEF Left
  <2> QED BY <1>0, <1>2, <1>6, <2>1, <2>2 DEF DoneIsTold
<1>7. Ended(t) \/ turn[t].status = "done" BY <1>1, <1>3 DEF Stands, WritesTurn, Interrupted
<1> QED BY <1>5, <1>6, <1>7

LEMMA NotToldYetStep ==
  ASSUME TypeOK, Agrees, Plans, Answering, Next
  PROVE  NotToldYet'
<1> DEFINE Busy == {"running", "refused", "made", "sending"}
           Ok(pc, t) == /\ pc \in Busy /\ turn'[t].status # "continuable" => turn'[t].delivery # "undeliverable"
                        /\ pc = "running" => turn'[t].status = "running"
                        /\ pc \in {"refused", "made", "sending"} => turn'[t].status \in {"continuable", "done"}
<1>0. HandAgrees /\ LaneAgrees /\ Strays /\ NotToldYet /\ CommandsAgree /\ ListAgrees BY DEF Agrees, Answering
<1>1. SUFFICES ASSUME drain'.on \in Its', drain'.pc \in Busy PROVE Ok(drain'.pc, drain'.on)
  BY DEF NotToldYet, Left
<1> DEFINE t == drain'.on
<1>2. t \in Its /\ t \in Update /\ t \notin astray' BY <1>1, Onward DEF Its
<1> HIDE DEF t
<1>3. SUFFICES Ok(drain'.pc, t) BY DEF t
<1>4. ~DrainWrites \/ drain.pc \notin AtWork BY <1>0 DEF DrainWrites, HandAgrees
<1>5. CASE Same
  <2>1. drain.pc \in Busy /\ drain.on = t /\ drain'.pc = drain.pc BY <1>1, <1>5 DEF Same, DrainIs, t
  <2>2. ~Restart
    <3>1. Restart => drain'.pc = "off" BY NoDrainType DEF Restart
    <3> QED BY <1>1, <3>1
  <2>3. ~RunEnds(turn'[t].status)
    <3>1. ASSUME NEW s, RunEnds(s) PROVE drain.pc = "running" /\ drain'.pc # "running"
      <4>1. drain' = LetGo(Finish) \/ drain' = [drain EXCEPT !.pc = "made"] BY <3>1 DEF RunEnds
      <4>2. LetGo(Finish).pc = "next" BY DEF LetGo, TypeOK, Drain
      <4>3. [drain EXCEPT !.pc = "made"].pc = "made" BY DEF TypeOK, Drain
      <4> QED BY <3>1, <4>1, <4>2, <4>3 DEF RunEnds
    <3> QED BY <2>1, <3>1
  <2>4. turn'[t] = turn[t] \/ Opens(t) \/ Resumes(t) \/ Ended(t) \/ WritesTurn(t) \/ Interrupted(t)
    BY <1>0, <1>1, TurnMoves DEF t
  <2>5. turn'[t] = turn[t]
    BY <1>4, <2>1, <2>2, <2>3, <2>4
    DEF Opens, Resumes, Ended, WritesTurn, Interrupted, Enqueue, Run, Asks, Resume, AtWork
  <2> QED BY <1>0, <1>2, <2>1, <2>5 DEF NotToldYet, Left
<1>6. CASE Idles BY <1>1, <1>6 DEF Idles
<1>7. ASSUME NEW e, Shows(e) \/ Takes(e) PROVE FALSE
  BY <1>1, <1>7 DEF Shows, Takes, DrainIs
<1>8. ASSUME NEW e, Retakes(e) PROVE Ok(drain'.pc, t)
  <2>1. turn' = turn BY <1>8 DEF Retakes, Recover, turnVars
  <2>2. /\ ~Told(e.work) /\ turn[e.work].status = "done"
        /\ DrainIs("made", e.id, e.work, e.work, <<>>)
    BY <1>1, <1>8, RecoverFields DEF Retakes, DrainIs
  <2>3. t = e.work /\ drain'.pc = "made" BY <2>2 DEF DrainIs, t
  <2> QED BY <2>1, <2>2, <2>3 DEF Told
<1>9. CASE Gives
  <2>1. PICK v \in Update :
          /\ turn'[v].status = "running" /\ turn'[v].delivery \in {"pending", "none"}
          /\ DrainIs("running", drain.at, drain.work, v, <<>>)
    BY <1>9 DEF Gives
  <2> QED BY <2>1 DEF DrainIs, t
<1>10. CASE Answers
  <2>1. PICK s \in {"continuable", "done"} : RunEnds(s) BY <1>10 DEF Answers
  <2>2. drain.on = t /\ drain.pc = "running" /\ drain'.pc = "made" BY <1>10 DEF Answers, DrainIs, t
  <2>3. turn' = [turn EXCEPT ![t].status = s] BY <2>1, <2>2 DEF RunEnds, Ends
  <2>4. turn'[t].status = s /\ turn'[t].delivery = turn[t].delivery BY <1>2, <2>3 DEF TypeOK, Turn
  <2> QED BY <1>0, <1>2, <2>2, <2>4 DEF NotToldYet, Left
<1>14. CASE Puts BY <1>14 DEF Puts, DrainIs, t
<1>15. CASE Declines
  <2>1. turn' = turn /\ t = drain.work /\ drain'.pc = "refused"
    BY <1>15 DEF Declines, DeadRoute, turnVars, DrainIs, t
  <2> QED BY <1>2, <1>15, <2>1 DEF Declines
<1>11. CASE Tries
  <2>1. turn' = turn /\ drain.on = t /\ drain.pc \in {"made", "refused"} /\ drain'.pc = "sending"
    BY <1>11 DEF Tries, DrainSends, DrainIs, t
  <2> QED BY <1>0, <1>2, <2>1 DEF NotToldYet, Left
<1>12. CASE Leaves BY <1>1, <1>12 DEF Leaves, DrainIs
<1>13. CASE WritesOne
  <2>1. drain'.pc = drain.pc /\ drain.todo # <<>> BY <1>13 DEF WritesOne, DrainIs
  <2> QED BY <1>0, <1>1, <2>1 DEF HandAgrees, AtWork
<1> HIDE DEF Ok
<1> QED
  BY <1>0, <1>5, <1>6, <1>7, <1>8, <1>9, <1>10, <1>11, <1>12, <1>13, <1>14, <1>15, HandMoves

\* Every script is true when the drain begins it.
LEMMA OutcomeScripts ==
  /\ <<>> \in Scripts \ (Proves \cup Closing \cup {Refusal, Renounces})
  /\ Then("sent") \in Proves \cap Closing /\ Then("possibly") \in Proves \cap Closing
  /\ Then("refused") = Refusal /\ Refusal \notin Proves \cup Closing
  /\ Then("deferred") = <<>>
  /\ Finish \in Closing \ Proves /\ FinishAfter("undeliverable") = Renounces
  /\ Renounces \notin Proves \cup Closing
  /\ FinishAfter("sent") \in Proves \cap Closing /\ FinishAfter("possibly") \in Proves \cap Closing
<1>1. <<>> \in Scripts \ (Proves \cup Closing \cup {Refusal, Renounces})
  BY DEF Scripts, Proves, Closing, Refusal, Renounces
<1>2. /\ Then("sent") = <<"settle", "sent", "mark", "scrub">>
      /\ Then("possibly") = <<"settle", "mark", "scrub", "possibly">>
      /\ Then("refused") = <<"failed">> /\ Then("deferred") = <<>>
  BY DEF Then
<1>3. Refusal \notin Proves \cup Closing BY DEF Proves, Closing, Refusal
<1>4. Renounces \notin Proves \cup Closing BY DEF Proves, Closing, Renounces
<1>5. Finish \in Closing \ Proves BY DEF Finish, Proves, Closing
<1> QED BY <1>1, <1>2, <1>3, <1>4, <1>5 DEF Proves, Closing, Refusal, Renounces, FinishAfter

LEMMA ScriptIsTrueStep ==
  ASSUME TypeOK, Agrees, Plans, Answering, Next
  PROVE  ScriptIsTrue'
<1> DEFINE Ok(t, todo) ==
             /\ todo \in Scripts
             /\ t \in Its' =>
                  /\ todo \in Proves /\ turn'[t].status # "continuable" => Proven(t)'
                  /\ todo = Refusal /\ turn'[t].status # "continuable" => turn'[t].delivery # "undeliverable"
                  /\ todo \in Closing \cup {Renounces} => turn'[t].status # "running"
                  /\ todo \in Closing /\ turn'[t].status \in OverOrAtWork => Answered(t)'
<1>0. /\ HandAgrees /\ LaneAgrees /\ Strays /\ ScriptIsTrue /\ NotToldYet /\ SettledIsAnswered /\ SentIsProven
      /\ CommandsAgree /\ ListAgrees /\ PlansAgree /\ SendersClaimed
  BY DEF Agrees, Answering, Plans
<1>1. SUFFICES ASSUME NEW t, t = drain'.work PROVE Ok(t, drain'.todo)
  BY DEF ScriptIsTrue, Answered, Proven, Uncertain, Left
<1>2. t \in Its' => t \in Its /\ t \in Update /\ t \notin astray /\ t \notin astray' BY Onward DEF Its
<1>3. ASSUME drain'.todo = <<>> PROVE Ok(t, drain'.todo) BY <1>3, OutcomeScripts
<1>4. ASSUME turn' = turn, t \in Its' PROVE (Proven(t) => Proven(t)') /\ (Answered(t) => Answered(t)')
  BY <1>0, <1>4, AnsweredStays DEF Stands
<1>5. CASE Same
  <2>1. t = drain.work /\ drain'.todo = drain.todo BY <1>1, <1>5 DEF Same, DrainIs
  <2>2. CASE drain.todo = <<>> BY <1>3, <2>1, <2>2
  <2>3. CASE drain.todo # <<>> /\ t \in Its'
    <3>1. turn'[t] = turn[t] \/ Opens(t) \/ Resumes(t) \/ Ended(t) \/ WritesTurn(t) \/ Interrupted(t)
      BY <1>0, <2>3, TurnMoves
    <3>2. ~Restart
      <4>1. Restart => drain'.todo = <<>> BY NoDrainType DEF Restart
      <4> QED BY <2>1, <2>3, <4>1
    <3>3. ~DrainWrites
      <4>1. SUFFICES ASSUME DrainWrites PROVE FALSE OBVIOUS
      <4>2. drain' = [drain EXCEPT !.todo = Tail(drain.todo)] BY <4>1 DEF DrainWrites
      <4>3. drain'.todo = Tail(drain.todo) BY <4>2 DEF TypeOK, Drain
      <4>4. drain.todo \in Seq(Statement) BY DEF TypeOK, Drain
      <4>5. Len(Tail(drain.todo)) = Len(drain.todo) - 1 /\ Len(drain.todo) \in Nat
        BY <2>3, <4>4, HeadTailProperties
      <4>6. Tail(drain.todo) = drain.todo BY <2>1, <4>3
      <4> DEFINE n == Len(drain.todo)
      <4>7. n = n - 1 /\ n \in Nat BY <4>5, <4>6
      <4> HIDE DEF n
      <4> QED BY <4>7
    <3>4. turn'[t] = turn[t]
      BY <2>3, <3>1, <3>2, <3>3
      DEF Opens, Resumes, Ended, WritesTurn, Interrupted, Enqueue, Run, Asks, Resume, RunEnds, Yielded
    <3>5. (Proven(t) => Proven(t)') /\ (Answered(t) => Answered(t)')
      BY <1>0, <2>3, <3>4, AnsweredStays DEF Stands
    <3> QED BY <1>0, <1>2, <2>1, <2>3, <3>4, <3>5 DEF ScriptIsTrue, Left
  <2>4. CASE drain.todo # <<>> /\ t \notin Its' BY <1>0, <2>1, <2>4 DEF ScriptIsTrue
  <2> QED BY <2>2, <2>3, <2>4
<1>6. CASE Idles BY <1>3, <1>6 DEF Idles
<1>7. ASSUME NEW e, Shows(e) \/ Takes(e) PROVE Ok(t, drain'.todo)
  <2>1. drain'.todo = <<>> BY <1>7 DEF Shows, Takes, DrainIs
  <2> QED BY <1>3, <2>1
<1>8. CASE Gives \/ Puts \/ Declines \/ Answers \/ Tries
  <2>1. drain'.todo = <<>> BY <1>8 DEF Gives, Puts, Declines, Answers, Tries, DrainIs
  <2> QED BY <1>3, <2>1
<1>9. ASSUME NEW e, Retakes(e) PROVE Ok(t, drain'.todo)
  <2>1. turn' = turn /\ TakesUp(e) /\ e.work \in Update BY <1>9 DEF Retakes, Recover, turnVars
  <2>2. /\ e.id \in Update /\ e.work = row[e.id].work /\ e.id \in Words
        /\ e.settled = row[e.id].settled /\ ~row[e.id].processed
    BY <1>0, <1>9, <2>1, TakenUp DEF ListAgrees, Retakes, Recover, Words
  <2>3. \/ drain'.todo = <<>>
        \/ /\ e.settled \/ Told(e.work)
           /\ turn[e.work].status \in {"continuable", "done"}
           /\ DrainIs("next", e.id, e.work, None, Repaired(e.work))
        \/ /\ turn[e.work].status \in {"continuable", "done"}
           /\ DrainIs("next", e.id, e.work, None, FinishAfter("undeliverable"))
    BY <1>9, RecoverFields DEF Retakes, DrainIs
  <2>4. CASE /\ e.settled \/ Told(e.work)
             /\ turn[e.work].status \in {"continuable", "done"}
             /\ DrainIs("next", e.id, e.work, None, Repaired(e.work))
    <3>1. t = e.work /\ drain'.todo = Repaired(t) BY <1>1, <2>4 DEF DrainIs
    <3>2. t \in Its /\ ~Left(t) => Answered(t)
      <4>1. CASE Told(t) BY <1>0, <4>1 DEF Told, SentIsProven, Answered
      <4>2. CASE e.settled BY <1>0, <2>2, <2>4, <3>1, <4>2 DEF SettledIsAnswered, OverOrAtWork, Left
      <4> QED BY <2>4, <3>1, <4>1, <4>2
    <3>3. drain'.todo \in Closing \ {Refusal, Renounces} BY <3>1, OutcomeScripts DEF Repaired
    <3>4. t \in Its /\ ~Left(t) /\ drain'.todo \in Proves => Proven(t)
      BY <3>1, <3>2, OutcomeScripts DEF Repaired, Told, Answered, Proven
    <3> QED BY <1>2, <1>4, <2>1, <2>4, <3>1, <3>2, <3>3, <3>4 DEF Scripts, OverOrAtWork, Left
  <2>5. CASE /\ turn[e.work].status \in {"continuable", "done"}
             /\ DrainIs("next", e.id, e.work, None, FinishAfter("undeliverable"))
    <3>1. t = e.work /\ drain'.todo = Renounces BY <1>1, <2>5, OutcomeScripts DEF DrainIs
    <3>2. Renounces # Refusal BY DEF Renounces, Refusal
    <3> QED BY <2>1, <2>5, <3>1, <3>2, OutcomeScripts DEF Scripts
  <2> QED BY <1>3, <2>3, <2>4, <2>5
<1>10. CASE WritesOne
  <2>1. DrainWrites /\ drain.todo # <<>> /\ t = drain.work /\ drain'.todo = Tail(drain.todo)
    BY <1>1, <1>10 DEF WritesOne, DrainIs
  <2>2. GoesOn(drain.todo) BY <1>0, <2>1, ScriptGoesOn DEF ScriptIsTrue
  <2>3. CASE t \notin Its' BY <2>1, <2>2, <2>3 DEF GoesOn
  <2>4. CASE t \in Its'
    <3>1. Stands(t)
      <4>1. turn'[t] = turn[t] \/ Opens(t) \/ Resumes(t) \/ Ended(t) \/ WritesTurn(t) \/ Interrupted(t)
        BY <1>0, <2>4, TurnMoves
      <4> QED BY <2>1, <4>1 DEF Stands, Opens, Resumes, Enqueue, Run, Asks, Resume, Yielded
    <3>2. ~Ended(t) /\ ~Interrupted(t)
      <4>1. Restart => drain'.pc = "off" BY NoDrainType DEF Restart
      <4>2. drain'.pc = drain.pc /\ drain.pc # "off" BY <1>0, <1>10 DEF WritesOne, DrainIs, HandAgrees
      <4> QED BY <2>1, <4>1, <4>2 DEF Ended, RunEnds, Yielded, Interrupted
    <3>3. turn'[t].status = turn[t].status BY <3>1, <3>2 DEF Stands, WritesTurn
    <3>4. (Proven(t) => Proven(t)') /\ (Answered(t) /\ ~Left(t) => Answered(t)')
      BY <1>0, <2>4, <3>1, AnsweredStays
    <3>5. ASSUME drain.todo = Renounces PROVE Answered(t)'
      <4>1. Head(drain.todo) = "undeliverable" BY <3>5 DEF Renounces
      <4>2. Delivered(t, "undeliverable") BY <2>1, <4>1 DEF DrainWrites
      <4>3. Started(t) BY <1>0, <1>2, <2>1, <2>4 DEF HandAgrees, Begun
      <4>4. turn' = [turn EXCEPT ![t].delivery = "undeliverable"] BY <4>2, <4>3 DEF Delivered, Started
      <4>5. turn'[t].delivery = "undeliverable" BY <1>2, <2>4, <4>4 DEF TypeOK, Turn
      <4> QED BY <4>5 DEF Answered
    <3>6. t \in Its BY <1>2, <2>4
    <3>7. Tail(drain.todo) \in Closing => drain.todo \in Closing \/ drain.todo = Renounces
      BY <2>2 DEF GoesOn
    <3>8. Tail(drain.todo) \in Closing \cup {Renounces} => turn'[t].status # "running"
      BY <1>0, <2>1, <2>2, <3>3, <3>6, <3>7 DEF ScriptIsTrue, GoesOn
    <3>9. Tail(drain.todo) \in Closing /\ turn'[t].status \in OverOrAtWork => Answered(t)'
      BY <1>0, <2>1, <3>3, <3>4, <3>5, <3>6, <3>7 DEF ScriptIsTrue, OverOrAtWork, Left
    <3>10. Tail(drain.todo) \in Proves /\ turn'[t].status # "continuable" => Proven(t)'
      BY <1>0, <2>1, <2>2, <3>3, <3>4, <3>6 DEF ScriptIsTrue, GoesOn, Left
    <3> QED BY <2>1, <2>2, <3>8, <3>9, <3>10 DEF GoesOn
  <2> QED BY <2>3, <2>4
<1>11. CASE Leaves
  <2>0. t = drain.work /\ drain.pc \in AtWork BY <1>1, <1>11 DEF Leaves, DrainIs
  <2>a. \A todo \in Seq(Statement) : LetGo(todo).todo = todo /\ LetGo(todo).pc = "next"
    BY LetGoType DEF TypeOK
  <2>b. t \in Its' => (drain.pc \in {"running", "refused", "made", "sending"} => drain.on = t)
    BY <1>0, <1>2, <2>0 DEF Strays
  <2>c. t \in Update BY <1>0, <2>0 DEF HandAgrees, InHand
  <2>1. CASE Enqueue
    <3>1. drain'.todo = Finish BY <2>1, <2>a, FinishType DEF Enqueue
    <3>2. turn'[t].status = "runnable" BY <2>0, <2>1, <2>c DEF Enqueue, TypeOK, Opened
    <3> QED BY <3>1, <3>2, OutcomeScripts DEF Scripts, OverOrAtWork, Finish, Refusal
  <2>2. ASSUME NEW s, RunEnds(s), s \in Ending PROVE Ok(t, drain'.todo)
    <3>1. s = "waiting" /\ drain' = LetGo(Finish)
      <4>1. [drain EXCEPT !.pc = "made"].pc = "made" BY DEF TypeOK, Drain
      <4>2. drain'.pc = "next" BY <1>11 DEF Leaves, DrainIs
      <4> QED BY <2>2, <4>1, <4>2 DEF RunEnds
    <3>2. drain'.todo = Finish BY <2>a, <3>1, FinishType
    <3>3. t \in Its' => turn'[t].status = "waiting"
      <4>1. SUFFICES ASSUME t \in Its' PROVE turn'[t].status = "waiting" OBVIOUS
      <4>2. drain.on = t BY <2>2, <2>b, <4>1 DEF RunEnds
      <4> QED BY <2>2, <2>c, <3>1, <4>2, TurnFields DEF RunEnds, Ends, TypeOK
    <3> QED BY <3>2, <3>3, OutcomeScripts DEF Scripts, OverOrAtWork, Finish, Refusal
  <2>3. CASE DrainSends
    <3>1. drain' = LetGo(Then(AlreadyThere(Plan(t)))) /\ ~Claimable(Plan(t)) /\ drain.pc \in {"made", "refused"}
      <4>1. [drain EXCEPT !.pc = "sending"].pc = "sending" BY DEF TypeOK, Drain
      <4>2. drain'.pc = "next" BY <1>11 DEF Leaves, DrainIs
      <4> QED BY <2>0, <2>3, <4>1, <4>2 DEF DrainSends
    <3>2. drain'.todo = Then(AlreadyThere(Plan(t))) BY <2>a, <3>1, ThenType
    <3>3. Plan(t) \in {"attempting", "sent", "possibly"}
      <4>1. Plan(t) \in Part BY <2>c DEF Plan, TypeOK, Turn
      <4> QED BY <3>1, <4>1 DEF Part, Claimable
    <3>4. turn' = turn BY <2>3 DEF DrainSends
    <3>5. t \in Its' => turn[t].status \in {"continuable", "done"}
      BY <1>0, <1>2, <2>b, <3>1 DEF NotToldYet
    <3>6. CASE Plan(t) = "attempting"
      <4>1. drain'.todo = <<>> BY <3>2, <3>6, OutcomeScripts DEF AlreadyThere
      <4> QED BY <1>3, <4>1
    <3>7. CASE Plan(t) \in {"sent", "possibly"}
      <4>1. drain'.todo \in Proves \cap Closing BY <3>2, <3>7, OutcomeScripts DEF AlreadyThere
      <4>2. t \in Its' => Proven(t)
        <5>1. turn[t].lease \in Lease BY <2>c DEF TypeOK, Turn
        <5> QED BY <1>0, <1>2, <3>7, <5>1 DEF PlansAgree, Plan, Proven, Uncertain
      <4>3. t \in Its' => Proven(t)' /\ Answered(t)' BY <1>4, <3>4, <4>2 DEF Answered
      <4> QED BY <3>4, <3>5, <4>1, <4>3, OutcomeScripts DEF Scripts
    <3> QED BY <3>3, <3>6, <3>7
  <2>4. ASSUME NEW o, DrainHears(o) PROVE Ok(t, drain'.todo)
    <3>1. /\ drain.pc = "sending" /\ drain' = LetGo(Then(o)) /\ Response(drain.on, t, o) /\ turn' = turn
      BY <2>0, <2>4 DEF DrainHears
    <3>2. drain'.todo = Then(o) BY <2>a, <3>1, ThenType
    <3>3. o \in {"sent", "refused", "possibly"} BY <3>1 DEF Response
    <3>4. Then(o) \in Scripts BY <3>3, OutcomeScripts DEF Scripts
    <3>5. CASE t \notin Its' BY <3>2, <3>4, <3>5
    <3>6. CASE t \in Its'
      <4>1. drain.on = t BY <2>b, <3>1, <3>6
      <4>2. turn[t].status \in {"continuable", "done"} /\ (~Left(t) => turn[t].delivery # "undeliverable")
        BY <1>0, <1>2, <3>1, <3>6, <4>1 DEF NotToldYet
      <4>3. CASE o = "refused" BY <3>1, <3>2, <3>4, <3>6, <4>2, <4>3, OutcomeScripts DEF Refusal, Renounces, Left
      <4>4. CASE o \in {"sent", "possibly"}
        <5>1. turn[t].lease \in Lease /\ Plan(t) = "attempting"
          BY <1>0, <1>2, <2>0, <2>c, <3>1, <3>6 DEF TypeOK, Turn, SendersClaimed
        <5>2. wire[t][turn[t].lease] = 0 BY <1>0, <1>2, <3>6, <5>1 DEF PlansAgree, Plan
        <5>3. \/ part'[t][turn[t].lease] = "sent" /\ wire'[t][turn[t].lease] = 1
              \/ part'[t][turn[t].lease] = "possibly"
              \/ part'[t][turn[t].lease] = "rejected"
          BY <2>c, <3>1, <4>1, <5>2, ResponseMoves
        <5>4. part'[t][turn[t].lease] = o
          BY <2>c, <3>1, <4>4, <5>1 DEF Response, Planned, TypeOK
        <5>5. Proven(t)' BY <3>1, <4>4, <5>1, <5>3, <5>4 DEF Proven, Uncertain
        <5> QED BY <3>1, <3>2, <3>4, <4>2, <4>4, <5>5, OutcomeScripts DEF Answered
      <4> QED BY <3>3, <4>3, <4>4
    <3> QED BY <3>5, <3>6
  <2> HIDE DEF Ok
  <2> QED BY <1>11, <2>1, <2>2, <2>3, <2>4 DEF Leaves
<1> HIDE DEF Ok
<1> QED
  BY <1>0, <1>5, <1>6, <1>7, <1>8, <1>9, <1>10, <1>11, HandMoves

----------------------------------------------------------------------------
(* The invariant, and what it says of every update and every turn.         *)

IInv == TypeOK /\ Agrees /\ Held /\ Plans /\ Answering

LEMMA InitTypes == Init => TypeOK
<1> SUFFICES ASSUME Init PROVE TypeOK OBVIOUS
<1>1. kind \in [Update -> Kind] /\ arrived \in 0 .. MaxUpdates /\ offset \in 1 .. MaxUpdates + 1
  BY Bounds, WhatIsSent DEF Init
<1>2. row \in [Update -> Row]
  <2>1. [body |-> "none", work |-> None, settled |-> FALSE, processed |-> FALSE] \in Row BY DEF Row
  <2> QED BY <2>1 DEF Init
<1>3. turn \in [Update -> Turn] /\ wire \in [Update -> [Lease -> Nat]] /\ part \in [Update -> [Lease -> Part]]
  <2>1. [status |-> "none", lease |-> 0, delivery |-> "none"] \in Turn
    BY Bounds DEF Turn, Status, Lease, Delivery
  <2> QED BY <2>1 DEF Init, Part
<1>4. paused \in BOOLEAN /\ poller \in Poller /\ gestiti \in SUBSET Update BY DEF Init, Poller
<1>5. drain \in Drain /\ lane \in Lane
  <2>1. NoLane \in Lane BY DEF NoLane, Lane
  <2> QED BY <2>1, NoDrainType DEF Init
<1>6. /\ read \in [Update -> Nat] /\ served \in [Update -> Nat]
      /\ away \in SUBSET Update /\ astray \in SUBSET Update /\ presumed \in SUBSET Update
  BY DEF Init
<1>7. left \in [crashes : 0 .. MaxCrashes, refusals : 0 .. MaxRefusals]
  BY Bounds DEF Init, Crashes, Refusals
<1> QED BY <1>1, <1>2, <1>3, <1>4, <1>5, <1>6, <1>7 DEF TypeOK

LEMMA InitHolds == Init => IInv
<1> SUFFICES ASSUME Init PROVE IInv OBVIOUS
<1>1. TypeOK BY InitTypes
<1>2. /\ drain.pc = "off" /\ drain.list = {} /\ drain.at = None /\ drain.todo = <<>>
      /\ lane.pc = "idle" /\ lane.todo = <<>>
  BY NoDrainType DEF Init, NoLane
<1>3. \A u \in Update : /\ row[u].body = "none" /\ row[u].work = None /\ ~row[u].settled /\ ~row[u].processed
                        /\ turn[u].status = "none" /\ turn[u].lease = 0 /\ turn[u].delivery = "none"
                        /\ read[u] = 0
  BY DEF Init
<1>4. Agrees
  <2>1. ListAgrees BY <1>2 DEF ListAgrees
  <2>2. HandAgrees /\ Strays BY <1>2 DEF HandAgrees, Strays, InHand, AtWork
  <2>3. CommandsAgree BY DEF CommandsAgree, Init
  <2>4. LaneAgrees BY <1>2 DEF LaneAgrees
  <2>5. RowsAgree BY <1>3, NoneIsNoUpdate DEF RowsAgree
  <2>6. WordsAreRead BY <1>3 DEF WordsAreRead, Started
  <2> QED BY <2>1, <2>2, <2>3, <2>4, <2>5, <2>6 DEF Agrees
<1>5. Held BY <1>3 DEF Held, EveryUpdateIsHeld, Pending, Init
<1>6. Plans BY <1>2, <1>3 DEF Plans, LeaseStarts, PlansAgree, SendersClaimed, Init
<1>7. Answering
  <2>1. SentIsProven BY <1>3 DEF SentIsProven, Its
  <2>2. SettledIsAnswered BY <1>3 DEF SettledIsAnswered
  <2>3. ScriptIsTrue BY <1>2, OutcomeScripts DEF ScriptIsTrue
  <2>4. NotToldYet BY <1>2 DEF NotToldYet
  <2>5. DoneIsTold BY <1>3 DEF DoneIsTold, Its
  <2> QED BY <2>1, <2>2, <2>3, <2>4, <2>5 DEF Answering
<1> QED BY <1>1, <1>4, <1>5, <1>6, <1>7 DEF IInv

LEMMA StepHolds == IInv /\ [Next]_vars => IInv'
<1> SUFFICES ASSUME IInv, [Next]_vars PROVE IInv' OBVIOUS
<1>1. TypeOK /\ Agrees /\ Held /\ Plans /\ Answering BY DEF IInv
<1>2. CASE Next
  <2>1. TypeOK' /\ Agrees' BY <1>1, <1>2, AgreesStep
  <2>2. Held' /\ Plans' BY <1>1, <1>2, HeldStep, PlansStep
  <2>3. Answering'
    BY <1>1, <1>2, SentIsProvenStep, SettledIsAnsweredStep, ScriptIsTrueStep, NotToldYetStep, DoneIsToldStep
    DEF Answering
  <2> QED BY <2>1, <2>2, <2>3 DEF IInv
<1>3. CASE UNCHANGED vars
  <2> USE <1>3 DEF vars
  <2>1. TypeOK' BY <1>1 DEF TypeOK
  <2>2. Agrees'
    BY <1>1
    DEF Agrees, ListAgrees, HandAgrees, Strays, CommandsAgree, LaneAgrees, RowsAgree, WordsAreRead, InHand,
        Words, Begun, Started
  <2>3. Held' /\ Plans'
    BY <1>1
    DEF Held, EveryUpdateIsHeld, Pending, Plans, LeaseStarts, PlansAgree, SendersClaimed, Started, Plan
  <2>4. Answering'
    BY <1>1
    DEF Answering, SentIsProven, SettledIsAnswered, ScriptIsTrue, NotToldYet, DoneIsTold, Its, Answered,
        Proven, Uncertain, Left
  <2> QED BY <2>1, <2>2, <2>3, <2>4 DEF IInv
<1> QED BY <1>2, <1>3

LEMMA IInvHolds == Spec => []IInv
BY InitHolds, StepHolds, PTL DEF Spec

\* The inbox, the drain, the lane and what is written of them have their
\* shape; the lists and scripts a drain works from are finite and sound.
THEOREM InboxTypeCorrect == Spec => []TypeOK
<1>1. IInv => TypeOK BY DEF IInv
<1> QED BY <1>1, IInvHolds, PTL

\* No update is lost between the server, which forgets what is below the
\* offset, and the inbox, and the body of one that is still pending is never
\* retired: accept and scrubSettledPayload of connectors/telegram/updates.ts.
THEOREM HeldCorrect == Spec => []EveryUpdateIsHeld
<1>1. IInv => EveryUpdateIsHeld BY DEF IInv, Held
<1> QED BY <1>1, IInvHolds, PTL

\* Telegram accepts the answer of a lease once, whether the drain or the lane
\* sends it, and whatever crash comes between the claim of a part, the send and
\* the record of it: connectors/telegram/delivery.ts.
THEOREM AnswerSentOnceCorrect == Spec => []AnswerSentOnce
<1>1. IInv => AnswerSentOnce BY DEF IInv, Plans, PlansAgree, AnswerSentOnce
<1> QED BY <1>1, IInvHolds, PTL

\* An event is closed only when one turn has begun with its words, and a turn
\* that is over and has no event open was answered, or may have been, or its
\* text was gone: the walk of connectors/shared/ingress/router.ts.
THEOREM ClosedCorrect == Spec => []ClosedWasServed
<1>1. IInv => ConsumedWasRead
  <2> SUFFICES ASSUME IInv, NEW u \in Update, kind[u] = "text"
               PROVE  read[u] <= 1 /\ (row[u].processed => read[u] = 1)
    BY DEF ConsumedWasRead
  <2>1. RowsAgree /\ WordsAreRead /\ u \in Words BY DEF IInv, Agrees, Words
  <2>2. read[u] = IF Started(u) THEN 1 ELSE 0 BY <2>1 DEF WordsAreRead
  <2>3. row[u].processed => Started(u) BY <2>1 DEF RowsAgree, Begun
  <2> QED BY <2>2, <2>3
<1>2. IInv => ClosedWasTold
  <2> SUFFICES ASSUME IInv, NEW t \in Update, turn[t].status = "done",
                      t \notin away \cup astray \cup presumed,
                      \A u \in Update : row[u].work = t => row[u].processed
               PROVE  wire[t][turn[t].lease] = 1 \/ Uncertain(t) \/ turn[t].delivery = "undeliverable"
    BY DEF ClosedWasTold
  <2>1. t \in Its BY DEF Its
  <2>2. Answered(t) BY <2>1 DEF IInv, Answering, DoneIsTold
  <2> QED BY <2>2 DEF Answered, Proven
<1> QED BY <1>1, <1>2, IInvHolds, PTL DEF ClosedWasServed
=============================================================================
