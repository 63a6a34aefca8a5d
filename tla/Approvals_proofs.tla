-------------------------- MODULE Approvals_proofs --------------------------
(***************************************************************************)
(* The proofs about the register of questions: its type, that an answer is *)
(* spent on one effect, and that the open questions are those of the turn. *)
(*                                                                         *)
(* The invariant says who drives the turn, what the rows may hold, which   *)
(* effects are about to run and what the terminal has in hand.  Three sets *)
(* of lemmas describe a step, of the register (Gains), of one process      *)
(* (Moved) and of the turn's row (TurnMoved), and the conjuncts of the     *)
(* invariant follow from them.                                             *)
(***************************************************************************)
EXTENDS Approvals, FiniteSetTheorems, TLAPS

----------------------------------------------------------------------------
(* The register.                                                           *)

\* A set of naturals has a least one.
LEMMA Least ==
  ASSUME NEW S \in SUBSET Nat, S # {}
  PROVE  \E x \in S : \A y \in S : x <= y
<1> DEFINE R == OpToRel(<, Nat)
<1>1. IsWellFoundedOn(R, Nat) BY NatLessThanWellFounded
<1>2. \A x, y \in Nat : x < y => <<x, y>> \in R BY DEF OpToRel
<1> HIDE DEF R
<1>3. PICK x \in S : \A y \in S : <<y, x>> \notin R BY <1>1, WFMin
<1>4. ASSUME NEW y \in S PROVE x <= y
  <2>1. x \in Nat /\ y \in Nat OBVIOUS
  <2>2. ~(y < x) BY <1>2, <1>3, <2>1
  <2> QED BY <2>1, <2>2
<1> QED BY <1>4

\* The operator Min of the community modules returns a member.
LEMMA MinIn ==
  ASSUME NEW S \in SUBSET Nat, S # {}
  PROVE  Min(S) \in S
BY Least DEF Min

\* What the type says of the rows.
Rows(rows) == rows \in Seq(Row) /\ Len(rows) <= MaxQuestions

\* A register that is well typed has rows, numbered from the oldest.
LEMMA RowsAre ==
  ASSUME NEW rows, Rows(rows)
  PROVE  /\ Len(rows) \in Nat /\ DOMAIN rows = 1 .. Len(rows)
         /\ DOMAIN rows \subseteq Question /\ DOMAIN rows \subseteq Nat
         /\ None \notin DOMAIN rows
         /\ \A q \in DOMAIN rows : rows[q] \in Row
BY Constants DEF Rows, Question, None

\* The answers of a register are counted.
LEMMA Counted ==
  ASSUME NEW rows, Rows(rows)
  PROVE  Decisions(rows) \in Nat
<1>1. IsFiniteSet(1 .. Len(rows)) BY FS_Interval, RowsAre
<1>2. IsFiniteSet({q \in DOMAIN rows : rows[q].decision # "none"})
  BY <1>1, FS_Subset, RowsAre
<1> QED BY <1>2, FS_CardinalityType DEF Decisions

\* The question of a call: the open one there is, or a new one.
LEMMA AskRows ==
  ASSUME Rows(questions), NEW c \in Call, Room(c)
  PROVE  /\ Rows(Ask(c)) /\ Asked \subseteq DOMAIN Ask(c)
         /\ Place(c) \in DOMAIN Ask(c)
         /\ \A q \in Asked : Ask(c)[q] = questions[q]
         /\ \A q \in DOMAIN Ask(c) : q \in Asked \/ q = Place(c)
         /\ Ask(c)[Place(c)].call = c /\ Ask(c)[Place(c)].decision = "none"
         /\ ~Ask(c)[Place(c)].withdrawn
         /\ Place(c) \in Asked => Place(c) \in OpenFor(c)
         /\ Place(c) \notin Asked => OpenFor(c) = {} /\ ~Ask(c)[Place(c)].consumed
<1>1. OpenFor(c) \subseteq Asked /\ Asked = 1 .. Len(questions) /\ Len(questions) \in Nat
  BY RowsAre DEF OpenFor, Open, Asked
<1>2. CASE OpenFor(c) # {}
  <2>1. OpenFor(c) \in SUBSET Nat BY <1>1
  <2>2. Place(c) \in OpenFor(c) BY <1>2, <2>1, MinIn DEF Place
  <2>3. Ask(c) = questions BY <1>1, <2>2 DEF Ask
  <2> QED BY <1>1, <2>2, <2>3 DEF OpenFor, Open, IsOpen, Asked
<1>3. CASE OpenFor(c) = {}
  <2> DEFINE row == [call |-> c, decision |-> "none", at |-> 0,
                     consumed |-> FALSE, withdrawn |-> FALSE]
  <2>1. Place(c) = Len(questions) + 1 BY <1>3 DEF Place
  <2>2. Ask(c) = Append(questions, row) BY <1>1, <2>1 DEF Ask
  <2>3. row \in Row BY DEF Row, Decision
  <2>4. row.call = c /\ row.decision = "none" /\ ~row.withdrawn /\ ~row.consumed OBVIOUS
  <2> HIDE DEF row
  <2>5. Len(questions) + 1 <= MaxQuestions
    BY <1>1, <2>1, Constants DEF Room, Question
  <2>6. /\ Append(questions, row) \in Seq(Row)
        /\ Len(Append(questions, row)) = Len(questions) + 1
        /\ DOMAIN Append(questions, row) = 1 .. Len(questions) + 1
        /\ \A q \in 1 .. Len(questions) : Append(questions, row)[q] = questions[q]
        /\ Append(questions, row)[Len(questions) + 1] = row
    BY <2>3 DEF Rows
  <2> QED BY <1>1, <1>3, <2>1, <2>2, <2>4, <2>5, <2>6 DEF Rows, Asked
<1> QED BY <1>2, <1>3

\* The first answer wins, and moves no other row.
LEMMA DecidedRows ==
  ASSUME NEW rows, Rows(rows), NEW q \in DOMAIN rows, NEW v \in {"allow", "deny"}
  PROVE  /\ Rows(Decided(rows, q, v)) /\ DOMAIN Decided(rows, q, v) = DOMAIN rows
         /\ \A r \in DOMAIN rows : r # q => Decided(rows, q, v)[r] = rows[r]
         /\ Decided(rows, q, v)[q].call = rows[q].call
         /\ Decided(rows, q, v)[q].consumed = rows[q].consumed
         /\ Decided(rows, q, v)[q].withdrawn = rows[q].withdrawn
         /\ Decided(rows, q, v)[q].decision =
              IF rows[q].decision = "none" /\ ~rows[q].withdrawn THEN v
              ELSE rows[q].decision
<1>1. rows[q] \in Row /\ Decisions(rows) + 1 \in Nat BY Counted, RowsAre
<1> DEFINE row == [rows[q] EXCEPT !.decision = v, !.at = Decisions(rows) + 1]
<1>2. /\ row \in Row /\ row.call = rows[q].call /\ row.consumed = rows[q].consumed
      /\ row.withdrawn = rows[q].withdrawn /\ row.decision = v
  BY <1>1 DEF Row, Decision
<1>3. Decided(rows, q, v) = IF rows[q].decision = "none" /\ ~rows[q].withdrawn
                            THEN [rows EXCEPT ![q] = row] ELSE rows
  BY DEF Decided
<1> HIDE DEF row
<1>4. /\ [rows EXCEPT ![q] = row] \in Seq(Row)
      /\ Len([rows EXCEPT ![q] = row]) = Len(rows)
      /\ DOMAIN [rows EXCEPT ![q] = row] = DOMAIN rows
  BY <1>2, RowsAre DEF Rows
<1> QED BY <1>2, <1>3, <1>4 DEF Rows

\* An answer is spent, and nothing else of the register moves.
LEMMA SpentRows ==
  ASSUME NEW rows, Rows(rows), NEW q \in DOMAIN rows \cup {None}
  PROVE  /\ Rows(Spent(rows, q)) /\ DOMAIN Spent(rows, q) = DOMAIN rows
         /\ \A r \in DOMAIN rows :
              /\ Spent(rows, q)[r].call = rows[r].call
              /\ Spent(rows, q)[r].decision = rows[r].decision
              /\ Spent(rows, q)[r].withdrawn = rows[r].withdrawn
              /\ Spent(rows, q)[r].consumed = (rows[r].consumed \/ r = q)
<1>1. CASE q = None
  BY <1>1, RowsAre DEF Spent, Row
<1>2. CASE q # None
  <2>1. q \in DOMAIN rows /\ rows[q] \in Row BY <1>2, RowsAre
  <2> DEFINE row == [rows[q] EXCEPT !.consumed = TRUE]
  <2>2. /\ row \in Row /\ row.call = rows[q].call /\ row.decision = rows[q].decision
        /\ row.withdrawn = rows[q].withdrawn /\ row.consumed = TRUE
    BY <2>1 DEF Row
  <2>3. Spent(rows, q) = [rows EXCEPT ![q] = row] BY <1>2 DEF Spent
  <2> HIDE DEF row
  <2>4. /\ [rows EXCEPT ![q] = row] \in Seq(Row)
        /\ Len([rows EXCEPT ![q] = row]) = Len(rows)
        /\ DOMAIN [rows EXCEPT ![q] = row] = DOMAIN rows
    BY <2>1, <2>2, RowsAre DEF Rows
  <2>5. \A r \in DOMAIN rows : rows[r] \in Row BY RowsAre
  <2> QED BY <2>2, <2>3, <2>4, <2>5 DEF Rows, Row
<1> QED BY <1>1, <1>2

\* An answer is found exactly when there is one on the call that is not spent.
LEMMA MatchIn ==
  ASSUME NEW rows, Rows(rows), NEW c
  PROVE  /\ Match(rows, c) \in DOMAIN rows \cup {None}
         /\ Matching(rows, c) = {} => Match(rows, c) = None
         /\ Matching(rows, c) # {} => Match(rows, c) \in Matching(rows, c)
         /\ Match(rows, c) # None => Match(rows, c) \in Matching(rows, c)
<1>1. CASE Matching(rows, c) = {} BY <1>1 DEF Match
<1>2. CASE Matching(rows, c) # {}
  <2> DEFINE ats == {rows[q].at : q \in Matching(rows, c)}
  <2>1. \A q \in Matching(rows, c) : q \in DOMAIN rows /\ rows[q].at \in Nat
    BY RowsAre DEF Matching, Row
  <2>2. ats \in SUBSET Nat /\ ats # {} BY <1>2, <2>1
  <2>3. PICK a \in ats : \A b \in ats : a <= b BY <2>2, Least
  <2>4. PICK q \in Matching(rows, c) : rows[q].at = a BY <2>3
  <2>5. \A r \in Matching(rows, c) : rows[q].at <= rows[r].at BY <2>3, <2>4
  <2>6. Match(rows, c) \in Matching(rows, c) BY <1>2, <2>5 DEF Match
  <2> QED BY <1>2, <2>1, <2>6
<1> QED BY <1>1, <1>2

\* A withdrawal touches what is open, and nothing but the mark.
LEMMA WithdrawnRows ==
  ASSUME Rows(questions)
  PROVE  /\ Rows(Withdrawn) /\ DOMAIN Withdrawn = Asked
         /\ \A q \in Asked :
              /\ Withdrawn[q].call = questions[q].call
              /\ Withdrawn[q].decision = questions[q].decision
              /\ Withdrawn[q].consumed = questions[q].consumed
              /\ Withdrawn[q].withdrawn = (questions[q].withdrawn \/ IsOpen(q))
<1>1. \A q \in Asked : questions[q] \in Row BY RowsAre DEF Asked
<1>2. Asked = 1 .. Len(questions) /\ Len(questions) \in Nat BY RowsAre DEF Asked
<1>3. DOMAIN Withdrawn = Asked BY DEF Withdrawn
<1>4. \A q \in Asked : 
         /\ Withdrawn[q] \in Row /\ Withdrawn[q].call = questions[q].call
         /\ Withdrawn[q].decision = questions[q].decision
         /\ Withdrawn[q].consumed = questions[q].consumed
         /\ Withdrawn[q].withdrawn = (questions[q].withdrawn \/ IsOpen(q))
  BY <1>1 DEF Withdrawn, Row, IsOpen
<1>5. Withdrawn \in Seq(Row) /\ Len(Withdrawn) = Len(questions)
  <2>1. Withdrawn \in [1 .. Len(questions) -> Row] BY <1>2, <1>4 DEF Withdrawn
  <2> QED BY <1>2, <2>1
<1> QED BY <1>3, <1>4, <1>5 DEF Rows

\* /yolo allows what is open, and nothing else of the register moves.
LEMMA AllowedRows ==
  ASSUME Rows(questions)
  PROVE  /\ Rows(AllAllowed) /\ DOMAIN AllAllowed = Asked
         /\ \A q \in Asked :
              /\ AllAllowed[q].call = questions[q].call
              /\ AllAllowed[q].decision = IF IsOpen(q) THEN "allow" ELSE questions[q].decision
              /\ AllAllowed[q].consumed = questions[q].consumed
              /\ AllAllowed[q].withdrawn = questions[q].withdrawn
<1>1. \A q \in Asked : questions[q] \in Row BY RowsAre DEF Asked
<1>2. Asked = 1 .. Len(questions) /\ Len(questions) \in Nat BY RowsAre DEF Asked
<1>3. DOMAIN AllAllowed = Asked BY DEF AllAllowed
<1>4. \A q \in Asked : Cardinality({r \in Open : r < q}) \in Nat
  <2>1. IsFiniteSet(1 .. Len(questions)) BY <1>2, FS_Interval
  <2>2. \A q \in Asked : {r \in Open : r < q} \subseteq 1 .. Len(questions)
    BY <1>2 DEF Open
  <2> QED BY <2>1, <2>2, FS_Subset, FS_CardinalityType
<1>5. ASSUME NEW q \in Asked
      PROVE  /\ AllAllowed[q] \in Row /\ AllAllowed[q].call = questions[q].call
             /\ AllAllowed[q].decision = IF IsOpen(q) THEN "allow" ELSE questions[q].decision
             /\ AllAllowed[q].consumed = questions[q].consumed
             /\ AllAllowed[q].withdrawn = questions[q].withdrawn
  <2> DEFINE at == Decisions(questions) + 1 + Cardinality({r \in Open : r < q})
             row == [questions[q] EXCEPT !.decision = "allow", !.at = at]
  <2>1. at \in Nat BY <1>4, Counted
  <2>2. AllAllowed[q] = IF IsOpen(q) THEN row ELSE questions[q] BY DEF AllAllowed
  <2> HIDE DEF at
  <2>3. /\ row \in Row /\ row.call = questions[q].call /\ row.decision = "allow"
        /\ row.consumed = questions[q].consumed /\ row.withdrawn = questions[q].withdrawn
    BY <1>1, <2>1 DEF Row, Decision
  <2> HIDE DEF row
  <2> QED BY <1>1, <2>2, <2>3
<1>6. AllAllowed \in Seq(Row) /\ Len(AllAllowed) = Len(questions)
  <2>1. \A q \in 1 .. Len(questions) : AllAllowed[q] \in Row BY <1>2, <1>5
  <2>2. AllAllowed \in [1 .. Len(questions) -> Row]
    <3>1. AllAllowed = [q \in 1 .. Len(questions) |-> AllAllowed[q]]
      BY <1>2 DEF AllAllowed
    <3> HIDE DEF AllAllowed
    <3> QED BY <2>1, <3>1
  <2> QED BY <1>2, <2>2
<1> QED BY <1>3, <1>5, <1>6 DEF Rows

----------------------------------------------------------------------------
(* The invariant.                                                          *)

\* A process is at work on the turn, and not only on its withdrawal.
Driving(p) == drive[p].pc \notin {"idle", "closing"}

\* A turn that nobody stole is driven by its holder alone, and one that is about to
\* withdraw its questions is done.
OneAtWork ==
  /\ \A p \in Process : At(p, "closing") => turn.status = "done"
  /\ ~stolen => \A p \in Process : Driving(p) => Held(p)

\* Only an answer is spent, only the end withdraws, and whatever a process or the
\* turn refers to was asked.
RowsKept ==
  /\ \A q \in Asked : questions[q].decision = "none" => ~questions[q].consumed
  /\ \A q \in Asked : questions[q].withdrawn => turn.status = "done"
  /\ turn.status = "waiting" => turn.barrier \in Asked
  /\ \A p \in Process :
       /\ drive[p].on \in Asked \cup {None} /\ drive[p].armed \in Asked \cup {None}
       /\ At(p, "confirm") => drive[p].on # None
       /\ drive[p].pc \in {"calls", "confirm", "effect"} => drive[p].todo # <<>>

\* An effect about to run is the first on its answer and the last, and where the turn
\* was not stolen the answer allows it.
Effects ==
  /\ \A p \in Process : At(p, "effect") /\ drive[p].on # None =>
       questions[drive[p].on].consumed /\ ran[drive[p].on] = 0
  /\ \A p, r \in Process : At(p, "effect") /\ At(r, "effect") /\ drive[p].on = drive[r].on =>
       p = r \/ drive[p].on = None
  /\ \A q \in Question : ran[q] <= 1 /\ (ran[q] > 0 => q \in Asked /\ questions[q].consumed)
  /\ unasked => stolen
  /\ ~stolen => \A p \in Process : At(p, "effect") => Allows(drive[p].on, TheCall(p))

\* The question at a terminal is the only one of its call that is open, or that has an
\* answer to spend, and nobody but the terminal refuses it.
Posed ==
  ~stolen /\ ~buttons => \A p \in Process : At(p, "confirm") =>
    /\ questions[drive[p].on].call = TheCall(p)
    /\ ~questions[drive[p].on].consumed /\ ~questions[drive[p].on].withdrawn
    /\ questions[drive[p].on].decision # "deny"
    /\ Matching(questions, TheCall(p)) \subseteq {drive[p].on}
    /\ OpenFor(TheCall(p)) \subseteq {drive[p].on}

\* The inductive invariant.
Inv == TypeOK /\ OneAtWork /\ RowsKept /\ Effects /\ Posed /\ QuestionsFollowTheTurn

----------------------------------------------------------------------------
(* How a process moves.                                                    *)

\* One process moves, and is well typed there.
Moves(p) ==
  /\ \A r \in Process : r # p => drive'[r] = drive[r]
  /\ drive' \in [Process -> Drive]

\* A process is written, and no other.
LEMMA Wrote ==
  ASSUME TypeOK, NEW p \in Process, NEW w \in Drive, drive' = [drive EXCEPT ![p] = w]
  PROVE  Moves(p) /\ drive'[p] = w
BY DEF TypeOK, Moves

\* What is left of a batch is a batch.
LEMMA BatchTail ==
  ASSUME NEW b \in Batch, b # <<>>
  PROVE  Head(b) \in Call /\ Tail(b) \in Batch
<1>1. PICK n \in 0 .. 2 : b \in [1 .. n -> Call] BY DEF Batch
<1>2. b \in Seq(Call) /\ Len(b) = n /\ n # 0 BY <1>1
<1>3. Head(b) \in Call BY <1>2
<1>4. Tail(b) \in Seq(Call) /\ Len(Tail(b)) = n - 1 BY <1>2
<1>5. Tail(b) \in [1 .. n - 1 -> Call]
  <2> DEFINE t == Tail(b)
  <2>1. t \in Seq(Call) /\ Len(t) = n - 1 BY <1>4
  <2> HIDE DEF t
  <2>2. t \in [1 .. n - 1 -> Call] BY <2>1
  <2> QED BY <2>2 DEF t
<1>6. n - 1 \in 0 .. 2 BY <1>1, <1>2
<1> QED BY <1>3, <1>5, <1>6 DEF Batch

\* What the fields of a process are after each way of moving.
LEMMA StopsFields ==
  ASSUME TypeOK, NEW p \in Process, Stops(p)
  PROVE  /\ Moves(p) /\ drive'[p] = Idle /\ drive'[p].pc = "idle"
         /\ drive'[p].on = None /\ drive'[p].armed = None
<1>1. <<>> \in [1 .. 0 -> Call] OBVIOUS
<1>2. <<>> \in Batch BY <1>1 DEF Batch
<1>3. Idle \in Drive BY <1>2 DEF Idle, Drive, Pc
<1>4. Moves(p) /\ drive'[p] = Idle BY <1>3, Wrote DEF Stops
<1> QED BY <1>4 DEF Idle

\* It moves on and keeps what it has in hand.
LEMMA GoesFields ==
  ASSUME TypeOK, NEW p \in Process, NEW pc \in Pc, Goes(p, pc)
  PROVE  /\ Moves(p) /\ drive'[p].pc = pc /\ drive'[p].on = drive[p].on
         /\ drive'[p].armed = drive[p].armed /\ drive'[p].todo = drive[p].todo
<1>1. drive[p] \in Drive /\ drive \in [Process -> Drive] BY DEF TypeOK
<1> DEFINE w == [drive[p] EXCEPT !.pc = pc]
<1>2. /\ w \in Drive /\ w.pc = pc /\ w.on = drive[p].on /\ w.armed = drive[p].armed
      /\ w.todo = drive[p].todo
  BY <1>1 DEF Drive
<1>3. drive' = [drive EXCEPT ![p] = w] BY <1>1 DEF Goes
<1> HIDE DEF w
<1> QED BY <1>2, <1>3, Wrote

\* It takes a question in hand.
Takes(p, pc, q) == drive' = [drive EXCEPT ![p].pc = pc, ![p].on = q]

\* It has the question in hand then.
LEMMA OnFields ==
  ASSUME TypeOK, NEW p \in Process, NEW pc \in Pc, NEW q \in Question \cup {None},
         Takes(p, pc, q)
  PROVE  /\ Moves(p) /\ drive'[p].pc = pc /\ drive'[p].on = q
         /\ drive'[p].armed = drive[p].armed /\ drive'[p].todo = drive[p].todo
<1>1. drive[p] \in Drive /\ drive \in [Process -> Drive] BY DEF TypeOK
<1> DEFINE w == [drive[p] EXCEPT !.pc = pc, !.on = q]
<1>2. /\ w \in Drive /\ w.pc = pc /\ w.on = q /\ w.armed = drive[p].armed
      /\ w.todo = drive[p].todo
  BY <1>1 DEF Drive
<1>3. drive' = [drive EXCEPT ![p] = w] BY <1>1 DEF Takes
<1> HIDE DEF w
<1> QED BY <1>2, <1>3, Wrote

\* It lets go of a call and of its question.
LEMMA NextFields ==
  ASSUME TypeOK, NEW p \in Process, drive[p].todo # <<>>,
         NEW armed \in Question \cup {None}, NextCall(p, armed)
  PROVE  /\ Moves(p) /\ drive'[p].pc \in {"round", "calls"} /\ drive'[p].on = None
         /\ drive'[p].armed = armed
         /\ drive'[p].pc = "calls" => drive'[p].todo # <<>>
<1>1. drive[p] \in Drive BY DEF TypeOK
<1>2. Rest(p) \in Batch BY <1>1, BatchTail DEF Rest, Drive
<1> DEFINE pc == IF Rest(p) = <<>> THEN "round" ELSE "calls"
           w == [Idle EXCEPT !.pc = pc, !.todo = Rest(p), !.armed = armed]
<1>3. drive' = [drive EXCEPT ![p] = w] BY DEF NextCall
<1>4. pc \in {"round", "calls"} /\ (pc = "calls" => Rest(p) # <<>>) OBVIOUS
<1> HIDE DEF pc
<1>5. w \in Drive /\ w.pc = pc /\ w.on = None /\ w.armed = armed /\ w.todo = Rest(p)
  BY <1>2, <1>4 DEF Idle, Drive, Pc, Question, None
<1> HIDE DEF w
<1> QED BY <1>3, <1>4, <1>5, Wrote

----------------------------------------------------------------------------
(* How the register grows.                                                 *)

\* Nothing that was asked is asked again, unanswered, unspent or asked anew.
Grows ==
  /\ Rows(questions')
  /\ \A q \in DOMAIN questions :
       /\ q \in DOMAIN questions' /\ questions'[q].call = questions[q].call
       /\ questions[q].consumed => questions'[q].consumed
       /\ questions[q].decision # "none" => questions'[q].decision = questions[q].decision
       /\ questions[q].withdrawn => questions'[q].withdrawn

\* The question of a call, answered by delegation and spent.
LEMMA DelegateRows ==
  ASSUME Inv, NEW p \in Process, Delegate(p)
  PROVE  \E q \in DOMAIN questions' :
           /\ Takes(p, "effect", q)
           /\ Grows /\ questions'[q].call = TheCall(p)
           /\ questions'[q].decision = "allow" /\ questions'[q].consumed
           /\ ~questions'[q].withdrawn
           /\ q \in Asked => ~questions[q].consumed /\ ~questions[q].withdrawn
           /\ \A r \in DOMAIN questions' : r # q =>
                r \in Asked /\ questions'[r] = questions[r]
<1>1. Rows(questions) BY DEF Inv, TypeOK, Rows
<1>2. At(p, "calls") /\ Given(p) = None /\ Room(TheCall(p)) BY DEF Delegate, Calling
<1>3. TheCall(p) \in Call
  <2>1. drive[p].todo # <<>> /\ drive[p].todo \in Batch
    BY <1>2 DEF Inv, TypeOK, RowsKept, At, Drive
  <2> QED BY <2>1, BatchTail DEF TheCall
<1> DEFINE c == TheCall(p)
           asked == Ask(c)
           rows == Decided(asked, Place(c), "allow")
           q == Match(rows, c)
<1>4. questions' = Spent(rows, q) /\ Takes(p, "effect", q)
  BY DEF Delegate, Takes
<1>5. Matching(questions, c) = {}
  <2>1. Match(questions, c) = None BY <1>2 DEF Given
  <2>2. None \notin Matching(questions, c) BY <1>1, RowsAre DEF Matching
  <2> QED BY <1>1, <2>1, <2>2, MatchIn
<1> HIDE DEF c
<1>6. /\ Rows(asked) /\ Asked \subseteq DOMAIN asked
      /\ Place(c) \in DOMAIN asked
      /\ \A r \in Asked : asked[r] = questions[r]
      /\ \A r \in DOMAIN asked : r \in Asked \/ r = Place(c)
      /\ asked[Place(c)].call = c /\ asked[Place(c)].decision = "none"
      /\ ~asked[Place(c)].withdrawn
      /\ Place(c) \in Asked => Place(c) \in OpenFor(c)
      /\ Place(c) \notin Asked => OpenFor(c) = {} /\ ~asked[Place(c)].consumed
  BY <1>1, <1>2, <1>3, AskRows DEF c
<1>7. ~asked[Place(c)].consumed
  <2>1. Place(c) \in Asked => ~questions[Place(c)].consumed
    BY <1>6 DEF Inv, RowsKept
  <2> QED BY <1>6, <2>1
<1> HIDE DEF asked
<1>8. /\ Rows(rows) /\ DOMAIN rows = DOMAIN asked
      /\ \A r \in DOMAIN rows : r # Place(c) => rows[r] = asked[r]
      /\ rows[Place(c)].call = c /\ ~rows[Place(c)].consumed /\ ~rows[Place(c)].withdrawn
      /\ rows[Place(c)].decision = "allow"
  BY <1>6, <1>7, DecidedRows
<1> HIDE DEF rows
<1>9. q = Place(c)
  <2>1. Place(c) \in Matching(rows, c) BY <1>6, <1>8 DEF Matching
  <2>2. q \in Matching(rows, c) BY <1>8, <2>1, MatchIn
  <2>3. ASSUME q # Place(c) PROVE FALSE
    <3>1. q \in Asked /\ rows[q] = questions[q]
      BY <1>6, <1>8, <2>2, <2>3 DEF Matching
    <3> QED BY <1>5, <2>2, <3>1 DEF Matching, Asked
  <2> QED BY <2>3
<1>10. q \in DOMAIN rows BY <1>6, <1>8, <1>9
<1> HIDE DEF q
<1>11. /\ Rows(questions') /\ DOMAIN questions' = DOMAIN rows
       /\ \A r \in DOMAIN rows :
            /\ questions'[r].call = rows[r].call
            /\ questions'[r].decision = rows[r].decision
            /\ questions'[r].withdrawn = rows[r].withdrawn
            /\ questions'[r].consumed = (rows[r].consumed \/ r = q)
  <2>1. /\ Rows(Spent(rows, q)) /\ DOMAIN Spent(rows, q) = DOMAIN rows
        /\ \A r \in DOMAIN rows :
             /\ Spent(rows, q)[r].call = rows[r].call
             /\ Spent(rows, q)[r].decision = rows[r].decision
             /\ Spent(rows, q)[r].withdrawn = rows[r].withdrawn
             /\ Spent(rows, q)[r].consumed = (rows[r].consumed \/ r = q)
    BY <1>8, <1>10, SpentRows
  <2> QED BY <1>4, <2>1
<1>12. \A r \in DOMAIN rows : r # q => questions'[r] = rows[r]
  <2>1. \A r \in DOMAIN rows : r # q => Spent(rows, q)[r] = rows[r] BY DEF Spent
  <2> QED BY <1>4, <2>1
<1>13. Grows BY <1>6, <1>7, <1>8, <1>9, <1>11, <1>12 DEF Grows, Asked
<1>14. /\ questions'[q].call = c /\ questions'[q].decision = "allow"
       /\ questions'[q].consumed /\ ~questions'[q].withdrawn /\ q \in DOMAIN questions'
  BY <1>8, <1>9, <1>10, <1>11
<1>15. q \in Asked => ~questions[q].consumed /\ ~questions[q].withdrawn
  BY <1>6, <1>7, <1>9 DEF OpenFor, Open, IsOpen
<1>16. ASSUME NEW r \in DOMAIN questions', r # q
       PROVE  r \in Asked /\ questions'[r] = questions[r]
  <2>1. r \in DOMAIN rows /\ r \in DOMAIN asked BY <1>8, <1>11, <1>16
  <2>2. r \in Asked BY <1>6, <1>9, <1>16, <2>1
  <2> QED BY <1>6, <1>8, <1>9, <1>12, <1>16, <2>1, <2>2
<1> QED BY <1>4, <1>13, <1>14, <1>15, <1>16 DEF c

\* The answer of the terminal, written and spent.
LEMMA ToldRows ==
  ASSUME Inv, NEW p \in Process, NEW v \in {"allow", "deny"}, Told(p, v)
  PROVE  \E q \in DOMAIN questions' \cup {None} :
           /\ Grows /\ DOMAIN questions' = Asked
           /\ v = "deny" => Skip(p)
           /\ v = "allow" => Takes(p, "effect", q)
           /\ q # None => /\ ~questions[q].consumed /\ questions'[q].consumed
                          /\ questions'[q].call = TheCall(p)
           /\ \A r \in Asked : /\ questions'[r].withdrawn = questions[r].withdrawn
                               /\ questions'[r].consumed => questions'[r].decision # "none"
           /\ ~stolen /\ v = "allow" => q # None /\ questions'[q].decision = "allow"
<1>1. Rows(questions) BY DEF Inv, TypeOK, Rows
<1>2. At(p, "confirm") /\ ~buttons BY DEF Told
<1> DEFINE on == drive[p].on
           c == TheCall(p)
           rows == Decided(questions, on, v)
           q == Match(rows, c)
<1>3. on \in Asked
  BY <1>2 DEF Inv, RowsKept, At
<1>4. /\ questions' = Spent(rows, q)
      /\ v = "deny" => Skip(p)
      /\ v = "allow" => Takes(p, "effect", q)
  BY DEF Told, Takes
<1>5. ~stolen => /\ questions[on].call = c
                 /\ ~questions[on].consumed /\ ~questions[on].withdrawn
                 /\ questions[on].decision # "deny"
                 /\ Matching(questions, c) \subseteq {on}
  BY <1>2 DEF Inv, Posed
<1> HIDE DEF on, c
<1>6. /\ Rows(rows) /\ DOMAIN rows = Asked
      /\ \A r \in Asked : r # on => rows[r] = questions[r]
      /\ rows[on].call = questions[on].call /\ rows[on].consumed = questions[on].consumed
      /\ rows[on].withdrawn = questions[on].withdrawn
      /\ rows[on].decision = IF questions[on].decision = "none" /\ ~questions[on].withdrawn
                             THEN v ELSE questions[on].decision
  BY <1>1, <1>3, DecidedRows DEF Asked
<1> HIDE DEF rows
<1>7. /\ q \in DOMAIN rows \cup {None}
      /\ Matching(rows, c) # {} => q \in Matching(rows, c)
      /\ q # None => q \in Matching(rows, c)
  BY <1>6, MatchIn
<1>8. ~stolen /\ v = "allow" => q # None /\ rows[q].decision = "allow"
  <2> SUFFICES ASSUME ~stolen, v = "allow" PROVE q # None /\ rows[q].decision = "allow"
    OBVIOUS
  <2>1. questions[on] \in Row BY <1>1, <1>3, RowsAre DEF Asked
  <2>2. rows[on].decision = "allow" BY <1>5, <1>6, <2>1 DEF Row, Decision
  <2>3. on \in Matching(rows, c) BY <1>3, <1>5, <1>6, <2>2 DEF Matching
  <2>4. q \in Matching(rows, c) BY <1>7, <2>3
  <2>5. ASSUME q # on PROVE FALSE
    <3>1. q \in Asked /\ rows[q] = questions[q] BY <1>6, <2>4, <2>5 DEF Matching
    <3> QED BY <1>5, <2>4, <2>5, <3>1 DEF Matching, Asked
  <2>6. q # None BY <1>1, <1>3, <2>5, RowsAre DEF Asked
  <2> QED BY <2>2, <2>5, <2>6
<1>9. q # None => ~rows[q].consumed /\ rows[q].call = c /\ rows[q].decision # "none"
                  /\ q \in DOMAIN rows
  BY <1>7 DEF Matching
<1> HIDE DEF q
<1>10. /\ Rows(questions') /\ DOMAIN questions' = DOMAIN rows
       /\ \A r \in DOMAIN rows :
            /\ questions'[r].call = rows[r].call
            /\ questions'[r].decision = rows[r].decision
            /\ questions'[r].withdrawn = rows[r].withdrawn
            /\ questions'[r].consumed = (rows[r].consumed \/ r = q)
  <2>1. /\ Rows(Spent(rows, q)) /\ DOMAIN Spent(rows, q) = DOMAIN rows
        /\ \A r \in DOMAIN rows :
             /\ Spent(rows, q)[r].call = rows[r].call
             /\ Spent(rows, q)[r].decision = rows[r].decision
             /\ Spent(rows, q)[r].withdrawn = rows[r].withdrawn
             /\ Spent(rows, q)[r].consumed = (rows[r].consumed \/ r = q)
    BY <1>6, <1>7, SpentRows
  <2> QED BY <1>4, <2>1
<1>11. \A r \in Asked :
         /\ rows[r].call = questions[r].call /\ rows[r].consumed = questions[r].consumed
         /\ rows[r].withdrawn = questions[r].withdrawn
         /\ questions[r].decision # "none" => rows[r].decision = questions[r].decision
  BY <1>6
<1>12. \A r \in Asked : rows[r].consumed => rows[r].decision # "none"
  BY <1>11 DEF Inv, RowsKept
<1>13. Grows BY <1>6, <1>10, <1>11 DEF Grows, Asked
<1>14. q # None => /\ ~questions[q].consumed /\ questions'[q].consumed
                   /\ questions'[q].call = c
  BY <1>6, <1>9, <1>10, <1>11
<1>15. \A r \in Asked : /\ questions'[r].withdrawn = questions[r].withdrawn
                        /\ questions'[r].consumed => questions'[r].decision # "none"
  <2>1. None \notin DOMAIN rows BY <1>6, RowsAre
  <2>2. \A r \in Asked : r = q => rows[r].decision # "none" BY <1>6, <1>9, <2>1
  <2>3. \A r \in Asked : rows[r].consumed \/ r = q => rows[r].decision # "none"
    BY <1>12, <2>2
  <2>4. ASSUME NEW r \in Asked, questions'[r].consumed PROVE questions'[r].decision # "none"
    <3>1. r \in DOMAIN rows BY <1>6
    <3>2. rows[r].consumed \/ r = q BY <1>10, <2>4, <3>1
    <3> QED BY <1>10, <2>3, <3>1, <3>2
  <2> QED BY <1>6, <1>10, <1>11, <2>4
<1>16. ~stolen /\ v = "allow" => q # None /\ questions'[q].decision = "allow"
  BY <1>8, <1>9, <1>10
<1>17. q \in DOMAIN questions' \cup {None} BY <1>6, <1>7, <1>10
<1> QED BY <1>4, <1>6, <1>10, <1>13, <1>14, <1>15, <1>16, <1>17 DEF c

\* What the register gains in a step: an answer is spent and not an open question, and
\* only the process that ends the turn withdraws.
Gains ==
  /\ Grows
  /\ \A q \in DOMAIN questions' :
       /\ questions'[q].consumed => questions'[q].decision # "none"
       /\ questions'[q].withdrawn => turn.status = "done"
       /\ questions'[q].decision = "none" /\ ~questions'[q].withdrawn =>
            q \in Open \/ \E p \in Process : Pose(p) /\ q = Place(TheCall(p))

\* A register that does not move.
LEMMA SameRows ==
  ASSUME Inv, questions' = questions
  PROVE  Gains
BY RowsAre DEF Gains, Grows, Inv, TypeOK, Rows, RowsKept, Asked, Open, IsOpen

\* A withdrawal is made behind a turn that is done, and leaves nothing open.
LEMMA WithdrawGains ==
  ASSUME Inv, NEW p \in Process, Withdraw(p)
  PROVE  Gains /\ \A q \in DOMAIN questions' :
                    ~(questions'[q].decision = "none" /\ ~questions'[q].withdrawn)
<1>1. Rows(questions) /\ questions' = Withdrawn /\ At(p, "closing")
  BY DEF Inv, TypeOK, Rows, Withdraw
<1>2. turn.status = "done" BY <1>1 DEF Inv, OneAtWork
<1>3. /\ Rows(questions') /\ DOMAIN questions' = Asked
      /\ \A q \in Asked :
           /\ questions'[q].call = questions[q].call
           /\ questions'[q].decision = questions[q].decision
           /\ questions'[q].consumed = questions[q].consumed
           /\ questions'[q].withdrawn = (questions[q].withdrawn \/ IsOpen(q))
  BY <1>1, WithdrawnRows
<1> QED BY <1>2, <1>3 DEF Gains, Grows, Inv, RowsKept, Asked, IsOpen

\* A process with a call in hand has one.
LEMMA TheCallIn ==
  ASSUME Inv, NEW p \in Process, drive[p].pc \in {"calls", "confirm", "effect"}
  PROVE  TheCall(p) \in Call
<1>1. drive[p].todo # <<>> /\ drive[p].todo \in Batch
  BY DEF Inv, TypeOK, RowsKept, Drive
<1> QED BY <1>1, BatchTail DEF TheCall

\* An answer given before is one of this call, that was not spent.
LEMMA SpendRows ==
  ASSUME Inv, NEW p \in Process, Spend(p)
  PROVE  /\ Gains /\ DOMAIN questions' = Asked
         /\ Given(p) \in Asked /\ ~questions[Given(p)].consumed /\ questions'[Given(p)].consumed
         /\ questions'[Given(p)].call = TheCall(p)
         /\ questions'[Given(p)].decision = questions[Given(p)].decision
         /\ questions[Given(p)].decision # "none"
<1> DEFINE q == Given(p)
<1>1. Rows(questions) BY DEF Inv, TypeOK, Rows
<1>2. q # None /\ questions' = Spent(questions, q) BY DEF Spend
<1>3. q \in Matching(questions, TheCall(p)) BY <1>1, <1>2, MatchIn DEF Given
<1> HIDE DEF q
<1>4. q \in Asked /\ ~questions[q].consumed /\ questions[q].call = TheCall(p)
      /\ questions[q].decision # "none"
  BY <1>3 DEF Matching, Asked
<1>5. /\ Rows(questions') /\ DOMAIN questions' = Asked
      /\ \A r \in Asked :
           /\ questions'[r].call = questions[r].call
           /\ questions'[r].decision = questions[r].decision
           /\ questions'[r].withdrawn = questions[r].withdrawn
           /\ questions'[r].consumed = (questions[r].consumed \/ r = q)
  <2>1. q \in DOMAIN questions \cup {None} BY <1>4 DEF Asked
  <2>2. /\ Rows(Spent(questions, q)) /\ DOMAIN Spent(questions, q) = DOMAIN questions
        /\ \A r \in DOMAIN questions :
           /\ Spent(questions, q)[r].call = questions[r].call
           /\ Spent(questions, q)[r].decision = questions[r].decision
           /\ Spent(questions, q)[r].withdrawn = questions[r].withdrawn
           /\ Spent(questions, q)[r].consumed = (questions[r].consumed \/ r = q)
    BY <1>1, <2>1, SpentRows
  <2> QED BY <1>2, <2>2 DEF Asked
<1>6. \A r \in Asked : questions[r].consumed \/ r = q => questions[r].decision # "none"
  BY <1>4 DEF Inv, RowsKept
<1>7. \A r \in Asked : questions[r].withdrawn => turn.status = "done"
  BY DEF Inv, RowsKept
<1>8. Gains BY <1>5, <1>6, <1>7 DEF Gains, Grows, Asked, Open, IsOpen
<1> QED BY <1>4, <1>5, <1>8 DEF q

\* A delegated answer.
LEMMA DelegateGains ==
  ASSUME Inv, NEW p \in Process, Delegate(p)
  PROVE  Gains
<1>1. PICK q \in DOMAIN questions' :
        /\ Grows
        /\ questions'[q].decision = "allow" /\ questions'[q].consumed
        /\ ~questions'[q].withdrawn
        /\ \A r \in DOMAIN questions' : r # q => r \in Asked /\ questions'[r] = questions[r]
  BY DelegateRows
<1> QED BY <1>1 DEF Gains, Inv, RowsKept, Open, IsOpen

\* A question that is asked.
LEMMA PoseGains ==
  ASSUME Inv, NEW p \in Process, Pose(p)
  PROVE  Gains
<1> DEFINE c == TheCall(p)
<1>1. Rows(questions) BY DEF Inv, TypeOK, Rows
<1>2. c \in Call /\ Room(c) /\ questions' = Ask(c)
  BY TheCallIn DEF Pose, Calling, At
<1> HIDE DEF c
<1>3. /\ Rows(questions') /\ Asked \subseteq DOMAIN questions'
      /\ \A q \in Asked : questions'[q] = questions[q]
      /\ \A q \in DOMAIN questions' : q \in Asked \/ q = Place(c)
      /\ questions'[Place(c)].decision = "none" /\ ~questions'[Place(c)].withdrawn
      /\ Place(c) \notin Asked => ~questions'[Place(c)].consumed
  BY <1>1, <1>2, AskRows
<1>4. Grows BY <1>3 DEF Grows, Asked
<1>5. ASSUME NEW q \in DOMAIN questions'
      PROVE  /\ questions'[q].consumed => questions'[q].decision # "none"
             /\ questions'[q].withdrawn => turn.status = "done"
             /\ q \in Asked \/ q = Place(c)
  <2>1. q \in Asked => /\ questions[q].consumed => questions[q].decision # "none"
                       /\ questions[q].withdrawn => turn.status = "done"
    BY DEF Inv, RowsKept
  <2> QED BY <1>3, <2>1
<1>6. \A q \in Asked : questions'[q].decision = "none" /\ ~questions'[q].withdrawn => q \in Open
  BY <1>3 DEF Open, IsOpen
<1> QED BY <1>4, <1>5, <1>6 DEF Gains, c

\* An answer of the terminal.
LEMMA ToldGains ==
  ASSUME Inv, NEW p \in Process, NEW v \in {"allow", "deny"}, Told(p, v)
  PROVE  Gains
<1>1. /\ Grows /\ DOMAIN questions' = Asked
      /\ \A r \in Asked : /\ questions'[r].withdrawn = questions[r].withdrawn
                          /\ questions'[r].consumed => questions'[r].decision # "none"
  BY ToldRows
<1>2. \A r \in Asked : questions'[r].decision = "none" => questions[r].decision = "none"
  BY <1>1 DEF Grows, Asked
<1> QED BY <1>1, <1>2 DEF Gains, Inv, RowsKept, Open, IsOpen

\* An answer of a button.
LEMMA PressGains ==
  ASSUME Inv, NEW p \in Process, NEW q \in Question, NEW v \in {"allow", "deny"}, Press(p, q, v)
  PROVE  Gains
<1>1. Rows(questions) BY DEF Inv, TypeOK, Rows
<1>2. q \in DOMAIN questions /\ questions' = Decided(questions, q, v)
  BY DEF Press, Open, Asked
<1>3. /\ Rows(questions') /\ DOMAIN questions' = DOMAIN questions
      /\ \A r \in DOMAIN questions : r # q => questions'[r] = questions[r]
      /\ questions'[q].call = questions[q].call
      /\ questions'[q].consumed = questions[q].consumed
      /\ questions'[q].withdrawn = questions[q].withdrawn
      /\ questions'[q].decision =
           IF questions[q].decision = "none" /\ ~questions[q].withdrawn THEN v
           ELSE questions[q].decision
  BY <1>1, <1>2, DecidedRows
<1>4. Grows BY <1>2, <1>3 DEF Grows
<1> QED BY <1>2, <1>3, <1>4 DEF Gains, Inv, RowsKept, Asked, Open, IsOpen

\* The answers of /yolo.
LEMMA AllowedGains ==
  ASSUME Inv, questions' = AllAllowed
  PROVE  Gains
<1>1. Rows(questions) BY DEF Inv, TypeOK, Rows
<1>2. /\ Rows(questions') /\ DOMAIN questions' = Asked
      /\ \A q \in Asked :
           /\ questions'[q].call = questions[q].call
           /\ questions'[q].decision = IF IsOpen(q) THEN "allow" ELSE questions[q].decision
           /\ questions'[q].consumed = questions[q].consumed
           /\ questions'[q].withdrawn = questions[q].withdrawn
  BY <1>1, AllowedRows
<1> QED BY <1>2 DEF Gains, Grows, Inv, RowsKept, Asked, Open, IsOpen

\* Every step of the system.
LEMMA GainsStep ==
  ASSUME Inv, [Next]_vars
  PROVE  Gains
<1>1. CASE UNCHANGED vars BY <1>1, SameRows DEF vars
<1>2. CASE Next
  <2>1. ASSUME NEW p \in Process, Drives(p) PROVE Gains
    <3>1. CASE Withdraw(p) BY <3>1, WithdrawGains
    <3>2. CASE Spend(p) BY <3>2, SpendRows
    <3>3. CASE Delegate(p) BY <3>3, DelegateGains
    <3>4. CASE Pose(p) BY <3>4, PoseGains
    <3>5. CASE \E v \in {"allow", "deny"} : Told(p, v) BY <3>5, ToldGains
    <3>6. CASE questions' = questions BY <3>6, SameRows
    <3> QED BY <2>1, <3>1, <3>2, <3>3, <3>4, <3>5, <3>6
            DEF Drives, Claim, Resuspend, Enter, Suspend, Lost, Calls, Finish, Release, Sent,
                Unavailable, Run
  <2>2. ASSUME NEW p \in Process, Wake(p) \/ Continue(p) \/ Crash(p) PROVE Gains
    BY <2>2, SameRows DEF Wake, Continue, Crash
  <2>3. ASSUME NEW p \in Process, NEW q \in Question, NEW v \in {"allow", "deny"}, Press(p, q, v)
        PROVE  Gains
    BY <2>3, PressGains
  <2>4. CASE Yolo \/ YoloCut BY <2>4, AllowedGains DEF Yolo, YoloCut
  <2>5. CASE Manual \/ Sweep \/ GrowsOld \/ Expires \/ Reclaim \/ Steal
    BY <2>5, SameRows DEF Manual, Sweep, GrowsOld, Expires, Reclaim, Steal
  <2> QED BY <1>2, <2>1, <2>2, <2>3, <2>4, <2>5 DEF Next
<1> QED BY <1>1, <1>2

\* What a process has in hand after a step of its own.
Moved(p) ==
  /\ Moves(p)
  /\ {drive'[p].on, drive'[p].armed} \subseteq DOMAIN questions' \cup {None}
  /\ drive'[p].pc = "confirm" =>
       /\ Pose(p) /\ drive'[p].on = Place(TheCall(p)) /\ drive'[p].on # None
       /\ Head(drive'[p].todo) = TheCall(p)
  /\ drive'[p].pc = "effect" =>
       /\ Spend(p) \/ Delegate(p) \/ \E v \in {"allow", "deny"} : Told(p, v)
       /\ Head(drive'[p].todo) = TheCall(p)
  /\ drive'[p].pc = "closing" => Held(p) /\ turn' = Free("done")
  /\ drive'[p].pc \in {"calls", "confirm", "effect"} => drive'[p].todo # <<>>
  /\ drive'[p].pc \notin {"idle", "closing"} =>
       \/ turn'.status = "running" /\ turn'.claim = p
       \/ Driving(p) /\ turn' = turn

\* What a process had in hand before the step was asked, and still is.
LEMMA Keeps ==
  ASSUME Inv, Gains, NEW p \in Process
  PROVE  /\ drive[p] \in Drive /\ drive \in [Process -> Drive]
         /\ drive[p].on \in DOMAIN questions' \cup {None}
         /\ drive[p].armed \in DOMAIN questions' \cup {None}
         /\ drive[p].pc \in {"calls", "confirm", "effect"} => drive[p].todo # <<>>
         /\ DOMAIN questions' \subseteq Question /\ None \notin DOMAIN questions'
  BY RowsAre DEF Inv, TypeOK, RowsKept, Gains, Grows, Asked

\* The ways of moving, one by one.
LEMMA StopsMoved ==
  ASSUME Inv, NEW p \in Process, Stops(p)
  PROVE  Moved(p)
BY StopsFields DEF Moved, Inv

\* It goes on to a round it holds, or to close the turn it held.
LEMMA GoesMoved ==
  ASSUME Inv, Gains, NEW p \in Process, NEW pc \in {"round", "closing"}, Goes(p, pc),
         pc = "closing" => Held(p) /\ turn' = Free("done"),
         pc = "round" => turn'.status = "running" /\ turn'.claim = p
  PROVE  Moved(p)
<1>1. pc \in Pc BY DEF Pc
<1> QED BY <1>1, GoesFields, Keeps DEF Moved, Inv

\* It goes on with the next call.
LEMMA SkipMoved ==
  ASSUME Inv, Gains, NEW p \in Process, NEW armed \in DOMAIN questions' \cup {None},
         NextCall(p, armed), drive[p].pc \in {"calls", "confirm", "effect"}, turn' = turn
  PROVE  Moved(p)
<1>1. drive[p].todo # <<>> /\ armed \in Question \cup {None} BY Keeps
<1>2. /\ Moves(p) /\ drive'[p].pc \in {"round", "calls"} /\ drive'[p].on = None
      /\ drive'[p].armed = armed
      /\ drive'[p].pc = "calls" => drive'[p].todo # <<>>
  BY <1>1, NextFields DEF Inv
<1> QED BY <1>2 DEF Moved, Driving

\* It asks a question, or has the answer to act on.
LEMMA OnMoved ==
  ASSUME Inv, Gains, NEW p \in Process, NEW pc \in {"confirm", "effect"},
         NEW q \in DOMAIN questions' \cup {None},
         Takes(p, pc, q), turn' = turn,
         drive[p].pc \in {"calls", "confirm"},
         pc = "confirm" => Pose(p) /\ q = Place(TheCall(p)) /\ q # None,
         pc = "effect" => Spend(p) \/ Delegate(p) \/ \E v \in {"allow", "deny"} : Told(p, v)
  PROVE  Moved(p)
<1>1. pc \in Pc /\ q \in Question \cup {None} BY Keeps DEF Pc
<1>2. /\ Moves(p) /\ drive'[p].pc = pc /\ drive'[p].on = q
      /\ drive'[p].armed = drive[p].armed /\ drive'[p].todo = drive[p].todo
  BY <1>1, OnFields DEF Inv
<1>3. drive'[p].armed \in DOMAIN questions' \cup {None} /\ drive'[p].todo # <<>>
  <2>1. drive[p].armed \in DOMAIN questions' \cup {None} BY Keeps
  <2>2. drive[p].todo # <<>> BY Keeps
  <2> QED BY <1>2, <2>1, <2>2
<1>4. Driving(p) /\ Head(drive'[p].todo) = TheCall(p) BY <1>2 DEF Driving, TheCall
<1>5. CASE pc = "confirm" BY <1>2, <1>3, <1>4, <1>5 DEF Moved
<1>6. CASE pc = "effect" BY <1>2, <1>3, <1>4, <1>6 DEF Moved
<1> QED BY <1>5, <1>6

\* It ends the turn, or gives up.
LEMMA ClosesMoved ==
  ASSUME Inv, Gains, NEW p \in Process, Closes(p)
  PROVE  Moved(p)
BY GoesMoved, StopsMoved DEF Closes

\* Every step of a process.
LEMMA Drove ==
  ASSUME Inv, Gains, NEW p \in Process, Drives(p) \/ Continue(p) \/ Crash(p)
  PROVE  Moved(p)
<1>1. CASE Claim(p)
  <2> DEFINE w == [Idle EXCEPT !.pc = "entry", !.woken = turn.barrier]
  <2>1. turn.barrier \in Question \cup {None} BY DEF Inv, TypeOK, Turn
  <2>2. <<>> \in [1 .. 0 -> Call] OBVIOUS
  <2>3. <<>> \in Batch BY <2>2 DEF Batch
  <2>4. w \in Drive /\ w.pc = "entry" /\ w.on = None /\ w.armed = None
    BY <2>1, <2>3 DEF Idle, Drive, Pc
  <2>5. drive' = [drive EXCEPT ![p] = w] BY <1>1 DEF Claim
  <2> HIDE DEF w
  <2>6. Moves(p) /\ drive'[p] = w BY <2>4, <2>5, Wrote DEF Inv
  <2>7. turn'.status = "running" /\ turn'.claim = p BY <1>1 DEF Claim
  <2> QED BY <2>4, <2>6, <2>7 DEF Moved
<1>2. CASE Resuspend(p) \/ Suspend(p) \/ Lost(p) \/ Release(p) \/ Withdraw(p) \/ Crash(p)
  BY <1>2, StopsMoved DEF Resuspend, Suspend, Lost, Release, Withdraw, Crash
<1>3. CASE Enter(p)
  <2> DEFINE w == [Idle EXCEPT !.pc = "round"]
  <2>2. <<>> \in [1 .. 0 -> Call] OBVIOUS
  <2>3. <<>> \in Batch BY <2>2 DEF Batch
  <2>4. w \in Drive /\ w.pc = "round" /\ w.on = None /\ w.armed = None
    BY <2>3 DEF Idle, Drive, Pc
  <2>5. drive' = [drive EXCEPT ![p] = w] BY <1>3 DEF Enter
  <2> HIDE DEF w
  <2>6. Moves(p) /\ drive'[p] = w BY <2>4, <2>5, Wrote DEF Inv
  <2>7. turn' = turn /\ Driving(p) BY <1>3 DEF Enter, Driving, At
  <2> QED BY <2>4, <2>6, <2>7 DEF Moved
<1>4. CASE Calls(p)
  <2>1. PICK b \in Batch \ {<<>>} : drive' = [drive EXCEPT ![p].pc = "calls", ![p].todo = b]
    BY <1>4 DEF Calls
  <2> DEFINE w == [drive[p] EXCEPT !.pc = "calls", !.todo = b]
  <2>2. /\ w \in Drive /\ w.pc = "calls" /\ w.on = drive[p].on /\ w.armed = drive[p].armed
        /\ w.todo = b
    BY Keeps DEF Drive, Pc
  <2>3. drive' = [drive EXCEPT ![p] = w] BY <2>1, Keeps
  <2> HIDE DEF w
  <2>4. Moves(p) /\ drive'[p] = w BY <2>2, <2>3, Wrote DEF Inv
  <2>5. turn' = turn /\ Driving(p) BY <1>4 DEF Calls, Answers, Driving, At
  <2> QED BY <2>2, <2>4, <2>5, Keeps DEF Moved
<1>5. CASE Finish(p) \/ Unavailable(p) BY <1>5, ClosesMoved DEF Finish, Unavailable
<1>6. CASE Spend(p)
  <2>1. turn' = turn /\ drive[p].pc = "calls" /\ Given(p) \in DOMAIN questions'
    BY <1>6, SpendRows DEF Spend, Calling, At
  <2>2. CASE questions[Given(p)].decision = "deny"
    BY <1>6, <2>1, <2>2, SkipMoved, Keeps DEF Spend, Skip
  <2>3. CASE questions[Given(p)].decision # "deny"
    BY <1>6, <2>1, <2>3, OnMoved DEF Spend, Takes
  <2> QED BY <2>2, <2>3
<1>7. CASE Delegate(p)
  <2>1. PICK q \in DOMAIN questions' : Takes(p, "effect", q)
    BY <1>7, DelegateRows
  <2>2. turn' = turn /\ drive[p].pc = "calls" BY <1>7 DEF Delegate, Calling, At
  <2> QED BY <1>7, <2>1, <2>2, OnMoved
<1>8. CASE Pose(p)
  <2>1. turn' = turn /\ drive[p].pc = "calls" BY <1>8 DEF Pose, Calling, At
  <2>2. Place(TheCall(p)) \in DOMAIN questions'
    <3>1. Rows(questions) BY DEF Inv, TypeOK, Rows
    <3>2. TheCall(p) \in Call BY <2>1, TheCallIn
    <3> QED BY <1>8, <3>1, <3>2, AskRows DEF Pose
  <2> QED BY <1>8, <2>1, <2>2, OnMoved, Keeps DEF Pose, Takes
<1>9. CASE Sent(p)
  BY <1>9, SkipMoved, Keeps DEF Sent, At
<1>10. CASE Run(p)
  BY <1>10, SkipMoved, Keeps DEF Run, At, Skip
<1>11. ASSUME NEW v \in {"allow", "deny"}, Told(p, v) PROVE Moved(p)
  <2>1. turn' = turn /\ drive[p].pc = "confirm" BY <1>11 DEF Told, At
  <2>2. PICK q \in DOMAIN questions' \cup {None} :
          /\ v = "deny" => Skip(p)
          /\ v = "allow" => Takes(p, "effect", q)
    BY <1>11, ToldRows
  <2>3. CASE v = "deny" BY <2>1, <2>2, <2>3, SkipMoved, Keeps DEF Skip
  <2>4. CASE v = "allow" BY <1>11, <2>1, <2>2, <2>4, OnMoved
  <2> QED BY <2>3, <2>4
<1>12. CASE Continue(p)
  <2>1. turn'.status = "running" /\ turn'.claim = p /\ Goes(p, "round")
    BY <1>12 DEF Continue, Free
  <2> QED BY <2>1, GoesMoved
<1> QED BY <1>1, <1>2, <1>3, <1>4, <1>5, <1>6, <1>7, <1>8, <1>9, <1>10, <1>11, <1>12 DEF Drives

\* How the turn's row moves: a turn that is done stays done, one that waits waits for a
\* question, one ends only under its holder, who goes on to withdraw, and one that is
\* held moves under its holder unless it is stolen.
TurnMoved ==
  /\ turn' \in Turn
  /\ turn.status = "done" => turn'.status = "done"
  /\ turn'.status = "waiting" => turn'.barrier \in DOMAIN questions'
  /\ turn'.status = "done" /\ turn.status # "done" =>
       \E p \in Process : drive'[p].pc = "closing"
  /\ \A p \in Process : Held(p) /\ Driving(p) => turn' = turn \/ stolen' \/ Drives(p)

\* A row that does not move.
LEMMA SameTurn ==
  ASSUME Inv, Gains, turn' = turn
  PROVE  TurnMoved
BY DEF TurnMoved, Inv, TypeOK, RowsKept, Gains, Grows, Asked

\* A row that is woken.
LEMMA WokenTurn ==
  ASSUME Inv, Gains, turn' = Woken
  PROVE  TurnMoved
<1>1. CASE turn.status = "waiting"
  <2>1. turn \in Turn BY DEF Inv, TypeOK
  <2>2. turn' = [turn EXCEPT !.status = "runnable"] BY <1>1 DEF Woken
  <2>3. turn' \in Turn /\ turn'.status = "runnable" BY <2>1, <2>2 DEF Turn
  <2> QED BY <1>1, <2>3 DEF TurnMoved, Held
<1>2. CASE turn.status # "waiting" BY <1>2, SameTurn DEF Woken
<1> QED BY <1>1, <1>2

\* A row that is let go.
LEMMA FreeTurn ==
  ASSUME NEW status \in {"runnable", "continuable", "done"}
  PROVE  Free(status) \in Turn /\ Free(status).status = status
BY DEF Free, Turn

\* A row that is suspended on a question.
LEMMA WaitingTurn ==
  ASSUME Inv, Gains, NEW p \in Process, NEW q \in Asked,
         Drives(p), Held(p), turn' = Waiting(q)
  PROVE  TurnMoved
<1>1. q \in DOMAIN questions' /\ q \in Question /\ turn.status = "running"
  BY RowsAre DEF Gains, Grows, Asked, Held
<1>2. turn' \in Turn /\ turn'.status = "waiting" /\ turn'.barrier = q
  BY <1>1 DEF Waiting, Turn
<1>3. \A r \in Process : Held(r) => r = p BY DEF Held
<1> QED BY <1>1, <1>2, <1>3 DEF TurnMoved

\* A row that is closed.
LEMMA ClosesTurn ==
  ASSUME Inv, Gains, NEW p \in Process, Drives(p), Closes(p)
  PROVE  TurnMoved
<1>1. CASE Held(p)
  <2>1. turn' = Free("done") /\ Goes(p, "closing") /\ turn.status = "running"
    BY <1>1 DEF Closes, Held
  <2>2. drive'[p].pc = "closing" BY <2>1, GoesFields DEF Inv, Pc
  <2>3. \A r \in Process : Held(r) => r = p BY <1>1 DEF Held
  <2> QED BY <2>1, <2>2, <2>3, FreeTurn DEF TurnMoved
<1>2. CASE ~Held(p) BY <1>2, SameTurn DEF Closes
<1> QED BY <1>1, <1>2

\* The oldest question was asked.
LEMMA MinOpen ==
  ASSUME Inv, Open # {}
  PROVE  Min(Open) \in Asked
<1>1. Rows(questions) BY DEF Inv, TypeOK, Rows
<1>2. Open \in SUBSET Nat /\ Open \subseteq Asked BY <1>1, RowsAre DEF Open, Asked
<1> QED BY <1>2, MinIn

\* Every step of the system.
LEMMA TurnStep ==
  ASSUME Inv, Gains, [Next]_vars
  PROVE  TurnMoved
<1>1. CASE UNCHANGED vars BY <1>1, SameTurn DEF vars
<1>2. ASSUME NEW p \in Process, Drives(p) PROVE TurnMoved
  <2>1. CASE Claim(p)
    <3>1. turn.barrier \in Question \cup {None} BY DEF Inv, TypeOK, Turn
    <3>2. turn' = [status |-> "running", claim |-> p, barrier |-> None, due |-> FALSE]
          /\ turn.status \in {"runnable", "waiting"}
      BY <2>1 DEF Claim
    <3>3. turn' \in Turn /\ turn'.status = "running" BY <3>2 DEF Turn
    <3> QED BY <3>2, <3>3 DEF TurnMoved, Held
  <2>2. CASE Resuspend(p)
    BY <1>2, <2>2, MinOpen, WaitingTurn DEF Resuspend, StillAsking
  <2>3. CASE Suspend(p)
    BY <1>2, <2>3, WaitingTurn DEF Suspend, Inv, RowsKept
  <2>4. CASE Finish(p) \/ Unavailable(p)
    BY <1>2, <2>4, ClosesTurn DEF Finish, Unavailable
  <2>5. CASE Release(p)
    <3>1. Held(p) /\ turn' = Free("continuable") BY <2>5 DEF Release, Answers
    <3>2. \A r \in Process : Held(r) => r = p BY <3>1 DEF Held
    <3>3. turn.status = "running" BY <3>1 DEF Held
    <3> QED BY <1>2, <3>1, <3>2, <3>3, FreeTurn DEF TurnMoved
  <2>6. CASE turn' = turn BY <2>6, SameTurn
  <2> QED BY <1>2, <2>1, <2>2, <2>3, <2>4, <2>5, <2>6
          DEF Drives, Enter, Lost, Calls, Withdraw, Spend, Delegate, Pose, Sent, Run, Told
<1>3. ASSUME NEW p \in Process, Continue(p) PROVE TurnMoved
  <2>1. turn.status = "continuable" /\ turn' = [Free("running") EXCEPT !.claim = p]
    BY <1>3 DEF Continue
  <2>2. turn' \in Turn /\ turn'.status = "running" BY <2>1 DEF Free, Turn
  <2> QED BY <2>1, <2>2 DEF TurnMoved, Held
<1>4. ASSUME NEW p \in Process,
             Wake(p) \/ Crash(p) \/ \E q \in Question, v \in {"allow", "deny"} : Press(p, q, v)
      PROVE  TurnMoved
  BY <1>4, SameTurn, WokenTurn DEF Wake, Crash, Press
<1>5. CASE Yolo \/ YoloCut \/ Manual \/ Sweep \/ GrowsOld
  BY <1>5, SameTurn, WokenTurn DEF Yolo, YoloCut, Manual, Sweep, GrowsOld
<1>6. CASE Expires
  <2>1. turn \in Turn BY DEF Inv, TypeOK
  <2>2. turn.status = "waiting" /\ turn' = [turn EXCEPT !.due = TRUE] BY <1>6 DEF Expires
  <2>3. turn' \in Turn /\ turn'.status = "waiting" /\ turn'.barrier = turn.barrier
    BY <2>1, <2>2 DEF Turn
  <2> QED BY <2>2, <2>3 DEF TurnMoved, Held, Inv, RowsKept, Gains, Grows, Asked
<1>7. CASE Reclaim
  <2>1. turn.status = "running" /\ turn' = Free("runnable") /\ At(turn.claim, "idle")
    BY <1>7 DEF Reclaim, Interrupted
  <2>2. \A r \in Process : ~(Held(r) /\ Driving(r)) BY <2>1 DEF Held, Driving, At
  <2> QED BY <2>1, <2>2, FreeTurn DEF TurnMoved
<1>8. CASE Steal
  <2>1. turn.status = "running" /\ turn' = Free("runnable") /\ stolen'
    BY <1>8 DEF Steal, Interrupted
  <2> QED BY <2>1, FreeTurn DEF TurnMoved
<1> QED BY <1>1, <1>2, <1>3, <1>4, <1>5, <1>6, <1>7, <1>8 DEF Next

\* A step is of one process at most: of the others nothing moves.
LEMMA OneMoves ==
  ASSUME Inv, Gains, [Next]_vars
  PROVE  \/ drive' = drive
         \/ \E p \in Process : Moved(p) /\ (Drives(p) \/ Continue(p) \/ Crash(p))
<1>1. CASE UNCHANGED vars BY <1>1 DEF vars
<1>2. ASSUME NEW p \in Process, Drives(p) \/ Continue(p) \/ Crash(p)
      PROVE  Moved(p) /\ (Drives(p) \/ Continue(p) \/ Crash(p))
  BY <1>2, Drove
<1>3. ASSUME NEW p \in Process,
             Wake(p) \/ \E q \in Question, v \in {"allow", "deny"} : Press(p, q, v)
      PROVE  drive' = drive
  BY <1>3 DEF Wake, Press
<1>4. CASE Yolo \/ YoloCut \/ Manual \/ Sweep \/ GrowsOld \/ Expires \/ Reclaim \/ Steal
  BY <1>4 DEF Yolo, YoloCut, Manual, Sweep, GrowsOld, Expires, Reclaim, Steal
<1> QED BY <1>1, <1>2, <1>3, <1>4 DEF Next

\* The type is kept.
LEMMA TypeStep ==
  ASSUME Inv, Gains, TurnMoved, [Next]_vars
  PROVE  TypeOK'
<1>1. turn' \in Turn /\ Rows(questions') BY DEF TurnMoved, Gains, Grows
<1>2. drive' \in [Process -> Drive] BY OneMoves DEF Moved, Moves, Inv, TypeOK
<1>3. buttons' \in BOOLEAN /\ old' \in 0 .. MaxQuestions /\ yolo' \in BOOLEAN
      /\ pressed' \subseteq Gateway /\ {unasked', stolen', cut'} \subseteq BOOLEAN
      /\ ran' \in [Question -> Nat]
  <2>1. /\ buttons \in BOOLEAN /\ old \in 0 .. MaxQuestions /\ yolo \in BOOLEAN
        /\ pressed \subseteq Gateway /\ {unasked, stolen, cut} \subseteq BOOLEAN
        /\ ran \in [Question -> Nat] /\ Len(questions) \in Nat /\ Len(questions) <= MaxQuestions
        /\ MaxQuestions \in Nat
    BY Constants DEF Inv, TypeOK
  <2>2. CASE UNCHANGED vars BY <2>1, <2>2 DEF vars
  <2>3. ASSUME NEW p \in Process, Drives(p)
        PROVE  UNCHANGED <<buttons, old, yolo, pressed, stolen, cut>>
               /\ (Run(p) \/ UNCHANGED <<ran, unasked>>)
    BY <2>3 DEF Drives, Claim, Resuspend, Enter, Suspend, Lost, Calls, Finish, Release,
                Withdraw, Spend, Delegate, Pose, Sent, Unavailable, Run, Told, ownerVars, history
  <2>4. ASSUME NEW p \in Process, Run(p)
        PROVE  ran' \in [Question -> Nat] /\ unasked' \in BOOLEAN
    <3>1. ran' = IF drive[p].on = None THEN ran ELSE [ran EXCEPT ![drive[p].on] = @ + 1]
      BY <2>4 DEF Run
    <3>2. ran' \in [Question -> Nat]
      <4>1. drive[p].on \in Question \cup {None} BY DEF Inv, TypeOK, Drive
      <4>2. CASE drive[p].on = None BY <2>1, <3>1, <4>2
      <4>3. CASE drive[p].on # None
        <5>1. ran[drive[p].on] + 1 \in Nat BY <2>1, <4>1, <4>3
        <5> QED BY <2>1, <3>1, <4>1, <4>3, <5>1
      <4> QED BY <4>2, <4>3
    <3>3. unasked' = (unasked \/ ~Allows(drive[p].on, TheCall(p))) BY <2>4 DEF Run
    <3> QED BY <3>2, <3>3, <2>1
  <2>5. ASSUME NEW p \in Process, Wake(p) \/ Continue(p)
        PROVE  pressed' \subseteq pressed
               /\ UNCHANGED <<buttons, old, yolo, ran, unasked, stolen, cut>>
    BY <2>5 DEF Wake, Continue, ownerVars, history
  <2>6. ASSUME NEW p \in Process, Crash(p)
        PROVE  pressed' \subseteq pressed /\ cut' \in BOOLEAN
               /\ UNCHANGED <<buttons, old, yolo, ran, unasked, stolen>>
    BY <2>1, <2>6 DEF Crash
  <2>7. ASSUME NEW p \in Process, NEW q \in Question, NEW v \in {"allow", "deny"}, Press(p, q, v)
        PROVE  pressed' \subseteq Gateway
               /\ UNCHANGED <<buttons, old, yolo, ran, unasked, stolen, cut>>
    BY <2>1, <2>7 DEF Press, history
  <2>8. CASE Yolo \/ YoloCut \/ Manual \/ Sweep \/ GrowsOld \/ Expires \/ Reclaim \/ Steal
    <3>1. CASE GrowsOld BY <2>1, <3>1 DEF GrowsOld, history
    <3>2. CASE Yolo \/ YoloCut \/ Manual \/ Sweep \/ Expires \/ Reclaim \/ Steal
      BY <2>1, <3>2 DEF Yolo, YoloCut, Manual, Sweep, Expires, Reclaim, Steal, ownerVars, history
    <3> QED BY <2>8, <3>1, <3>2
  <2> QED BY <2>1, <2>2, <2>3, <2>4, <2>5, <2>6, <2>7, <2>8 DEF Next
<1> QED BY <1>1, <1>2, <1>3 DEF TypeOK, Rows

\* The turn stays with its holder.
LEMMA WorkStep ==
  ASSUME Inv, Gains, TurnMoved, [Next]_vars
  PROVE  OneAtWork'
<1>1. stolen => stolen'
  BY DEF Next, Drives, Claim, Resuspend, Enter, Suspend, Lost, Calls, Finish, Release, Withdraw,
         Spend, Delegate, Pose, Sent, Unavailable, Run, Told, Wake, Continue, Crash, Press, Yolo,
         YoloCut, Manual, Sweep, GrowsOld, Expires, Reclaim, Steal, vars, history
<1>2. ASSUME NEW r \in Process, drive'[r].pc = "closing"
      PROVE  turn'.status = "done"
  <2>1. CASE drive'[r] = drive[r]
    BY <1>2, <2>1 DEF Inv, OneAtWork, At, TurnMoved
  <2>2. CASE drive'[r] # drive[r]
    <3>1. Moved(r) BY <2>2, OneMoves DEF Moved, Moves
    <3> QED BY <1>2, <3>1, FreeTurn DEF Moved
  <2> QED BY <2>1, <2>2
<1>3. ASSUME NEW r \in Process, ~stolen', drive'[r].pc \notin {"idle", "closing"}
      PROVE  turn'.status = "running" /\ turn'.claim = r
  <2>1. Driving(r) => Held(r) BY <1>1, <1>3 DEF Inv, OneAtWork
  <2>2. CASE \E p \in Process : p = r /\ Moved(p)
    BY <1>3, <2>1, <2>2 DEF Moved, Held
  <2>3. CASE drive' = drive \/ \E p \in Process : p # r /\ Moved(p) /\ ~Moved(r)
    <3>1. drive'[r] = drive[r] BY <2>3 DEF Moved, Moves
    <3>2. Driving(r) /\ Held(r) BY <1>3, <2>1, <3>1 DEF Driving
    <3>3. CASE turn' = turn BY <3>2, <3>3 DEF Held
    <3>4. CASE Drives(r)
      <4>1. Moved(r) BY <3>4, Drove
      <4> QED BY <1>3, <3>2, <4>1 DEF Moved, Held
    <3> QED BY <1>3, <3>2, <3>3, <3>4 DEF TurnMoved
  <2> QED BY <2>2, <2>3, OneMoves
<1> QED BY <1>2, <1>3 DEF OneAtWork, At, Driving, Held

\* What is referred to stays asked.
LEMMA KeptStep ==
  ASSUME Inv, Gains, TurnMoved, [Next]_vars
  PROVE  RowsKept'
<1>1. \A q \in DOMAIN questions' :
        /\ questions'[q].consumed => questions'[q].decision # "none"
        /\ questions'[q].withdrawn => turn'.status = "done"
  BY DEF Gains, TurnMoved
<1>2. ASSUME NEW r \in Process
      PROVE  /\ drive'[r].on \in DOMAIN questions' \cup {None}
             /\ drive'[r].armed \in DOMAIN questions' \cup {None}
             /\ drive'[r].pc = "confirm" => drive'[r].on # None
             /\ drive'[r].pc \in {"calls", "confirm", "effect"} => drive'[r].todo # <<>>
  <2>1. CASE drive'[r] = drive[r]
    BY <2>1, Keeps DEF Inv, RowsKept, At
  <2>2. CASE drive'[r] # drive[r]
    <3>1. Moved(r) BY <2>2, OneMoves DEF Moved, Moves
    <3> QED BY <3>1 DEF Moved
  <2> QED BY <2>1, <2>2
<1>3. turn'.status = "waiting" => turn'.barrier \in DOMAIN questions' BY DEF TurnMoved
<1> QED BY <1>1, <1>2, <1>3 DEF RowsKept, Asked, At

----------------------------------------------------------------------------
(* The effects.                                                            *)

\* An effect is given by an answer that was not spent before this step and is now.
GivenNow(p) ==
  /\ UNCHANGED <<ran, unasked, stolen>>
  /\ drive'[p].on # None =>
       /\ questions'[drive'[p].on].consumed
       /\ drive'[p].on \in Asked => ~questions[drive'[p].on].consumed
  /\ ~stolen =>
       /\ drive'[p].on # None
       /\ questions'[drive'[p].on].call = TheCall(p)
       /\ questions'[drive'[p].on].decision = "allow"

\* A process comes to an effect by such an answer only.
LEMMA EffectGiven ==
  ASSUME Inv, Gains, NEW p \in Process, drive'[p].pc = "effect",
         Spend(p) \/ Delegate(p) \/ \E v \in {"allow", "deny"} : Told(p, v)
  PROVE  GivenNow(p)
<1>1. UNCHANGED <<ran, unasked, stolen>> BY DEF Spend, Delegate, Told, history
<1>2. CASE Spend(p)
  <2> DEFINE q == Given(p)
  <2>1. /\ q \in Asked /\ ~questions[q].consumed /\ questions'[q].consumed
        /\ questions'[q].call = TheCall(p)
        /\ questions'[q].decision = questions[q].decision
        /\ questions[q].decision # "none"
    BY <1>2, SpendRows
  <2>2. q # None /\ questions[q] \in Row /\ q \in Question
    BY <2>1, RowsAre DEF Inv, TypeOK, Rows, Asked
  <2>3. drive[p].todo # <<>> BY <1>2, Keeps DEF Spend, Calling, At
  <2>4. questions[q].decision # "deny"
    <3>1. CASE questions[q].decision = "deny"
      <4>1. NextCall(p, drive[p].armed) BY <1>2, <3>1 DEF Spend, Skip
      <4>2. drive[p].armed \in Question \cup {None} BY DEF Inv, TypeOK, Drive
      <4> QED BY <2>3, <4>1, <4>2, NextFields DEF Inv
    <3> QED BY <3>1
  <2>5. Takes(p, "effect", q) BY <1>2, <2>4 DEF Spend, Takes
  <2>6. drive'[p].on = q
    BY <2>2, <2>5, OnFields DEF Inv, Pc
  <2>7. questions[q].decision = "allow" BY <2>1, <2>2, <2>4 DEF Row, Decision
  <2> HIDE DEF q
  <2> QED BY <1>1, <2>1, <2>2, <2>6, <2>7 DEF GivenNow
<1>3. CASE Delegate(p)
  <2>1. PICK q \in DOMAIN questions' :
           /\ Takes(p, "effect", q)
           /\ questions'[q].call = TheCall(p)
           /\ questions'[q].decision = "allow" /\ questions'[q].consumed
           /\ q \in Asked => ~questions[q].consumed
    BY <1>3, DelegateRows
  <2>2. q \in Question /\ q # None BY <2>1, Keeps
  <2>3. drive'[p].on = q BY <2>1, <2>2, OnFields DEF Inv, Pc
  <2> QED BY <1>1, <2>1, <2>2, <2>3 DEF GivenNow
<1>4. ASSUME NEW v \in {"allow", "deny"}, Told(p, v) PROVE GivenNow(p)
  <2>1. PICK q \in DOMAIN questions' \cup {None} :
           /\ DOMAIN questions' = Asked
           /\ v = "deny" => Skip(p)
           /\ v = "allow" => Takes(p, "effect", q)
           /\ q # None => /\ ~questions[q].consumed /\ questions'[q].consumed
                          /\ questions'[q].call = TheCall(p)
           /\ ~stolen /\ v = "allow" => q # None /\ questions'[q].decision = "allow"
    BY <1>4, ToldRows
  <2>2. drive[p].todo # <<>> BY <1>4, Keeps DEF Told, At
  <2>3. v = "allow"
    <3>1. CASE v = "deny"
      <4>1. NextCall(p, drive[p].armed) BY <2>1, <3>1 DEF Skip
      <4>2. drive[p].armed \in Question \cup {None} BY DEF Inv, TypeOK, Drive
      <4> QED BY <2>2, <4>1, <4>2, NextFields DEF Inv
    <3> QED BY <3>1
  <2>4. q \in Question \cup {None} BY <2>1, Keeps
  <2>5. drive'[p].on = q BY <2>1, <2>3, <2>4, OnFields DEF Inv, Pc
  <2> QED BY <1>1, <2>1, <2>3, <2>5 DEF GivenNow
<1> QED BY <1>2, <1>3, <1>4

\* Only Run runs, and what was stolen stays stolen.
LEMMA RanStep ==
  ASSUME [Next]_vars
  PROVE  /\ stolen => stolen'
         /\ UNCHANGED <<ran, unasked>> \/ \E p \in Process : Run(p)
<1>1. stolen => stolen'
  BY DEF Next, Drives, Claim, Resuspend, Enter, Suspend, Lost, Calls, Finish, Release, Withdraw,
         Spend, Delegate, Pose, Sent, Unavailable, Run, Told, Wake, Continue, Crash, Press, Yolo,
         YoloCut, Manual, Sweep, GrowsOld, Expires, Reclaim, Steal, vars, history
<1>2. ASSUME NEW p \in Process, Drives(p)
      PROVE  UNCHANGED <<ran, unasked>> \/ Run(p)
  BY <1>2 DEF Drives, Claim, Resuspend, Enter, Suspend, Lost, Calls, Finish, Release, Withdraw,
              Spend, Delegate, Pose, Sent, Unavailable, Run, Told, history
<1>3. ASSUME NEW p \in Process,
             Wake(p) \/ Continue(p) \/ Crash(p)
             \/ \E q \in Question, v \in {"allow", "deny"} : Press(p, q, v)
      PROVE  UNCHANGED <<ran, unasked>>
  BY <1>3 DEF Wake, Continue, Crash, Press, history
<1>4. CASE Yolo \/ YoloCut \/ Manual \/ Sweep \/ GrowsOld \/ Expires \/ Reclaim \/ Steal
  BY <1>4 DEF Yolo, YoloCut, Manual, Sweep, GrowsOld, Expires, Reclaim, Steal, history
<1>5. CASE UNCHANGED vars BY <1>5 DEF vars
<1> QED BY <1>1, <1>2, <1>3, <1>4, <1>5 DEF Next

\* An effect that was about to run before this step, and still is.
LEMMA EffectKept ==
  ASSUME Inv, Gains, NEW p \in Process, At(p, "effect")
  PROVE  /\ drive[p].on # None =>
              /\ drive[p].on \in Asked /\ questions[drive[p].on].consumed
              /\ questions'[drive[p].on].consumed
         /\ ~stolen => /\ drive[p].on # None
                       /\ questions'[drive[p].on].call = TheCall(p)
                       /\ questions'[drive[p].on].decision = "allow"
<1>1. drive[p].on # None =>
        drive[p].on \in Asked /\ questions[drive[p].on].consumed
  BY DEF Inv, RowsKept, Effects
<1>2. ~stolen => Allows(drive[p].on, TheCall(p)) BY DEF Inv, Effects
<1> QED BY <1>1, <1>2 DEF Gains, Grows, Allows, Asked

\* No answer comes to a second effect.
LEMMA EffectsStep ==
  ASSUME Inv, Gains, [Next]_vars, TypeOK'
  PROVE  Effects'
<1>1. /\ \A q \in Question : ran[q] <= 1 /\ (ran[q] > 0 => q \in Asked /\ questions[q].consumed)
      /\ ran \in [Question -> Nat] /\ ran' \in [Question -> Nat]
      /\ unasked => stolen
  BY DEF Inv, Effects, TypeOK
\* A process that is new to its effect.
<1> DEFINE New(r) == drive'[r].pc = "effect" /\ Moved(r)
           Old(r) == drive'[r].pc = "effect" /\ drive'[r] = drive[r] /\ At(r, "effect")
           Allowed(r) == /\ drive'[r].on # None /\ questions'[drive'[r].on].consumed
                         /\ questions'[drive'[r].on].call = Head(drive'[r].todo)
                         /\ questions'[drive'[r].on].decision = "allow"
<1>2. \A r \in Process : drive'[r].pc = "effect" => New(r) \/ Old(r)
  BY OneMoves DEF Moved, Moves, At
<1>3. \A r \in Process : New(r) => GivenNow(r) /\ Head(drive'[r].todo) = TheCall(r)
  BY EffectGiven DEF Moved
<1>4. \A r \in Process : New(r) /\ drive'[r].on # None => ran[drive'[r].on] = 0
  <2>1. ASSUME NEW r \in Process, New(r), drive'[r].on # None PROVE ran[drive'[r].on] = 0
    <3>1. drive'[r].on \in Question BY <2>1 DEF Moved, Moves, Drive
    <3> DEFINE q == drive'[r].on
    <3>2. q \in Asked => ~questions[q].consumed BY <1>3, <2>1 DEF GivenNow
    <3> HIDE DEF q, New
    <3>5. q \in Question BY <3>1 DEF q
    <3>6. ran[q] \in Nat BY <1>1, <3>5
    <3>7. ran[q] > 0 => q \in Asked /\ questions[q].consumed BY <1>1, <3>5
    <3>4. ran[q] = 0 BY <3>2, <3>6, <3>7
    <3> QED BY <3>4 DEF q
  <2> QED BY <2>1
\* An effect that runs.
<1>5. ASSUME NEW p \in Process, Run(p)
      PROVE  /\ At(p, "effect") /\ drive'[p].pc # "effect"
             /\ \A r \in Process : Old(r) => r # p
             /\ \A q \in Question : q # drive[p].on => ran'[q] = ran[q]
             /\ drive[p].on # None => ran'[drive[p].on] = 1
             /\ unasked' => stolen
             /\ \A r \in Process : ~New(r)
  <2>1. At(p, "effect") /\ NextCall(p, drive[p].armed) BY <1>5 DEF Run, Skip
  <2>2. drive[p].todo # <<>> /\ drive[p].armed \in Question \cup {None}
        /\ drive[p].on \in Question \cup {None}
    BY <2>1 DEF Inv, RowsKept, At, TypeOK, Drive
  <2>3. drive'[p].pc # "effect" BY <2>1, <2>2, NextFields DEF Inv
  <2>4. ran' = IF drive[p].on = None THEN ran ELSE [ran EXCEPT ![drive[p].on] = @ + 1]
    BY <1>5 DEF Run
  <2>5. drive[p].on # None => ran[drive[p].on] = 0 BY <2>1 DEF Inv, Effects
  <2>6. unasked' = (unasked \/ ~Allows(drive[p].on, TheCall(p))) BY <1>5 DEF Run
  <2>7. unasked' => stolen BY <1>1, <2>1, <2>6 DEF Inv, Effects
  <2>8. \A r \in Process : ~New(r)
    <3>1. ASSUME NEW r \in Process, New(r) PROVE FALSE
      <4>1. r # p BY <2>3, <3>1
      <4>2. Spend(r) \/ Delegate(r) \/ \E v \in {"allow", "deny"} : Told(r, v)
        BY <3>1 DEF Moved
      <4>3. At(r, "calls") \/ At(r, "confirm")
        BY <4>2 DEF Spend, Delegate, Told, Calling
      <4>4. drive'[r] = drive[r]
        <5>1. Moved(p) BY <1>5, Drove DEF Drives
        <5> QED BY <4>1, <5>1 DEF Moved, Moves
      <4> QED BY <3>1, <4>3, <4>4 DEF At
    <3> QED BY <3>1
  <2>9. \A q \in Question : q # drive[p].on => ran'[q] = ran[q] BY <1>1, <2>4
  <2>10. ASSUME drive[p].on # None PROVE ran'[drive[p].on] = 1
    <3>1. ran' = [ran EXCEPT ![drive[p].on] = ran[drive[p].on] + 1] BY <2>4, <2>10
    <3>2. drive[p].on \in DOMAIN ran BY <1>1, <2>2, <2>10
    <3>3. ran'[drive[p].on] = ran[drive[p].on] + 1 BY <3>1, <3>2
    <3> QED BY <2>5, <2>10, <3>3
  <2>11. \A r \in Process : Old(r) => r # p BY <2>3
  <2> QED BY <2>1, <2>3, <2>7, <2>8, <2>9, <2>10, <2>11
<1> HIDE DEF New, Old
<1>6. ASSUME NEW r \in Process, New(r)
      PROVE  /\ drive'[r].on # None =>
                  questions'[drive'[r].on].consumed /\ ran'[drive'[r].on] = 0
             /\ ~stolen' => Allowed(r)
             /\ drive'[r].on \in Asked => ~questions[drive'[r].on].consumed
             /\ Moved(r)
  <2>1. GivenNow(r) /\ Head(drive'[r].todo) = TheCall(r) BY <1>3, <1>6
  <2>2. ran' = ran BY <2>1 DEF GivenNow
  <2>3. ~stolen' => ~stolen BY RanStep
  <2>4. drive'[r].on # None =>
          /\ questions'[drive'[r].on].consumed /\ ran'[drive'[r].on] = 0
          /\ drive'[r].on \in Asked => ~questions[drive'[r].on].consumed
    BY <1>4, <1>6, <2>1, <2>2 DEF GivenNow
  <2>5. None \notin Asked BY RowsAre DEF Inv, TypeOK, Rows, Asked
  <2>6. ~stolen' => Allowed(r)
    BY <2>1, <2>3 DEF GivenNow
  <2> QED BY <1>6, <2>4, <2>5, <2>6 DEF New
<1>7. ASSUME NEW r \in Process, Old(r)
      PROVE  /\ drive'[r].on # None =>
                  /\ drive'[r].on \in Asked /\ questions[drive'[r].on].consumed
                  /\ questions'[drive'[r].on].consumed /\ ran'[drive'[r].on] = 0
             /\ ~stolen' => Allowed(r)
             /\ At(r, "effect") /\ drive'[r] = drive[r]
  <2>1. At(r, "effect") /\ drive'[r] = drive[r] BY <1>7 DEF Old
  <2>2. /\ drive'[r].on # None =>
             /\ drive'[r].on \in Asked /\ questions[drive'[r].on].consumed
             /\ questions'[drive'[r].on].consumed
        /\ ~stolen => /\ drive'[r].on # None
                      /\ questions'[drive'[r].on].call = TheCall(r)
                      /\ questions'[drive'[r].on].decision = "allow"
    BY <2>1, EffectKept
  <2>3. ~stolen' => ~stolen BY RanStep
  <2>4. ~stolen' => Allowed(r)
    BY <2>1, <2>2, <2>3 DEF TheCall
  <2>5. ASSUME drive'[r].on # None PROVE ran'[drive'[r].on] = 0
    <3>1. ran[drive[r].on] = 0 BY <2>1, <2>5 DEF Inv, Effects
    <3>2. ASSUME NEW p \in Process, Run(p) PROVE ran'[drive[r].on] = ran[drive[r].on]
      <4>1. At(p, "effect") /\ r # p BY <1>5, <1>7, <3>2
      <4>2. drive[r].on # drive[p].on BY <2>1, <2>5, <4>1 DEF Inv, Effects
      <4>3. drive[r].on \in Question BY <2>1, <2>5 DEF Inv, TypeOK, Drive
      <4> QED BY <1>5, <3>2, <4>2, <4>3
    <3> QED BY <2>1, <3>1, <3>2, RanStep
  <2> QED BY <2>1, <2>2, <2>4, <2>5
<1>8. ASSUME NEW p \in Process, NEW r \in Process,
             drive'[p].pc = "effect", drive'[r].pc = "effect",
             drive'[p].on = drive'[r].on, drive'[p].on # None
      PROVE  p = r
  <2>1. CASE Old(p) /\ Old(r)
    <3>1. /\ At(p, "effect") /\ At(r, "effect") /\ drive[p].on = drive[r].on
          /\ drive[p].on # None
      BY <1>7, <1>8, <2>1
    <3> QED BY <3>1 DEF Inv, Effects
  <2>2. CASE New(p) /\ New(r)
    <3>1. drive'[p].pc # drive[p].pc /\ drive'[r].pc # drive[r].pc
      <4>1. \A s \in Process : New(s) => At(s, "calls") \/ At(s, "confirm")
        BY DEF New, Moved, Spend, Delegate, Told, Calling
      <4> QED BY <1>8, <2>2, <4>1 DEF At
    <3> QED BY <3>1, OneMoves DEF Moved, Moves
  <2>3. CASE (Old(p) /\ New(r)) \/ (New(p) /\ Old(r))
    <3>1. FALSE BY <1>6, <1>7, <1>8, <2>3
    <3> QED BY <3>1
  <2> QED BY <1>2, <1>8, <2>1, <2>2, <2>3
<1>9. ASSUME NEW q \in Question
      PROVE  ran'[q] <= 1 /\ (ran'[q] > 0 => q \in DOMAIN questions' /\ questions'[q].consumed)
  <2>1. q \in Asked /\ questions[q].consumed => q \in DOMAIN questions' /\ questions'[q].consumed
    BY DEF Gains, Grows, Asked
  <2>2. CASE ran'[q] = ran[q] BY <1>1, <2>1, <2>2
  <2>3. ASSUME NEW p \in Process, Run(p), q = drive[p].on
        PROVE  ran'[q] <= 1 /\ q \in Asked /\ questions[q].consumed
    <3>1. At(p, "effect") /\ q # None BY <1>5, <2>3, Constants DEF Question, None
    <3>2. ran'[q] = 1 BY <1>5, <2>3, <3>1
    <3>3. q \in Asked /\ questions[q].consumed BY <2>3, <3>1, EffectKept
    <3> QED BY <3>2, <3>3
  <2>4. CASE ran' # ran
    <3>1. PICK p \in Process : Run(p) BY <2>4, RanStep
    <3> QED BY <1>5, <2>1, <2>2, <2>3, <3>1
  <2> QED BY <2>2, <2>4
<1>10. unasked' => stolen'
  <2>1. \A p \in Process : Run(p) => (unasked' => stolen) BY <1>5
  <2>2. CASE UNCHANGED <<ran, unasked>>
    <3>1. unasked' = unasked BY <2>2
    <3>2. unasked => stolen BY DEF Inv, Effects
    <3>3. stolen => stolen' BY RanStep
    <3> QED BY <3>1, <3>2, <3>3
  <2>3. CASE \E p \in Process : Run(p)
    <3>1. unasked' => stolen BY <2>1, <2>3
    <3>2. stolen => stolen' BY RanStep
    <3> QED BY <3>1, <3>2
  <2> QED BY <2>2, <2>3, RanStep
<1>11. \A p \in Process : drive'[p].pc = "effect" /\ drive'[p].on # None =>
         questions'[drive'[p].on].consumed /\ ran'[drive'[p].on] = 0
  BY <1>2, <1>6, <1>7
<1>12. ~stolen' => \A p \in Process : drive'[p].pc = "effect" => Allowed(p)
  BY <1>2, <1>6, <1>7
<1> QED BY <1>8, <1>9, <1>10, <1>11, <1>12 DEF Effects, At, TheCall, Asked, Allows

\* The question as the terminal has it.
PosedBy(p) ==
  /\ questions[drive[p].on].call = TheCall(p)
  /\ ~questions[drive[p].on].consumed /\ ~questions[drive[p].on].withdrawn
  /\ questions[drive[p].on].decision # "deny"
  /\ Matching(questions, TheCall(p)) \subseteq {drive[p].on}
  /\ OpenFor(TheCall(p)) \subseteq {drive[p].on}

\* A question that goes to the terminal now.
LEMMA PosedAnew ==
  ASSUME Inv, Gains, NEW p \in Process, Pose(p), Moved(p), drive'[p].pc = "confirm"
  PROVE  PosedBy(p)'
<1> DEFINE c == TheCall(p)
<1>1. Rows(questions) BY DEF Inv, TypeOK, Rows
<1>2. c \in Call /\ Room(c) /\ questions' = Ask(c) /\ Given(p) = None
  BY TheCallIn DEF Pose, Calling, At
<1>3. Matching(questions, c) = {}
  <2>1. Match(questions, c) = None BY <1>2 DEF Given
  <2>2. None \notin Matching(questions, c) BY <1>1, RowsAre DEF Matching
  <2> QED BY <1>1, <2>1, <2>2, MatchIn
<1>4. drive'[p].on = Place(c) /\ Head(drive'[p].todo) = c BY DEF Moved
<1> HIDE DEF c
<1>5. /\ Rows(questions') /\ Asked \subseteq DOMAIN questions'
      /\ \A q \in Asked : questions'[q] = questions[q]
      /\ \A q \in DOMAIN questions' : q \in Asked \/ q = Place(c)
      /\ questions'[Place(c)].call = c /\ questions'[Place(c)].decision = "none"
      /\ ~questions'[Place(c)].withdrawn
      /\ Place(c) \in Asked => Place(c) \in OpenFor(c)
      /\ Place(c) \notin Asked => OpenFor(c) = {} /\ ~questions'[Place(c)].consumed
  BY <1>1, <1>2, AskRows
<1>6. ~questions'[Place(c)].consumed
  BY <1>5 DEF Inv, RowsKept
<1>7. ASSUME NEW q \in DOMAIN questions', questions'[q].call = c,
             questions'[q].decision # "none", ~questions'[q].consumed
      PROVE  q = Place(c)
  <2>1. CASE q \in Asked BY <1>3, <1>5, <1>7, <2>1 DEF Matching, Asked
  <2> QED BY <1>5, <2>1
<1>8. ASSUME NEW q \in DOMAIN questions', questions'[q].call = c,
             questions'[q].decision = "none", ~questions'[q].withdrawn
      PROVE  q = Place(c)
  <2>1. CASE q \in Asked
    <3>1. q \in OpenFor(c) BY <1>5, <1>8, <2>1 DEF OpenFor, Open, IsOpen
    <3>2. Place(c) \in OpenFor(c) BY <1>5, <3>1
    <3> QED BY <3>1, <3>2 DEF OpenFor, Inv, QuestionsFollowTheTurn, OneOpenQuestion
  <2> QED BY <1>5, <2>1
<1> QED BY <1>4, <1>5, <1>6, <1>7, <1>8
        DEF PosedBy, TheCall, Matching, OpenFor, Open, IsOpen, Asked

\* A question at the terminal when /yolo answers it.
LEMMA PosedAllowed ==
  ASSUME Inv, NEW p \in Process, PosedBy(p), drive'[p] = drive[p], At(p, "confirm"),
         questions' = AllAllowed
  PROVE  PosedBy(p)'
<1> DEFINE c == TheCall(p)
           on == drive[p].on
<1>1. Rows(questions) BY DEF Inv, TypeOK, Rows
<1>2. /\ DOMAIN questions' = Asked
      /\ \A q \in Asked :
           /\ questions'[q].call = questions[q].call
           /\ questions'[q].decision = IF IsOpen(q) THEN "allow" ELSE questions[q].decision
           /\ questions'[q].consumed = questions[q].consumed
           /\ questions'[q].withdrawn = questions[q].withdrawn
  BY <1>1, AllowedRows
<1>3. on \in Asked BY DEF Inv, RowsKept, At
<1>4. /\ questions[on].call = c /\ ~questions[on].consumed /\ ~questions[on].withdrawn
      /\ questions[on].decision # "deny"
      /\ Matching(questions, c) \subseteq {on} /\ OpenFor(c) \subseteq {on}
  BY DEF PosedBy
<1>5. drive'[p].on = on /\ Head(drive'[p].todo) = c BY DEF TheCall
<1> HIDE DEF c, on
<1>6. ASSUME NEW q \in Asked, questions'[q].call = c,
             questions'[q].decision # "none", ~questions'[q].consumed
      PROVE  q = on
  <2>1. CASE IsOpen(q) BY <1>2, <1>4, <1>6, <2>1 DEF OpenFor, Open
  <2>2. CASE ~IsOpen(q) BY <1>2, <1>4, <1>6, <2>2 DEF Matching, Asked
  <2> QED BY <2>1, <2>2
<1>7. ASSUME NEW q \in Asked PROVE ~(questions'[q].decision = "none" /\ ~questions'[q].withdrawn)
  BY <1>2 DEF IsOpen
<1>8. /\ questions'[on].call = c /\ ~questions'[on].consumed /\ ~questions'[on].withdrawn
      /\ questions'[on].decision # "deny"
  BY <1>2, <1>3, <1>4
<1> QED BY <1>2, <1>5, <1>6, <1>7, <1>8
        DEF PosedBy, TheCall, Matching, OpenFor, Open, IsOpen, Asked

\* While a process that nobody robbed is at its terminal, no other drives the turn.
LEMMA OthersIdle ==
  ASSUME Inv, ~stolen, NEW r \in Process, At(r, "confirm"),
         NEW p \in Process, p # r, Drives(p) \/ Continue(p) \/ Crash(p)
  PROVE  questions' = questions
<1>1. Held(r) BY DEF Inv, OneAtWork, Driving, At
<1>2. turn.status = "running" /\ ~Held(p) BY <1>1 DEF Held
<1>3. ~Driving(p) /\ ~At(p, "closing") BY <1>2 DEF Inv, OneAtWork
<1>4. ~Withdraw(p) /\ ~Spend(p) /\ ~Delegate(p) /\ ~Pose(p)
      /\ ~\E v \in {"allow", "deny"} : Told(p, v)
  BY <1>3 DEF Driving, At, Withdraw, Spend, Delegate, Pose, Told, Calling
<1> QED BY <1>4 DEF Drives, Claim, Resuspend, Enter, Suspend, Lost, Calls, Finish, Release, Sent,
                    Unavailable, Run, Continue, Crash

\* The surface of a turn does not change.
LEMMA SameButtons ==
  ASSUME [Next]_vars
  PROVE  buttons' = buttons
BY DEF Next, Drives, Claim, Resuspend, Enter, Suspend, Lost, Calls, Finish, Release, Withdraw,
       Spend, Delegate, Pose, Sent, Unavailable, Run, Told, Wake, Continue, Crash, Press, Yolo,
       YoloCut, Manual, Sweep, GrowsOld, Expires, Reclaim, Steal, vars, ownerVars

\* The terminal keeps its question to itself.
LEMMA PosedStep ==
  ASSUME Inv, Gains, [Next]_vars
  PROVE  Posed'
<1> SUFFICES ASSUME ~stolen', ~buttons', NEW r \in Process, At(r, "confirm")'
             PROVE  PosedBy(r)'
  BY DEF Posed, PosedBy
<1>1. ~stolen /\ ~buttons BY RanStep, SameButtons
<1>2. CASE Moved(r) /\ drive'[r] # drive[r]
  BY <1>2, PosedAnew DEF Moved, At
<1>3. CASE drive'[r] = drive[r]
  <2>1. At(r, "confirm") BY <1>3 DEF At
  <2>2. PosedBy(r) BY <1>1, <2>1 DEF Inv, Posed, PosedBy
  <2>3. ASSUME questions' = questions PROVE PosedBy(r)'
    BY <1>3, <2>2, <2>3 DEF PosedBy, TheCall, OpenFor, Open, IsOpen, Asked
  <2>4. CASE questions' = AllAllowed BY <1>3, <2>1, <2>2, <2>4, PosedAllowed
  <2>5. ASSUME NEW p \in Process, Drives(p) \/ Continue(p) \/ Crash(p)
        PROVE  PosedBy(r)'
    <3>1. CASE p # r BY <1>1, <2>1, <2>3, <2>5, <3>1, OthersIdle
    <3>2. CASE p = r
      <4>1. Moved(r) BY <2>5, <3>2, Drove
      <4> QED BY <4>1, PosedAnew DEF Moved, At
    <3> QED BY <3>1, <3>2
  <2>6. ASSUME NEW p \in Process,
               Wake(p) \/ \E q \in Question, v \in {"allow", "deny"} : Press(p, q, v)
        PROVE  questions' = questions
    BY <1>1, <2>6 DEF Wake, Press
  <2>7. CASE Manual \/ Sweep \/ GrowsOld \/ Expires \/ Reclaim \/ Steal \/ UNCHANGED vars
    <3>1. questions' = questions
      BY <2>7 DEF Manual, Sweep, GrowsOld, Expires, Reclaim, Steal, vars
    <3> QED BY <2>3, <3>1
  <2>8. CASE Yolo \/ YoloCut BY <2>4, <2>8 DEF Yolo, YoloCut
  <2> QED BY <2>3, <2>5, <2>6, <2>7, <2>8 DEF Next
<1> QED BY <1>2, <1>3, OneMoves DEF Moved, Moves

----------------------------------------------------------------------------
(* The questions and the turn.                                             *)

\* No second question of a call is opened.
LEMMA OneOpenStep ==
  ASSUME Inv, Gains, [Next]_vars
  PROVE  OneOpenQuestion'
<1> DEFINE Opened(q) == q \in DOMAIN questions' /\ questions'[q].decision = "none"
                        /\ ~questions'[q].withdrawn
<1> SUFFICES ASSUME NEW q \in DOMAIN questions', NEW r \in DOMAIN questions',
                    Opened(q), Opened(r), questions'[q].call = questions'[r].call
             PROVE  q = r
  BY DEF OneOpenQuestion, Open, IsOpen, Asked
<1>1. \A s \in Open : questions'[s].call = questions[s].call
  BY DEF Gains, Grows, Open, Asked
<1>2. CASE q \in Open /\ r \in Open
  BY <1>1, <1>2 DEF Inv, QuestionsFollowTheTurn, OneOpenQuestion
<1>3. ASSUME NEW p \in Process, Pose(p)
      PROVE  q = r
  <2> DEFINE c == TheCall(p)
  <2>1. Rows(questions) BY DEF Inv, TypeOK, Rows
  <2>2. c \in Call /\ Room(c) /\ questions' = Ask(c)
    BY <1>3, TheCallIn DEF Pose, Calling, At
  <2> HIDE DEF c
  <2>3. /\ \A s \in Asked : questions'[s] = questions[s]
        /\ \A s \in DOMAIN questions' : s \in Asked \/ s = Place(c)
        /\ questions'[Place(c)].call = c
        /\ Place(c) \in Asked => Place(c) \in OpenFor(c)
        /\ Place(c) \notin Asked => OpenFor(c) = {}
    BY <2>1, <2>2, AskRows
  <2>4. \A s \in Asked : Opened(s) => s \in Open BY <2>3 DEF Open, IsOpen
  <2>5. CASE Place(c) \in Asked
    BY <1>2, <2>3, <2>4, <2>5
  <2>6. CASE Place(c) \notin Asked
    <3>1. \A s \in Asked : Opened(s) => questions'[s].call # c
      BY <2>3, <2>4, <2>6 DEF OpenFor
    <3> QED BY <1>2, <2>3, <2>4, <3>1
  <2> QED BY <2>5, <2>6
<1> QED BY <1>2, <1>3 DEF Gains

\* None stays open behind the end.
LEMMA EndStep ==
  ASSUME Inv, Gains, TurnMoved, [Next]_vars, turn'.status = "done", Open' # {}
  PROVE  stolen' \/ cut' \/ \E p \in Process : At(p, "closing")'
<1>1. CASE turn.status # "done" BY <1>1 DEF TurnMoved, At
<1>2. CASE turn.status = "done"
  <2>1. CASE stolen BY <2>1, RanStep
  <2>2. CASE cut
    BY <2>2 DEF Next, Drives, Claim, Resuspend, Enter, Suspend, Lost, Calls, Finish, Release,
         Withdraw, Spend, Delegate, Pose, Sent, Unavailable, Run, Told, Wake, Continue, Crash,
         Press, Yolo, YoloCut, Manual, Sweep, GrowsOld, Expires, Reclaim, Steal, vars, history
  <2>3. CASE ~stolen /\ ~cut
    <3>1. \A p \in Process : ~Driving(p) BY <1>2, <2>3 DEF Inv, OneAtWork, Held
    <3>2. \A p \in Process : ~Pose(p) BY <3>1 DEF Driving, Pose, Calling, At
    <3>3. PICK q \in DOMAIN questions' :
            questions'[q].decision = "none" /\ ~questions'[q].withdrawn
      BY DEF Open, IsOpen, Asked
    <3>4. q \in Open BY <3>2, <3>3 DEF Gains
    <3>5. PICK p \in Process : At(p, "closing")
      BY <1>2, <2>3, <3>4 DEF Inv, QuestionsFollowTheTurn, WithdrawnWithTheTurn
    <3>6. CASE drive'[p] = drive[p] BY <3>5, <3>6 DEF At
    <3>7. CASE drive'[p] # drive[p]
      <4>1. Drives(p) \/ Continue(p) \/ Crash(p)
        BY <3>7, OneMoves DEF Moved, Moves
      <4>2. Withdraw(p) \/ Crash(p)
        BY <4>1, <3>5 DEF Drives, Claim, Resuspend, Enter, Suspend, Lost, Calls, Finish, Release,
             Spend, Delegate, Pose, Sent, Unavailable, Run, Told, Continue, Calling, Answers, At
      <4>3. ~Withdraw(p) BY <3>3, WithdrawGains
      <4>4. cut' BY <3>5, <4>2, <4>3 DEF Crash
      <4> QED BY <4>4
    <3> QED BY <3>6, <3>7
  <2> QED BY <2>1, <2>2, <2>3
<1> QED BY <1>1, <1>2

\* The questions follow the turn.
LEMMA FollowStep ==
  ASSUME Inv, Gains, TurnMoved, [Next]_vars, RowsKept'
  PROVE  QuestionsFollowTheTurn'
<1>1. turn'.status = "waiting" => ~questions'[turn'.barrier].withdrawn
  BY DEF RowsKept, Asked
<1> QED BY <1>1, OneOpenStep, EndStep DEF QuestionsFollowTheTurn, WithdrawnWithTheTurn

\* At the start nothing is asked.
LEMMA Initially ==
  ASSUME Init
  PROVE  Inv
<1>1. <<>> \in Seq(Row) /\ Len(<<>>) = 0 /\ DOMAIN <<>> = {} OBVIOUS
<1>2. <<>> \in [1 .. 0 -> Call] OBVIOUS
<1>3. <<>> \in Batch BY <1>2 DEF Batch
<1>4. Idle \in Drive BY <1>3 DEF Idle, Drive, Pc
<1>5. turn \in Turn /\ turn.status = "runnable" BY DEF Init, Turn
<1>6. TypeOK
  <2>1. MaxQuestions \in Nat BY Constants
  <2>2. questions \in Seq(Row) /\ Len(questions) <= MaxQuestions /\ old \in 0 .. MaxQuestions
    BY <1>1, <2>1 DEF Init
  <2>3. drive \in [Process -> Drive] BY <1>4 DEF Init
  <2>4. ran \in [Question -> Nat] /\ pressed \subseteq Gateway /\ buttons \in BOOLEAN
        /\ yolo \in BOOLEAN /\ {unasked, stolen, cut} \subseteq BOOLEAN
    BY DEF Init
  <2> QED BY <1>5, <2>2, <2>3, <2>4 DEF TypeOK
<1>7. Asked = {} /\ Open = {} BY <1>1 DEF Init, Asked, Open
<1>8. \A p \in Process : drive[p].pc = "idle" /\ drive[p].on = None /\ drive[p].armed = None
  BY DEF Init, Idle
<1>9. OneAtWork BY <1>8 DEF OneAtWork, At, Driving
<1>10. RowsKept BY <1>5, <1>7, <1>8 DEF RowsKept, At
<1>11. Effects BY <1>8 DEF Init, Effects, At
<1>12. Posed BY <1>8 DEF Posed, At
<1>13. QuestionsFollowTheTurn
  BY <1>5, <1>7 DEF QuestionsFollowTheTurn, OneOpenQuestion, WithdrawnWithTheTurn
<1> QED BY <1>6, <1>9, <1>10, <1>11, <1>12, <1>13 DEF Inv

\* The invariant holds in every behaviour.
THEOREM Inductive == Spec => []Inv
<1>1. Init => Inv BY Initially
<1>2. Inv /\ [Next]_vars => Inv'
  <2> SUFFICES ASSUME Inv, [Next]_vars PROVE Inv' OBVIOUS
  <2>1. Gains BY GainsStep
  <2>2. TurnMoved BY <2>1, TurnStep
  <2>3. TypeOK' BY <2>1, <2>2, TypeStep
  <2>4. OneAtWork' BY <2>1, <2>2, WorkStep
  <2>5. RowsKept' BY <2>1, <2>2, KeptStep
  <2>6. Effects' BY <2>1, <2>3, EffectsStep
  <2>7. Posed' BY <2>1, PosedStep
  <2>8. QuestionsFollowTheTurn' BY <2>1, <2>2, <2>5, FollowStep
  <2> QED BY <2>3, <2>4, <2>5, <2>6, <2>7, <2>8 DEF Inv
<1> QED BY <1>1, <1>2, PTL DEF Spec

\* The type of the register, of the turn and of its processes.
THEOREM TypeCorrect == Spec => []TypeOK
<1>1. Inv => TypeOK BY DEF Inv
<1> QED BY <1>1, Inductive, PTL

\* An answer is spent on one effect at most and, unless the turn was stolen, every
\* effect runs on an answer that allows its call (ApprovalStore.take, tool-call.ts).
THEOREM AnswersCorrect == Spec => []AnswersAreSpentOnce
<1>1. Inv => AnswersAreSpentOnce BY DEF Inv, Effects, AnswersAreSpentOnce
<1> QED BY <1>1, Inductive, PTL

\* A call has one open question, and the open questions are those of a turn that can
\* still be answered (ApprovalStore.ask, withdrawForTurn).
THEOREM QuestionsCorrect == Spec => []QuestionsFollowTheTurn
<1>1. Inv => QuestionsFollowTheTurn BY DEF Inv
<1> QED BY <1>1, Inductive, PTL

=============================================================================
