----------------------- MODULE TurnExecution_proofs -----------------------
(***************************************************************************)
(* What TurnExecution promises of a turn's effects, for any processes,     *)
(* calls and bounds: nothing is run without its intent, what cannot be     *)
(* repeated is not, the transcript is honest, and the taint covers it.     *)
(***************************************************************************)
EXTENDS TurnExecution, TLAPS

----------------------------------------------------------------------------
(* Types.                                                                  *)

\* A call at hand is one that was asked for.
InBounds(d) == /\ d.asked <= MaxCall /\ d.at >= 1
               /\ d.pc \in {"intended", "called"} => d.at <= d.asked

Typed == /\ TypeOK
         /\ row.asked <= MaxCall
         /\ \A p \in Proc : InBounds(drive[p])

LEMMA Constant ==
  /\ NoResult \in Result /\ Unknown \in Result /\ Refused \in Result /\ NoRecord \in Record
  /\ NoResults \in [Call -> Result] /\ Idle \in Drive /\ InBounds(Idle)
  /\ \A tier \in Tier, run \in Nat : Done(tier, run) \in Result
  /\ \A t, u \in Tier : Raised(t, u) \in Tier /\ Raised(t, u) >= t /\ Raised(t, u) >= u
<1>1. 0 \in Tier
  BY TiersAreNaturals DEF Tier
<1>2. NoResult \in Result /\ Unknown \in Result /\ Refused \in Result /\ NoRecord \in Record
  BY <1>1 DEF NoResult, Unknown, Refused, NoRecord, Result, Record
<1>3. NoResults \in [Call -> Result]
  BY <1>2 DEF NoResults
<1>4. Idle \in Drive
  BY <1>1, <1>3 DEF Idle, Drive, Pc
<1>5. InBounds(Idle)
  BY CallBounds DEF Idle, InBounds
<1>6. \A tier \in Tier, run \in Nat : Done(tier, run) \in Result
  BY DEF Done, Result
<1>7. \A t, u \in Tier : Raised(t, u) \in Tier /\ Raised(t, u) >= t /\ Raised(t, u) >= u
  BY TiersAreNaturals DEF Raised, Tier
<1> QED
  BY <1>2, <1>3, <1>4, <1>5, <1>6, <1>7

\* A call that is pending, intended or under way is a call.
LEMMA AtHand ==
  ASSUME Typed, NEW p \in Proc,
         Pending(p) \/ drive[p].pc \in {"intended", "called"}
  PROVE  drive[p].at \in Call /\ drive[p] \in Drive
<1>1. drive[p] \in Drive /\ InBounds(drive[p])
  BY DEF Typed, TypeOK
<1>2. drive[p].at \in Nat /\ drive[p].asked \in Nat
  BY <1>1 DEF Drive
<1>3. 1 <= drive[p].at /\ drive[p].at <= MaxCall
  BY <1>1, <1>2, CallBounds DEF InBounds, Pending
<1> QED
  BY <1>1, <1>2, <1>3, CallBounds DEF Call

LEMMA AnsweredFields ==
  ASSUME NEW d \in Drive, d.at \in Call, NEW result \in Result, NEW taint \in Tier,
         NEW e, e = Answered(d, result, taint)
  PROVE  /\ e \in Drive
         /\ e.pc = "batch" /\ e.at = d.at + 1 /\ e.taint = taint
         /\ e.results = [d.results EXCEPT ![d.at] = result]
         /\ e.repair = d.repair /\ e.latched = d.latched /\ e.asked = d.asked
         /\ e.answered = d.answered /\ e.recorded = d.recorded /\ e.open = d.open
<1>1. e = [pc |-> "batch", repair |-> d.repair, latched |-> d.latched, asked |-> d.asked,
           answered |-> d.answered, at |-> d.at + 1, run |-> d.run,
           results |-> [d.results EXCEPT ![d.at] = result], taint |-> taint,
           recorded |-> d.recorded, open |-> d.open]
  BY DEF Answered, Drive
<1>2. d.at + 1 \in Nat /\ [d.results EXCEPT ![d.at] = result] \in [Call -> Result]
  BY DEF Drive
<1> QED
  BY <1>1, <1>2 DEF Drive, Pc

LEMMA SavedFields ==
  ASSUME row \in Row, NEW d \in Drive
  PROVE  /\ Saved(d) \in Row
         /\ Saved(d).asked = d.asked /\ Saved(d).answered = d.answered
         /\ Saved(d).taint = d.taint /\ Saved(d).status = row.status
         /\ Saved(d).holder = row.holder /\ Saved(d).orphan = row.orphan
         /\ \A c \in Call : Saved(d).results[c] = IF c <= d.answered THEN d.results[c] ELSE NoResult
<1> DEFINE r == [c \in Call |-> IF c <= d.answered THEN d.results[c] ELSE NoResult]
<1>1. r \in [Call -> Result]
  BY Constant DEF Drive
<1>a. Saved(d) = [row EXCEPT !.asked = d.asked, !.answered = d.answered,
                             !.taint = d.taint, !.results = r]
  BY DEF Saved
<1> HIDE DEF r
<1>2. Saved(d) = [status |-> row.status, holder |-> row.holder, orphan |-> row.orphan,
                  asked |-> d.asked, answered |-> d.answered, results |-> r, taint |-> d.taint]
  BY <1>a DEF Row
<1>3. /\ Saved(d) \in Row
      /\ Saved(d).asked = d.asked /\ Saved(d).answered = d.answered
      /\ Saved(d).taint = d.taint /\ Saved(d).status = row.status
      /\ Saved(d).holder = row.holder /\ Saved(d).orphan = row.orphan
      /\ Saved(d).results = r
  BY <1>1, <1>2 DEF Row, Drive
<1> QED
  BY <1>3 DEF r

----------------------------------------------------------------------------
(* What each kind of step does.                                            *)

\* The calls that get their result with no handler and no record of it: refused,
\* replayed, declared unknown, or with an outcome that could not be written.
Answers(p) ==
  \/ Replay(p) \/ Declare(p) \/ Reuse(p) \/ ReadFails(p)
  \/ \E latched \in BOOLEAN : Refuse(p, latched)
  \/ \E tier \in Tier : OutcomeFails(p, tier)

\* The result such a call may get.
MayAnswer(p, result) ==
  LET d == drive[p]
      w == wal[d.at]
  IN  \/ Pending(p) /\ Recorded(d) /\ result = Done(w.tier, w.run)
      \/ Pending(p) /\ Uncertain(d) /\ result = Unknown
      \/ Runs(p) /\ result = Refused
      \/ d.pc = "intended" /\ w.ended /\ result = Done(w.tier, w.run)
      \/ d.pc = "intended" /\ result = Refused
      \/ d.pc = "called" /\ \E tier \in Tier : result = Done(tier, d.run)

\* The drive e of p after such an answer.
AnswerOf(p, result, e) ==
  LET d == drive[p]
  IN  /\ e \in Drive /\ e.pc = "batch" /\ e.at = d.at + 1
      /\ e.results = [d.results EXCEPT ![d.at] = result]
      /\ e.taint >= d.taint /\ (result.kind = "done" => e.taint >= result.tier)
      /\ e.latched \/ e.latched = d.latched
      /\ e.repair = d.repair /\ e.asked = d.asked /\ e.answered = d.answered
      /\ e.recorded = d.recorded /\ e.open = d.open

LEMMA AnswerShape ==
  ASSUME Typed, NEW p \in Proc, drive[p].at \in Call,
         NEW result \in Result, NEW taint \in Tier, NEW latched \in BOOLEAN, NEW e,
         taint >= drive[p].taint, result.kind = "done" => taint >= result.tier,
         \/ e = Answered(drive[p], result, taint)
         \/ /\ drive[p].latched => latched
            /\ e = [Answered(drive[p], result, taint) EXCEPT !.latched = latched]
  PROVE  AnswerOf(p, result, e)
<1> DEFINE d == drive[p]
           f == Answered(d, result, taint)
<1>1. d \in Drive
  BY DEF Typed, TypeOK
<1>2. /\ f \in Drive
      /\ f.pc = "batch" /\ f.at = d.at + 1 /\ f.taint = taint
      /\ f.results = [d.results EXCEPT ![d.at] = result]
      /\ f.repair = d.repair /\ f.latched = d.latched /\ f.asked = d.asked
      /\ f.answered = d.answered /\ f.recorded = d.recorded /\ f.open = d.open
  BY <1>1, AnsweredFields
<1> HIDE DEF f
<1>3. CASE e = f
  BY <1>2, <1>3 DEF AnswerOf
<1>4. CASE (d.latched => latched) /\ e = [f EXCEPT !.latched = latched]
  <2>1. /\ e \in Drive
        /\ e.pc = f.pc /\ e.at = f.at /\ e.taint = f.taint /\ e.results = f.results
        /\ e.repair = f.repair /\ e.latched = latched /\ e.asked = f.asked
        /\ e.answered = f.answered /\ e.recorded = f.recorded /\ e.open = f.open
    BY <1>2, <1>4 DEF Drive
  <2>2. latched \/ latched = d.latched
    BY <1>1, <1>4 DEF Drive
  <2> QED
    BY <1>2, <2>1, <2>2 DEF AnswerOf
<1> QED
  BY <1>3, <1>4 DEF f

LEMMA AnswersFields ==
  ASSUME Typed, NEW p \in Proc, Answers(p)
  PROVE  /\ UNCHANGED <<row, wal, runs, faults>>
         /\ Pending(p) \/ drive[p].pc \in {"intended", "called"}
         /\ \E result \in Result, e \in Drive :
              /\ drive' = [drive EXCEPT ![p] = e]
              /\ MayAnswer(p, result)
              /\ AnswerOf(p, result, e)
<1> DEFINE d == drive[p]
           w == wal[d.at]
<1>1. Pending(p) \/ d.pc \in {"intended", "called"}
  BY DEF Answers, Replay, Declare, Reuse, ReadFails, Refuse, OutcomeFails, Runs
<1>2. d \in Drive /\ d.at \in Call /\ w \in Record
  BY <1>1, AtHand DEF Typed, TypeOK
<1>3. d.taint \in Tier /\ d.run \in Nat /\ w.tier \in Tier /\ w.run \in Nat
  BY <1>2 DEF Drive, Record
<1>4. UNCHANGED <<row, wal, runs, faults>>
  BY DEF Answers, Replay, Declare, Reuse, ReadFails, Refuse, OutcomeFails
<1>5. d.taint >= d.taint
  BY <1>3, TiersAreNaturals DEF Tier
<1>6. \A tier \in Tier, run \in Nat : Done(tier, run).tier = tier
  BY DEF Done
<1>7. Refused.kind = "refused" /\ Unknown.kind = "unknown"
  BY DEF Refused, Unknown, NoResult
<1> DEFINE Goal == \E result \in Result, e \in Drive :
                     /\ drive' = [drive EXCEPT ![p] = e]
                     /\ MayAnswer(p, result)
                     /\ AnswerOf(p, result, e)
<1> SUFFICES Goal
  BY <1>1, <1>4
<1>8. ASSUME (Replay(p) /\ Pending(p) /\ Recorded(d)) \/ Reuse(p) PROVE Goal
  <2> DEFINE result == Done(w.tier, w.run)
             e == Answered(d, result, Raised(d.taint, w.tier))
  <2>1. result \in Result /\ Raised(d.taint, w.tier) \in Tier
        /\ Raised(d.taint, w.tier) >= d.taint /\ Raised(d.taint, w.tier) >= result.tier
    BY <1>3, <1>6, Constant
  <2>2. AnswerOf(p, result, e)
    BY <1>2, <2>1, AnswerShape
  <2>3. MayAnswer(p, result) /\ drive' = [drive EXCEPT ![p] = e]
    BY <1>8 DEF Replay, Reuse, SetDrive, MayAnswer
  <2> HIDE DEF e, result
  <2> QED
    BY <2>1, <2>2, <2>3 DEF AnswerOf
<1>9. ASSUME Declare(p) PROVE Goal
  <2> DEFINE e == Answered(d, Unknown, d.taint)
  <2>1. AnswerOf(p, Unknown, e)
    BY <1>2, <1>3, <1>5, <1>7, Constant, AnswerShape
  <2>2. MayAnswer(p, Unknown) /\ drive' = [drive EXCEPT ![p] = e]
    BY <1>9 DEF Declare, SetDrive, MayAnswer
  <2> HIDE DEF e
  <2> QED
    BY <2>1, <2>2, Constant DEF AnswerOf
<1>10. ASSUME ReadFails(p) \/ \E latched \in BOOLEAN : Refuse(p, latched) PROVE Goal
  <2>1. PICK latched \in BOOLEAN :
          /\ d.latched => latched
          /\ drive' = [drive EXCEPT ![p] = [Answered(d, Refused, d.taint) EXCEPT !.latched = latched]]
    BY <1>10 DEF ReadFails, Refuse, SetDrive
  <2> DEFINE e == [Answered(d, Refused, d.taint) EXCEPT !.latched = latched]
  <2>2. AnswerOf(p, Refused, e)
    BY <1>2, <1>3, <1>5, <1>7, <2>1, Constant, AnswerShape
  <2>3. MayAnswer(p, Refused) /\ drive' = [drive EXCEPT ![p] = e]
    BY <1>10, <2>1 DEF ReadFails, Refuse, MayAnswer
  <2> HIDE DEF e
  <2> QED
    BY <2>2, <2>3, Constant DEF AnswerOf
<1>11. ASSUME NEW tier \in Tier, OutcomeFails(p, tier) PROVE Goal
  <2> DEFINE result == Done(tier, d.run)
             f == Answered(d, result, Raised(d.taint, tier))
             e == [f EXCEPT !.latched = TRUE]
  <2>1. result \in Result /\ Raised(d.taint, tier) \in Tier
        /\ Raised(d.taint, tier) >= d.taint /\ Raised(d.taint, tier) >= result.tier
    BY <1>3, <1>6, Constant
  <2>2. AnswerOf(p, result, e)
    BY <1>2, <2>1, AnswerShape
  <2>3. MayAnswer(p, result) /\ drive' = [drive EXCEPT ![p] = e]
    BY <1>11 DEF OutcomeFails, SetDrive, MayAnswer
  <2> HIDE DEF e, result
  <2> QED
    BY <2>1, <2>2, <2>3 DEF AnswerOf
<1> QED
  BY <1>8, <1>9, <1>10, <1>11 DEF Answers, Replay

----------------------------------------------------------------------------
(* The invariant.                                                          *)

Untouched(c) == ~wal[c].intent /\ ~wal[c].ended /\ runs[c] = 0

Honest(r, c) ==
  /\ r.kind = "refused" /\ c \notin Rerunnable => runs[c] = 0
  /\ r.kind = "done" => r.run \in 1 .. runs[c]
  /\ r.kind = "unknown" => wal[c].intent
  /\ r.kind = "done" /\ wal[c].ended => r = Done(wal[c].tier, wal[c].run)

\* Whoever drives: no run without an intent, every recorded run was one, and a
\* taint covers the results beside it.
Hand(d) ==
  /\ d.pc \in {"intended", "called"} => wal[d.at].intent
  /\ d.pc = "called" => d.run \in 1 .. runs[d.at]

Covered(results, taint) == \A c \in Call : results[c].kind = "done" => taint >= results[c].tier

Known ==
  /\ EffectIsIntended
  /\ \A c \in Call : wal[c].ended => wal[c].run \in 1 .. runs[c]
  /\ Covered(row.results, row.taint)
  /\ \A p \in Proc : Hand(drive[p]) /\ Covered(drive[p].results, drive[p].taint)

\* What holds of the row while no live process has lost its claim.
RowOk ==
  /\ row.answered <= row.asked
  /\ \A c \in Call :
       /\ c > row.asked => Untouched(c)
       /\ c > row.answered => row.results[c].kind = "none"
       /\ Honest(row.results[c], c)
       /\ wal[c].ended => row.taint >= wal[c].tier
       /\ c \notin Rerunnable => runs[c] <= 1

\* And of the one process that drives: the row is its own, what it has read of the
\* calls that are ahead of it is still so, and it carries what the row has, and more.
Owns(p) == row.status = "running" /\ row.holder = p /\ ~row.orphan

Ahead(d, c) == c > d.at \/ (c = d.at /\ d.pc \notin {"intended", "called"})

Knows(d) ==
  /\ d.pc \in {"claimed", "reading"} => d.repair
  /\ d.pc = "reading" => \A c \in Call : Ahead(d, c) => (c \in d.recorded <=> wal[c].ended)
  /\ d.pc \in {"batch", "intended", "called"} /\ d.repair =>
       \A c \in Call : Ahead(d, c) =>
         /\ c \in d.recorded <=> wal[c].ended
         /\ c \in d.open <=> wal[c].intent /\ ~wal[c].ended
  /\ ~d.repair => \A c \in Call : Ahead(d, c) => Untouched(c)
  /\ d.pc = "round" => ~d.repair /\ d.at > d.asked

AtWork(d) ==
  /\ d.pc = "intended" => /\ ~wal[d.at].ended
                          /\ d.at \notin Rerunnable => runs[d.at] = 0
  /\ d.pc = "called" => /\ ~wal[d.at].ended
                        /\ d.at \notin Rerunnable => runs[d.at] = 1

Carries(d) ==
  /\ row.asked <= d.asked /\ row.answered <= d.answered
  /\ d.answered < d.at /\ d.answered <= d.asked /\ d.at <= d.asked + 1
  /\ ~d.latched => row.asked = d.asked
  /\ row.taint <= d.taint
  /\ \A c \in Call : (c >= d.at => d.results[c].kind = "none") /\ Honest(d.results[c], c)

Sole(p) == Owns(p) /\ Knows(drive[p]) /\ AtWork(drive[p]) /\ Carries(drive[p])

Solo ==
  ~faults.stolen => RowOk /\ \A p \in Proc : drive[p].pc # "idle" => Sole(p)

Inv == Typed /\ Known /\ Solo

\* While no claim was taken from a live process, a step of the driver that leaves
\* the row and what it holds of it in order leaves everything in order.
LEMMA DriverStep ==
  ASSUME Inv, NEW p \in Proc, drive[p].pc # "idle", NEW e,
         drive' = [drive EXCEPT ![p] = e], faults'.stolen = faults.stolen,
         ~faults.stolen => /\ RowOk'
                           /\ e.pc # "idle" =>
                                Owns(p)' /\ Knows(e)' /\ AtWork(e)' /\ Carries(e)'
  PROVE  Solo'
<1> SUFFICES ASSUME ~faults.stolen PROVE RowOk' /\ \A q \in Proc : drive'[q].pc # "idle" => Sole(q)'
  BY DEF Solo
<1>1. drive \in [Proc -> Drive]
  BY DEF Inv, Typed, TypeOK
<1>2. drive'[p] = e
  BY <1>1
<1>3. ASSUME NEW q \in Proc, q # p PROVE drive'[q].pc = "idle"
  <2>1. drive[q].pc = "idle"
    BY <1>3 DEF Inv, Solo, Sole, Owns
  <2> QED
    BY <1>1, <1>3, <2>1
<1>4. e.pc # "idle" => Sole(p)'
  BY <1>2 DEF Sole
<1> QED
  BY <1>2, <1>3, <1>4

\* A step of p that writes no more than its own drive.
LEMMA OwnStep ==
  ASSUME Inv, NEW p \in Proc, NEW e \in Drive, drive' = [drive EXCEPT ![p] = e],
         UNCHANGED <<row, wal, runs>>, faults' \in [crashes : Nat, expired : Nat, stolen : BOOLEAN],
         InBounds(e), Hand(e), Covered(e.results, e.taint)
  PROVE  Typed' /\ Known'
<1>1. drive \in [Proc -> Drive]
  BY DEF Inv, Typed, TypeOK
<1>2. drive' \in [Proc -> Drive] /\ drive'[p] = e /\ \A q \in Proc \ {p} : drive'[q] = drive[q]
  BY <1>1
<1>3. Typed'
  BY <1>2 DEF Inv, Typed, TypeOK, InBounds
<1>4. Known'
  <2>1. EffectIsIntended' /\ (\A c \in Call : wal[c].ended => wal[c].run \in 1 .. runs[c])'
        /\ Covered(row.results, row.taint)'
    BY DEF Inv, Known, EffectIsIntended, Covered
  <2>2. \A q \in Proc : Hand(drive[q])' /\ Covered(drive[q].results, drive[q].taint)'
    BY <1>2 DEF Inv, Known, Hand, Covered
  <2> QED
    BY <2>1, <2>2 DEF Known
<1> QED
  BY <1>3, <1>4

----------------------------------------------------------------------------
(* Each kind of step preserves it.                                         *)

\* The driver, while its claim was not taken from it.
LEMMA Driving ==
  ASSUME Inv, NEW p \in Proc, drive[p].pc # "idle", ~faults.stolen
  PROVE  RowOk /\ Owns(p) /\ Knows(drive[p]) /\ AtWork(drive[p]) /\ Carries(drive[p])
BY DEF Inv, Solo, Sole

LEMMA NoRun ==
  ASSUME Inv, NEW p \in Proc, ~faults.stolen, Runs(p)
  PROVE  /\ ~wal[drive[p].at].ended
         /\ drive[p].at \notin Rerunnable => Untouched(drive[p].at)
<1> DEFINE d == drive[p]
<1>1. d.at \in Call /\ d.pc = "batch"
  BY AtHand DEF Runs, Pending, Inv
<1>2. Knows(d)
  BY <1>1, Driving
<1>3. Ahead(d, d.at)
  BY <1>1 DEF Ahead
<1>4. Known
  BY DEF Inv
<1>5. CASE d.repair
  <2>1. (d.at \in d.recorded <=> wal[d.at].ended) /\ (d.at \in d.open <=> wal[d.at].intent /\ ~wal[d.at].ended)
    BY <1>1, <1>2, <1>3, <1>5 DEF Knows
  <2>2. d.at \notin d.recorded
    BY <1>5 DEF Runs, Recorded
  <2>3. d.at \notin Rerunnable => ~wal[d.at].intent
    BY <1>5, <2>1, <2>2 DEF Runs, Uncertain
  <2>4. runs[d.at] \in Nat
    BY <1>1 DEF Inv, Typed, TypeOK
  <2> QED
    BY <1>1, <1>4, <2>1, <2>2, <2>3, <2>4 DEF Untouched, Known, EffectIsIntended
<1>6. CASE ~d.repair
  BY <1>1, <1>2, <1>3, <1>6 DEF Knows, Untouched
<1> QED
  BY <1>5, <1>6

\* What a call may be answered with is honest.
LEMMA HonestAnswer ==
  ASSUME Inv, NEW p \in Proc, ~faults.stolen, NEW result, MayAnswer(p, result),
         Pending(p) \/ drive[p].pc \in {"intended", "called"}
  PROVE  Honest(result, drive[p].at)
<1> DEFINE d == drive[p]
           w == wal[d.at]
<1>1. d.at \in Call /\ d.pc # "idle"
  BY AtHand DEF Pending, Inv
<1>2. Knows(d) /\ AtWork(d) /\ Hand(d) /\ Known
  BY <1>1, Driving DEF Inv, Known
<1>3. w \in Record /\ runs[d.at] \in Nat
  BY <1>1 DEF Inv, Typed, TypeOK
<1>4. /\ \A t, n : Done(t, n).kind = "done" /\ Done(t, n).run = n
      /\ Refused.kind = "refused" /\ Unknown.kind = "unknown"
  BY DEF Done, Refused, Unknown, NoResult
<1>5. CASE Pending(p) /\ Recorded(d) /\ result = Done(w.tier, w.run)
  <2>1. w.ended
    BY <1>1, <1>2, <1>5 DEF Recorded, Pending, Knows, Ahead
  <2> QED
    BY <1>1, <1>2, <1>4, <1>5, <2>1 DEF Honest, Known
<1>6. CASE Pending(p) /\ Uncertain(d) /\ result = Unknown
  <2>1. w.intent
    BY <1>1, <1>2, <1>6 DEF Uncertain, Pending, Knows, Ahead
  <2> QED
    BY <1>4, <1>6, <2>1 DEF Honest
<1>7. CASE Runs(p) /\ result = Refused
  BY <1>4, <1>7, NoRun DEF Honest, Untouched
<1>8. CASE d.pc = "intended" /\ w.ended /\ result = Done(w.tier, w.run)
  BY <1>2, <1>8 DEF AtWork
<1>9. CASE d.pc = "intended" /\ result = Refused
  BY <1>2, <1>4, <1>9 DEF AtWork, Honest
<1>10. CASE d.pc = "called" /\ \E tier \in Tier : result = Done(tier, d.run)
  BY <1>2, <1>4, <1>10 DEF AtWork, Hand, Honest
<1> QED
  BY <1>5, <1>6, <1>7, <1>8, <1>9, <1>10 DEF MayAnswer

LEMMA AnswersStep ==
  ASSUME Inv, NEW p \in Proc, Answers(p)
  PROVE  Inv'
<1> DEFINE d == drive[p]
<1>1. /\ UNCHANGED <<row, wal, runs, faults>>
      /\ Pending(p) \/ d.pc \in {"intended", "called"}
  BY AnswersFields DEF Inv
<1>2. PICK result \in Result, e \in Drive :
        /\ drive' = [drive EXCEPT ![p] = e] /\ MayAnswer(p, result) /\ AnswerOf(p, result, e)
  BY AnswersFields DEF Inv
<1>3. d \in Drive /\ d.at \in Call /\ d.at <= d.asked /\ d.asked <= MaxCall
  BY <1>1, AtHand DEF Inv, Typed, TypeOK, InBounds, Pending
<1>4. d.at \in Nat /\ d.asked \in Nat /\ d.answered \in Nat /\ d.taint \in Nat /\ e.taint \in Nat
      /\ d.results \in [Call -> Result]
  BY <1>3, TiersAreNaturals DEF Drive, Tier
<1> USE <1>2 DEF AnswerOf
<1>5. \A c \in Call : e.results[c] = IF c = d.at THEN result ELSE d.results[c]
  BY <1>3, <1>4
<1>6. InBounds(e) /\ Hand(e)
  BY <1>3, <1>4 DEF InBounds, Hand
<1>7. Covered(e.results, e.taint)
  <2> SUFFICES ASSUME NEW c \in Call, e.results[c].kind = "done"
               PROVE  e.taint >= e.results[c].tier
    BY DEF Covered
  <2>1. CASE c = d.at
    BY <1>5, <2>1
  <2>2. CASE c # d.at
    <3>1. d.taint >= d.results[c].tier
      BY <1>5, <2>2 DEF Inv, Known, Covered
    <3>2. d.results[c].tier \in Nat
      BY <1>4, TiersAreNaturals DEF Result, Tier
    <3> QED
      BY <1>4, <1>5, <2>2, <3>1, <3>2
  <2> QED
    BY <2>1, <2>2
<1>8. Typed' /\ Known'
  BY <1>1, <1>6, <1>7, OwnStep DEF Inv, Typed, TypeOK
<1>9. Solo'
  <2> SUFFICES ASSUME ~faults.stolen
               PROVE  RowOk' /\ Owns(p)' /\ Knows(e)' /\ AtWork(e)' /\ Carries(e)'
    BY <1>1, DriverStep DEF Pending
  <2>1. RowOk /\ Owns(p) /\ Knows(d) /\ Carries(d) /\ d.pc # "idle"
    BY <1>1, Driving DEF Pending
  <2>2. RowOk' /\ Owns(p)'
    BY <1>1, <2>1 DEF RowOk, Owns, Untouched, Honest
  <2>3. \A c \in Call : Ahead(e, c) => Ahead(d, c)
    BY <1>3, <1>4 DEF Ahead, Call
  <2>4. Knows(e)'
    BY <1>1, <2>1, <2>3 DEF Knows, Untouched, Pending
  <2>5. AtWork(e)'
    BY DEF AtWork
  <2>6. \A c \in Call : Honest(e.results[c], c)'
    BY <1>1, <1>5, <2>1, HonestAnswer DEF Carries, Honest
  <2>7. \A c \in Call : c >= e.at => e.results[c].kind = "none"
    BY <1>3, <1>4, <1>5, <2>1 DEF Carries, Call
  <2>8. row.asked \in Nat /\ row.answered \in Nat /\ row.taint \in Nat
    BY TiersAreNaturals DEF Inv, Typed, TypeOK, Row, Tier
  <2>9. d.latched \in BOOLEAN /\ e.latched \in BOOLEAN
    BY <1>3 DEF Drive
  <2>10. ~e.latched => row.asked = e.asked
    BY <2>1, <2>9 DEF Carries
  <2>11. row.taint <= e.taint
    BY <1>4, <2>1, <2>8 DEF Carries
  <2> QED
    BY <1>1, <1>3, <1>4, <2>1, <2>2, <2>4, <2>5, <2>6, <2>7, <2>8, <2>10, <2>11 DEF Carries
<1> QED
  BY <1>8, <1>9 DEF Inv

LEMMA ReadsStep ==
  ASSUME Inv, NEW p \in Proc, ReadOutcomes(p) \/ ReadOpen(p)
  PROVE  Inv'
<1> DEFINE d == drive[p]
<1>1. d \in Drive /\ HasOutcome \in SUBSET Call /\ IsOpen \in SUBSET Call
  BY DEF Inv, Typed, TypeOK, HasOutcome, IsOpen
<1>2. PICK e : e = IF d.pc = "claimed" THEN [d EXCEPT !.pc = "reading", !.recorded = HasOutcome]
                                       ELSE [d EXCEPT !.pc = "batch", !.open = IsOpen]
  OBVIOUS
<1>3. /\ drive' = [drive EXCEPT ![p] = e]
      /\ UNCHANGED <<row, wal, runs, faults>>
      /\ d.pc \in {"claimed", "reading"}
  BY <1>2 DEF ReadOutcomes, ReadOpen, SetDrive
<1>4. /\ e \in Drive /\ e.at = d.at /\ e.asked = d.asked /\ e.answered = d.answered
      /\ e.results = d.results /\ e.taint = d.taint /\ e.repair = d.repair
      /\ e.latched = d.latched
      /\ d.pc = "claimed" => e.pc = "reading" /\ e.recorded = HasOutcome
      /\ d.pc = "reading" => e.pc = "batch" /\ e.recorded = d.recorded /\ e.open = IsOpen
  BY <1>1, <1>2, <1>3 DEF Drive, Pc
<1> HIDE <1>2
<1>5. InBounds(e) /\ Hand(e) /\ Covered(e.results, e.taint)
  BY <1>3, <1>4 DEF Inv, Typed, Known, InBounds, Hand
<1>6. Typed' /\ Known'
  BY <1>3, <1>4, <1>5, OwnStep DEF Inv, Typed, TypeOK
<1>7. Solo'
  <2> SUFFICES ASSUME ~faults.stolen
               PROVE  RowOk' /\ Owns(p)' /\ Knows(e)' /\ AtWork(e)' /\ Carries(e)'
    BY <1>3, DriverStep
  <2>1. RowOk /\ Owns(p) /\ Knows(d) /\ Carries(d)
    BY <1>3, Driving
  <2>2. RowOk' /\ Owns(p)'
    BY <1>3, <2>1 DEF RowOk, Owns, Untouched, Honest
  <2>3. Knows(e)'
    <3>1. e.repair
      BY <1>3, <1>4, <2>1 DEF Knows
    <3>2. \A c \in Call : Ahead(e, c) => Ahead(d, c)
      BY <1>3, <1>4 DEF Ahead
    <3> QED
      BY <1>3, <1>4, <2>1, <3>1, <3>2 DEF Knows, HasOutcome, IsOpen
  <2>4. AtWork(e)'
    BY <1>3, <1>4 DEF AtWork
  <2>5. Carries(e)'
    BY <1>3, <1>4, <2>1 DEF Carries, Honest
  <2> QED
    BY <2>2, <2>3, <2>4, <2>5
<1> QED
  BY <1>6, <1>7 DEF Inv

\* The intent is written before the handler starts.
LEMMA IntendStep ==
  ASSUME Inv, NEW p \in Proc, Intend(p)
  PROVE  Inv'
<1> DEFINE d == drive[p]
<1>1. /\ Runs(p) /\ ~d.latched /\ d.pc = "batch" /\ d.at <= d.asked
      /\ wal' = [wal EXCEPT ![d.at].intent = TRUE]
      /\ UNCHANGED <<row, runs, faults>>
  BY DEF Intend, Runs, Pending
<1>2. d \in Drive /\ d.at \in Call /\ d.at \in Nat /\ d.asked \in Nat
  BY <1>1, AtHand DEF Inv, Typed, TypeOK, Runs, Drive
<1>3. PICK e : e = [d EXCEPT !.pc = "intended"]
  OBVIOUS
<1>4. drive' = [drive EXCEPT ![p] = e]
  BY <1>3 DEF Intend, SetDrive
<1>5. /\ e \in Drive /\ e.pc = "intended" /\ e.at = d.at /\ e.asked = d.asked
      /\ e.answered = d.answered /\ e.results = d.results /\ e.taint = d.taint
      /\ e.repair = d.repair /\ e.latched = d.latched /\ e.recorded = d.recorded /\ e.open = d.open
  BY <1>2, <1>3 DEF Drive, Pc
<1> HIDE <1>3
<1>6. /\ wal' \in [Call -> Record] /\ wal'[d.at].intent
      /\ \A c \in Call : /\ wal'[c].ended = wal[c].ended /\ wal'[c].tier = wal[c].tier
                         /\ wal'[c].run = wal[c].run
                         /\ wal[c].intent => wal'[c].intent
                         /\ c # d.at => wal'[c] = wal[c]
  <2>1. wal \in [Call -> Record]
    BY DEF Inv, Typed, TypeOK
  <2> QED
    BY <1>1, <1>2, <2>1 DEF Record
<1>7. drive \in [Proc -> Drive] /\ \A q \in Proc \ {p} : drive'[q] = drive[q]
  BY <1>4 DEF Inv, Typed, TypeOK
<1>8. Typed'
  BY <1>1, <1>2, <1>4, <1>5, <1>6, <1>7 DEF Inv, Typed, TypeOK, InBounds
<1>9. Known'
  <2>1. EffectIsIntended' /\ (\A c \in Call : wal[c].ended => wal[c].run \in 1 .. runs[c])'
        /\ Covered(row.results, row.taint)'
    BY <1>1, <1>6 DEF Inv, Known, EffectIsIntended, Covered
  <2>2. ASSUME NEW q \in Proc \ {p}
        PROVE  Hand(drive[q])' /\ Covered(drive[q].results, drive[q].taint)'
    <3>1. drive[q].pc \in {"intended", "called"} => drive[q].at \in Call
      BY AtHand DEF Inv
    <3> QED
      BY <1>1, <1>6, <1>7, <2>2, <3>1 DEF Inv, Known, Hand, Covered
  <2>3. drive'[p] = e
    BY <1>4, <1>7
  <2>4. Hand(e)' /\ Covered(e.results, e.taint)'
    BY <1>5, <1>6 DEF Inv, Known, Hand, Covered
  <2> QED
    BY <2>1, <2>2, <2>3, <2>4 DEF Known
<1>10. Solo'
  <2> SUFFICES ASSUME ~faults.stolen
               PROVE  RowOk' /\ Owns(p)' /\ Knows(e)' /\ AtWork(e)' /\ Carries(e)'
    BY <1>1, <1>4, DriverStep
  <2>1. RowOk /\ Owns(p) /\ Knows(d) /\ Carries(d)
    BY <1>1, Driving
  <2>2. ~wal[d.at].ended /\ (d.at \notin Rerunnable => Untouched(d.at))
    BY <1>1, NoRun
  <2>3. row.asked \in Nat /\ d.at <= row.asked
    BY <1>1, <2>1 DEF Carries, Inv, Typed, TypeOK, Row
  <2>4. \A c \in Call : \A r : Honest(r, c) => Honest(r, c)'
    BY <1>1, <1>6 DEF Honest
  <2>5. RowOk'
    <3>1. \A c \in Call : c > row.asked => c # d.at
      BY <1>2, <2>3 DEF Call
    <3> QED
      BY <1>1, <1>6, <2>1, <2>4, <3>1 DEF RowOk, Untouched
  <2>6. Owns(p)'
    BY <1>1, <2>1 DEF Owns
  <2>7. Knows(e)'
    <3>1. \A c \in Call : Ahead(e, c) => Ahead(d, c) /\ c # d.at
      BY <1>2, <1>5 DEF Ahead, Call
    <3> QED
      BY <1>1, <1>5, <1>6, <2>1, <3>1 DEF Knows, Untouched
  <2>8. AtWork(e)'
    BY <1>1, <1>2, <1>5, <1>6, <2>2 DEF AtWork, Untouched
  <2>9. Carries(e)'
    BY <1>1, <1>5, <2>1, <2>4 DEF Carries
  <2> QED
    BY <2>5, <2>6, <2>7, <2>8, <2>9
<1> QED
  BY <1>8, <1>9, <1>10 DEF Inv

\* A call at hand is within what the row shows was asked, and beyond what it shows
\* was answered.
LEMMA AtHandIsOpen ==
  ASSUME Inv, NEW p \in Proc, ~faults.stolen, drive[p].pc \in {"intended", "called"}
  PROVE  /\ drive[p].at <= row.asked
         /\ row.results[drive[p].at].kind = "none"
         /\ drive[p].results[drive[p].at].kind = "none"
<1> DEFINE d == drive[p]
<1>1. d.at \in Call /\ d \in Drive /\ d.at \in Nat /\ d.answered \in Nat
  BY AtHand DEF Inv, Drive
<1>2. RowOk /\ Carries(d) /\ wal[d.at].intent
  BY Driving DEF Inv, Known, Hand
<1>3. row.asked \in Nat /\ row.answered \in Nat
  BY DEF Inv, Typed, TypeOK, Row
<1>4. d.at <= row.asked
  BY <1>1, <1>2, <1>3 DEF RowOk, Untouched
<1> QED
  BY <1>1, <1>2, <1>3, <1>4 DEF RowOk, Carries

LEMMA StartStep ==
  ASSUME Inv, NEW p \in Proc, Handle(p) \/ Retry(p)
  PROVE  Inv'
<1> DEFINE d == drive[p]
<1>1. /\ d.pc \in {"intended", "called"}
      /\ d.pc = "called" => d.at \in Rerunnable
      /\ runs' = [runs EXCEPT ![d.at] = @ + 1]
      /\ UNCHANGED <<row, wal, faults>>
  BY DEF Handle, Retry, StartHandler
<1>2. d \in Drive /\ d.at \in Call /\ d.at \in Nat /\ d.asked \in Nat
  BY <1>1, AtHand DEF Inv, Drive
<1>5. runs \in [Call -> Nat]
  BY DEF Inv, Typed, TypeOK
<1>a. PICK n \in Nat : n = runs[d.at] + 1
  BY <1>2, <1>5
<1>3. PICK e : e = [d EXCEPT !.pc = "called", !.run = n]
  OBVIOUS
<1>4. drive' = [drive EXCEPT ![p] = e]
  BY <1>3, <1>a DEF Handle, Retry, StartHandler, SetDrive
<1>b. /\ e \in Drive /\ e.pc = "called" /\ e.run = n
      /\ e.at = d.at /\ e.asked = d.asked
      /\ e.answered = d.answered /\ e.results = d.results /\ e.taint = d.taint
      /\ e.repair = d.repair /\ e.latched = d.latched /\ e.recorded = d.recorded /\ e.open = d.open
  BY <1>2, <1>3 DEF Drive, Pc
<1>6. /\ e \in Drive /\ e.pc = "called" /\ e.run = runs[d.at] + 1
      /\ e.at = d.at /\ e.asked = d.asked
      /\ e.answered = d.answered /\ e.results = d.results /\ e.taint = d.taint
      /\ e.repair = d.repair /\ e.latched = d.latched /\ e.recorded = d.recorded /\ e.open = d.open
  BY <1>a, <1>b
<1> HIDE <1>3
<1>7. /\ runs' \in [Call -> Nat] /\ runs'[d.at] = runs[d.at] + 1
      /\ \A c \in Call : runs'[c] >= runs[c] /\ (c # d.at => runs'[c] = runs[c])
  BY <1>1, <1>2, <1>5
<1>8. wal[d.at].intent
  BY <1>1 DEF Inv, Known, Hand
<1>9. drive \in [Proc -> Drive] /\ \A q \in Proc \ {p} : drive'[q] = drive[q]
  BY <1>4 DEF Inv, Typed, TypeOK
<1>10. Typed'
  BY <1>1, <1>2, <1>4, <1>6, <1>7, <1>9 DEF Inv, Typed, TypeOK, InBounds
<1>11. \A c \in Call, m \in Nat : m \in 1 .. runs[c] => m \in 1 .. runs'[c]
  BY <1>5, <1>7
<1>12. Known'
  <2>1. EffectIsIntended' /\ Covered(row.results, row.taint)'
    BY <1>1, <1>5, <1>7, <1>8 DEF Inv, Known, EffectIsIntended, Covered
  <2>2. (\A c \in Call : wal[c].ended => wal[c].run \in 1 .. runs[c])'
    <3>1. \A c \in Call : wal[c].run \in Nat
      BY DEF Inv, Typed, TypeOK, Record
    <3> QED
      BY <1>1, <1>11, <3>1 DEF Inv, Known
  <2>3. ASSUME NEW q \in Proc \ {p}
        PROVE  Hand(drive[q])' /\ Covered(drive[q].results, drive[q].taint)'
    <3>1. drive[q].pc \in {"intended", "called"} => drive[q].at \in Call
      BY AtHand DEF Inv
    <3>2. drive[q].run \in Nat
      BY <1>9 DEF Drive
    <3> QED
      BY <1>1, <1>9, <1>11, <2>3, <3>1, <3>2 DEF Inv, Known, Hand, Covered
  <2>4. drive'[p] = e
    BY <1>4, <1>9
  <2>5. Hand(e)' /\ Covered(e.results, e.taint)'
    BY <1>1, <1>2, <1>5, <1>6, <1>7, <1>8 DEF Inv, Known, Hand, Covered
  <2> QED
    BY <2>1, <2>2, <2>3, <2>4, <2>5 DEF Known
<1>13. Solo'
  <2> SUFFICES ASSUME ~faults.stolen
               PROVE  RowOk' /\ Owns(p)' /\ Knows(e)' /\ AtWork(e)' /\ Carries(e)'
    BY <1>1, <1>4, DriverStep
  <2>1. RowOk /\ Owns(p) /\ Knows(d) /\ AtWork(d) /\ Carries(d)
    BY <1>1, Driving
  <2>2. /\ d.at <= row.asked /\ row.asked \in Nat
        /\ row.results[d.at].kind = "none" /\ d.results[d.at].kind = "none"
    BY <1>1, AtHandIsOpen DEF Inv, Typed, TypeOK, Row
  <2>3. \A c \in Call : \A r : (c # d.at \/ r.kind = "none") /\ Honest(r, c) => Honest(r, c)'
    BY <1>1, <1>7 DEF Honest
  <2>4. RowOk'
    <3>1. \A c \in Call : c > row.asked => c # d.at
      BY <1>2, <2>2 DEF Call
    <3>2. d.at \notin Rerunnable => runs'[d.at] <= 1
      BY <1>1, <1>7, <2>1 DEF AtWork
    <3> QED
      BY <1>1, <1>7, <2>1, <2>2, <2>3, <3>1, <3>2 DEF RowOk, Untouched
  <2>5. Owns(p)'
    BY <1>1, <2>1 DEF Owns
  <2>6. Knows(e)'
    <3>1. \A c \in Call : Ahead(e, c) => Ahead(d, c) /\ c # d.at
      BY <1>2, <1>6 DEF Ahead, Call
    <3> QED
      BY <1>1, <1>6, <1>7, <2>1, <3>1 DEF Knows, Untouched
  <2>7. AtWork(e)'
    BY <1>1, <1>2, <1>6, <1>7, <2>1 DEF AtWork
  <2>8. Carries(e)'
    BY <1>1, <1>6, <2>1, <2>2, <2>3 DEF Carries
  <2> QED
    BY <2>4, <2>5, <2>6, <2>7, <2>8
<1> QED
  BY <1>10, <1>12, <1>13 DEF Inv

\* The outcome and the taint it drags in are one transaction.
LEMMA OutcomeStep ==
  ASSUME Inv, NEW p \in Proc, NEW tier \in Tier, Outcome(p, tier)
  PROVE  Inv'
<1> DEFINE d == drive[p]
<1>c. PICK result : result = Done(tier, d.run)
  OBVIOUS
<1>1. /\ d.pc = "called"
      /\ wal' = [wal EXCEPT ![d.at] = [@ EXCEPT !.ended = TRUE, !.tier = tier, !.run = d.run]]
      /\ row' = [row EXCEPT !.taint = Raised(@, tier)]
      /\ UNCHANGED <<runs, faults>>
  BY DEF Outcome
<1>2. d \in Drive /\ d.at \in Call /\ d.at \in Nat /\ d.asked \in Nat /\ d.answered \in Nat
      /\ d.run \in Nat /\ d.taint \in Tier /\ d.results \in [Call -> Result]
  BY <1>1, AtHand DEF Inv, Drive
<1>3. /\ result \in Result /\ result.kind = "done" /\ result.tier = tier /\ result.run = d.run
      /\ Raised(d.taint, tier) \in Tier
      /\ Raised(d.taint, tier) >= d.taint /\ Raised(d.taint, tier) >= tier
  BY <1>2, <1>c, Constant DEF Done
<1>a. \A c \in Call : wal'[c].tier = tier /\ wal'[c].run = d.run => result = Done(wal'[c].tier, wal'[c].run)
  BY <1>c
<1>b. drive' = [drive EXCEPT ![p] = Answered(d, result, Raised(d.taint, tier))]
  BY <1>c DEF Outcome, SetDrive
<1> HIDE <1>c
<1>d. PICK taint \in Tier : taint = Raised(d.taint, tier)
  BY <1>3
<1>4. PICK e : e = Answered(d, result, taint)
  OBVIOUS
<1>5. drive' = [drive EXCEPT ![p] = e]
  BY <1>b, <1>d, <1>4
<1>6. AnswerOf(p, result, e) /\ e.taint = Raised(d.taint, tier)
  <2>1. taint >= d.taint /\ (result.kind = "done" => taint >= result.tier)
    BY <1>3, <1>d
  <2>2. AnswerOf(p, result, e)
    BY <1>2, <1>3, <1>4, <2>1, AnswerShape DEF Inv
  <2>3. e.taint = taint
    BY <1>2, <1>4 DEF Answered, Drive
  <2> QED
    BY <1>d, <2>2, <2>3
<1> HIDE <1>4
<1>7. /\ wal' \in [Call -> Record]
      /\ wal'[d.at].ended /\ wal'[d.at].tier = tier /\ wal'[d.at].run = d.run
      /\ \A c \in Call : wal'[c].intent = wal[c].intent /\ (c # d.at => wal'[c] = wal[c])
  <2>1. wal \in [Call -> Record]
    BY DEF Inv, Typed, TypeOK
  <2>2. [wal[d.at] EXCEPT !.ended = TRUE, !.tier = tier, !.run = d.run] \in Record
    BY <1>2, <2>1 DEF Record
  <2> QED
    BY <1>1, <1>2, <2>1, <2>2 DEF Record
<1>8. /\ row' \in Row /\ row'.taint = Raised(row.taint, tier) /\ row.taint \in Tier
      /\ row'.taint >= row.taint /\ row'.taint >= tier
      /\ row'.status = row.status /\ row'.holder = row.holder /\ row'.orphan = row.orphan
      /\ row'.asked = row.asked /\ row'.answered = row.answered /\ row'.results = row.results
  <2>1. row \in Row /\ row.taint \in Tier
    BY DEF Inv, Typed, TypeOK, Row
  <2> QED
    BY <1>1, <2>1, Constant DEF Row
<1>9. /\ drive \in [Proc -> Drive] /\ drive'[p] = e
      /\ \A q \in Proc \ {p} : drive'[q] = drive[q]
  BY <1>5 DEF Inv, Typed, TypeOK
<1>10. \A c \in Call : e.results[c] = IF c = d.at THEN result ELSE d.results[c]
  BY <1>2, <1>6 DEF AnswerOf
<1>11. Tier \subseteq Nat
  BY TiersAreNaturals DEF Tier
<1>12. Typed'
  <2>1. InBounds(e)
    BY <1>2, <1>6 DEF AnswerOf, InBounds, Inv, Typed
  <2> QED
    BY <1>1, <1>5, <1>6, <1>7, <1>8, <1>9, <2>1 DEF Inv, Typed, TypeOK, InBounds, AnswerOf
<1>13. \A results \in [Call -> Result], t, u \in Tier :
         Covered(results, t) /\ u >= t => Covered(results, u)
  <2> SUFFICES ASSUME NEW results \in [Call -> Result], NEW t \in Tier, NEW u \in Tier,
                      Covered(results, t), u >= t,
                      NEW c \in Call, results[c].kind = "done"
               PROVE  u >= results[c].tier
    BY DEF Covered
  <2>1. results[c].tier \in Nat /\ t \in Nat /\ u \in Nat
    BY <1>11 DEF Result
  <2>2. t >= results[c].tier
    BY DEF Covered
  <2> QED
    BY <2>1, <2>2
<1>14. d.run \in 1 .. runs[d.at] /\ wal[d.at].intent
  BY <1>1 DEF Inv, Known, Hand
<1>15. Known'
  <2>1. EffectIsIntended' /\ (\A c \in Call : wal[c].ended => wal[c].run \in 1 .. runs[c])'
    BY <1>1, <1>7, <1>14 DEF Inv, Known, EffectIsIntended
  <2>2. Covered(row.results, row.taint)'
    BY <1>8, <1>13 DEF Inv, Known, Row
  <2>3. ASSUME NEW q \in Proc \ {p}
        PROVE  Hand(drive[q])' /\ Covered(drive[q].results, drive[q].taint)'
    <3>1. drive[q].pc \in {"intended", "called"} => drive[q].at \in Call
      BY AtHand DEF Inv
    <3> QED
      BY <1>1, <1>7, <1>9, <2>3, <3>1 DEF Inv, Known, Hand, Covered
  <2>4. Hand(e)'
    BY <1>6 DEF AnswerOf, Hand
  <2>5. Covered(e.results, e.taint)
    <3>1. Covered(d.results, e.taint)
      BY <1>2, <1>3, <1>6, <1>13 DEF Inv, Known
    <3> QED
      BY <1>3, <1>6, <1>10, <3>1 DEF Covered
  <2>6. Covered(e.results, e.taint)'
    BY <2>5 DEF Covered
  <2> QED
    BY <1>9, <2>1, <2>2, <2>3, <2>4, <2>6 DEF Known
<1>16. Solo'
  <2> SUFFICES ASSUME ~faults.stolen
               PROVE  RowOk' /\ Owns(p)' /\ Knows(e)' /\ AtWork(e)' /\ Carries(e)'
    BY <1>1, <1>5, DriverStep
  <2>1. RowOk /\ Owns(p) /\ Knows(d) /\ AtWork(d) /\ Carries(d)
    BY <1>1, Driving
  <2>2. /\ d.at <= row.asked /\ row.asked \in Nat
        /\ row.results[d.at].kind = "none" /\ d.results[d.at].kind = "none"
    BY <1>1, AtHandIsOpen DEF Inv, Typed, TypeOK, Row
  <2>3. \A c \in Call : \A r : (c # d.at \/ r.kind = "none") /\ Honest(r, c) => Honest(r, c)'
    BY <1>1, <1>7 DEF Honest
  <2>4. RowOk'
    <3>1. \A c \in Call : c > row.asked => c # d.at
      BY <1>2, <2>2 DEF Call
    <3>2. \A c \in Call : wal'[c].ended => row'.taint >= wal'[c].tier
      <4> SUFFICES ASSUME NEW c \in Call, wal'[c].ended PROVE row'.taint >= wal'[c].tier
        OBVIOUS
      <4>1. CASE c = d.at
        BY <1>7, <1>8, <4>1
      <4>2. CASE c # d.at
        <5>1. row.taint >= wal[c].tier
          BY <1>7, <2>1, <4>2 DEF RowOk
        <5>2. wal[c].tier \in Nat /\ row.taint \in Nat /\ row'.taint \in Nat
          BY <1>8, <1>11 DEF Inv, Typed, TypeOK, Record, Row
        <5> QED
          BY <1>7, <1>8, <4>2, <5>1, <5>2
      <4> QED
        BY <4>1, <4>2
    <3>3. \A c \in Call : c > row.asked => Untouched(c)'
      BY <1>1, <1>7, <2>1, <3>1 DEF RowOk, Untouched
    <3>4. \A c \in Call : Honest(row.results[c], c)'
      BY <1>8, <2>1, <2>2, <2>3 DEF RowOk
    <3> QED
      BY <1>1, <1>8, <2>1, <3>2, <3>3, <3>4 DEF RowOk
  <2>5. Owns(p)'
    BY <1>8, <2>1 DEF Owns
  <2>6. Knows(e)'
    <3>1. \A c \in Call : Ahead(e, c) => Ahead(d, c) /\ c # d.at
      BY <1>1, <1>2, <1>6 DEF Ahead, Call, AnswerOf
    <3> QED
      BY <1>1, <1>6, <1>7, <2>1, <3>1 DEF Knows, Untouched, AnswerOf
  <2>7. AtWork(e)'
    BY <1>6 DEF AtWork, AnswerOf
  <2>8. \A c \in Call : Honest(e.results[c], c)'
    <3>1. ASSUME NEW c \in Call, c = d.at PROVE Honest(e.results[c], c)'
      <4>1. result = Done(wal'[d.at].tier, wal'[d.at].run)
        BY <1>2, <1>7, <1>a
      <4>2. result.run \in 1 .. runs'[d.at]
        BY <1>1, <1>3, <1>14
      <4>3. e.results[c] = result
        BY <1>10, <3>1
      <4> QED
        BY <1>3, <3>1, <4>1, <4>2, <4>3 DEF Honest
    <3>2. ASSUME NEW c \in Call, c # d.at PROVE Honest(e.results[c], c)'
      <4>1. Honest(d.results[c], c) /\ e.results[c] = d.results[c]
        BY <1>10, <2>1, <3>2 DEF Carries
      <4> QED
        BY <2>3, <3>2, <4>1
    <3> QED
      BY <3>1, <3>2
  <2>9. \A c \in Call : c >= e.at => e.results[c].kind = "none"
    BY <1>2, <1>6, <1>10, <2>1 DEF Carries, Call, AnswerOf
  <2>10. row'.taint <= e.taint
    <3>1. row.taint <= d.taint
      BY <2>1 DEF Carries
    <3> QED
      BY <1>2, <1>6, <1>8, <1>11, <3>1 DEF Raised
  <2>11. /\ e.asked = d.asked /\ e.answered = d.answered /\ e.at = d.at + 1
         /\ e.latched \/ e.latched = d.latched
    BY <1>6 DEF AnswerOf
  <2>12. d.at <= d.asked /\ d.latched \in BOOLEAN /\ e.latched \in BOOLEAN
    BY <1>1, <1>2, <1>6 DEF Inv, Typed, InBounds, Drive, AnswerOf
  <2>13. ~e.latched => row.asked = d.asked
    BY <2>1, <2>11, <2>12 DEF Carries
  <2>14. row.asked <= d.asked /\ row.answered <= d.answered /\ d.answered < d.at /\ d.answered <= d.asked
    BY <2>1 DEF Carries
  <2>15. Carries(e)'
    BY <1>2, <1>8, <2>8, <2>9, <2>10, <2>11, <2>12, <2>13, <2>14 DEF Carries
  <2> QED
    BY <2>4, <2>5, <2>6, <2>7, <2>15
<1> QED
  BY <1>12, <1>15, <1>16 DEF Inv

\* A row that says the same of the calls is in order if it was.
LEMMA RowKept ==
  ASSUME RowOk, UNCHANGED <<wal, runs>>,
         row'.asked = row.asked, row'.answered = row.answered,
         row'.results = row.results, row'.taint = row.taint
  PROVE  RowOk'
BY DEF RowOk, Untouched, Honest

\* What the driver carries is in order in the row, once it is saved there.
LEMMA RowSaved ==
  ASSUME Inv, NEW d \in Drive, row' \in Row, UNCHANGED <<wal, runs>>,
         row'.asked = d.asked, row'.answered = d.answered, row'.taint = d.taint,
         \A c \in Call : row'.results[c] = IF c <= d.answered THEN d.results[c] ELSE NoResult
  PROVE  /\ Covered(d.results, d.taint) => Covered(row.results, row.taint)'
         /\ /\ RowOk /\ row.asked <= d.asked /\ d.answered <= d.asked /\ row.taint <= d.taint
            /\ \A c \in Call : Honest(d.results[c], c)
            => RowOk'
<1>1. \A c \in Call : ~(c <= d.answered) => row'.results[c].kind = "none"
  BY DEF NoResult
<1>2. Covered(d.results, d.taint) => Covered(row.results, row.taint)'
  BY <1>1 DEF Covered
<1>3. ASSUME RowOk, row.asked <= d.asked, d.answered <= d.asked, row.taint <= d.taint,
             \A c \in Call : Honest(d.results[c], c)
      PROVE  RowOk'
  <2>1. /\ row.asked \in Nat /\ d.asked \in Nat /\ d.answered \in Nat
        /\ row.taint \in Nat /\ d.taint \in Nat
        /\ \A c \in Call : c \in Nat /\ wal[c].tier \in Nat
    <3>1. row \in Row /\ wal \in [Call -> Record]
      BY DEF Inv, Typed, TypeOK
    <3>2. \A t \in Tier : t \in Nat
      BY TiersAreNaturals DEF Tier
    <3>3. /\ row.asked \in Nat /\ row.taint \in Tier /\ d.taint \in Tier
          /\ d.asked \in Nat /\ d.answered \in Nat
      BY <3>1 DEF Row, Drive
    <3>4. \A c \in Call : c \in Nat /\ wal[c].tier \in Tier
      BY <3>1 DEF Record, Call
    <3> QED
      BY <3>2, <3>3, <3>4
  <2>2. \A c \in Call : c > d.asked => Untouched(c)'
    <3>1. \A c \in Call : c > d.asked => c > row.asked
      BY <1>3, <2>1
    <3> QED
      BY <1>3, <3>1 DEF RowOk, Untouched
  <2>3. \A c \in Call : c > d.answered => row'.results[c].kind = "none"
    BY <1>1, <2>1
  <2>4. \A c \in Call : Honest(row.results[c], c)'
    <3>1. \A c \in Call : Honest(d.results[c], c)'
      BY <1>3 DEF Honest
    <3>2. \A c \in Call : ~(c <= d.answered) => Honest(row.results[c], c)'
      BY <1>1 DEF Honest
    <3> QED
      BY <3>1, <3>2
  <2>5. \A c \in Call : wal[c].ended => d.taint >= wal[c].tier
    BY <1>3, <2>1 DEF RowOk
  <2> QED
    BY <1>3, <2>2, <2>3, <2>4, <2>5 DEF RowOk
<1> QED
  BY <1>2, <1>3

\* A checkpoint between two batches: it lands, the claim is gone, or it fails.
LEMMA SaveStep ==
  ASSUME Inv, NEW p \in Proc, NEW e \in Drive, Save(p, e), UNCHANGED <<wal, runs, faults>>,
         {drive[p].pc, e.pc} \subseteq {"batch", "round"}, InBounds(e),
         e.results = drive[p].results, e.taint = drive[p].taint, e.at = drive[p].at,
         ~faults.stolen => /\ drive[p].at > drive[p].asked /\ ~e.repair
                           /\ drive[p].asked <= e.asked /\ drive[p].answered <= e.answered
                           /\ e.answered <= e.asked
                           /\ e.answered < e.at /\ e.at <= e.asked + 1
                           /\ e.pc = "round" => e.at > e.asked
  PROVE  Inv'
<1> DEFINE d == drive[p]
<1>1. /\ d \in Drive /\ Idle \in Drive /\ row \in Row
      /\ drive \in [Proc -> Drive]
      /\ Hand(e) /\ Hand(Idle) /\ InBounds(Idle)
      /\ Covered(e.results, e.taint) /\ Covered(Idle.results, Idle.taint)
  <2>1. Hand(Idle) /\ Covered(Idle.results, Idle.taint)
    BY DEF Idle, Hand, Covered, NoResults, NoResult
  <2>2. Hand(e) /\ Covered(e.results, e.taint)
    BY DEF Hand, Inv, Known
  <2> QED
    BY <2>1, <2>2, Constant DEF Inv, Typed, TypeOK
<1>2. Idle.pc = "idle" /\ d.pc # "idle"
  BY DEF Idle
<1>3. ASSUME ~faults.stolen
      PROVE  /\ RowOk /\ Owns(p) /\ Carries(d)
             /\ row.asked <= e.asked /\ row.answered <= e.answered /\ row.taint <= e.taint
             /\ \A c \in Call : Honest(e.results[c], c)
             /\ \A c \in Call : c >= e.at => e.results[c].kind = "none"
             /\ \A c \in Call : Ahead(e, c) => c > row.asked
  <2>1. RowOk /\ Owns(p) /\ Carries(d)
    BY <1>2, <1>3, Driving
  <2>2. /\ row.asked \in Nat /\ row.answered \in Nat /\ d.asked \in Nat /\ d.answered \in Nat
        /\ e.asked \in Nat /\ e.answered \in Nat /\ e.at \in Nat
        /\ \A c \in Call : c \in Nat
    BY <1>1 DEF Row, Drive, Call
  <2>3. \A c \in Call : Ahead(e, c) => c >= e.at
    BY <2>2 DEF Ahead
  <2> QED
    BY <1>3, <2>1, <2>2, <2>3 DEF Carries
<1>4. CASE Fenced(p) /\ row' = Saved(e) /\ SetDrive(p, e)
  <2>1. /\ row' \in Row /\ row'.asked = e.asked /\ row'.answered = e.answered /\ row'.taint = e.taint
        /\ row'.status = row.status /\ row'.holder = row.holder /\ row'.orphan = row.orphan
        /\ \A c \in Call : row'.results[c] = IF c <= e.answered THEN e.results[c] ELSE NoResult
    BY <1>1, <1>4, SavedFields
  <2>2. drive' = [drive EXCEPT ![p] = e]
    BY <1>4 DEF SetDrive
  <2>3. drive' \in [Proc -> Drive] /\ drive'[p] = e /\ \A q \in Proc \ {p} : drive'[q] = drive[q]
    BY <1>1, <2>2
  <2>4. Typed'
    BY <2>1, <2>3 DEF Inv, Typed, TypeOK, InBounds
  <2>5. Known'
    <3>1. Covered(row.results, row.taint)'
      BY <1>1, <2>1, RowSaved
    <3>2. \A q \in Proc : Hand(drive[q])' /\ Covered(drive[q].results, drive[q].taint)'
      BY <1>1, <2>3 DEF Inv, Known, Hand, Covered
    <3> QED
      BY <3>1, <3>2 DEF Inv, Known, EffectIsIntended
  <2>6. Solo'
    <3> SUFFICES ASSUME ~faults.stolen
                 PROVE  RowOk' /\ Owns(p)' /\ Knows(e)' /\ AtWork(e)' /\ Carries(e)'
      BY <1>2, <2>2, DriverStep
    <3>1. RowOk'
      BY <1>3, <2>1, RowSaved
    <3>2. Owns(p)'
      BY <1>3, <2>1 DEF Owns
    <3>3. Knows(e)'
      BY <1>3 DEF Knows, RowOk, Untouched
    <3>4. AtWork(e)'
      BY DEF AtWork
    <3>5. Carries(e)'
      <4>1. \A c \in Call : Honest(e.results[c], c)'
        BY <1>3 DEF Honest
      <4>2. e.asked \in Nat /\ e.answered \in Nat /\ e.taint \in Nat
        BY TiersAreNaturals DEF Drive, Tier
      <4> QED
        BY <1>3, <2>1, <4>1, <4>2 DEF Carries
    <3> QED
      BY <3>1, <3>2, <3>3, <3>4, <3>5
  <2> QED
    BY <2>4, <2>5, <2>6 DEF Inv
<1>5. CASE row' = row /\ SetDrive(p, Idle)
  <2>1. drive' = [drive EXCEPT ![p] = Idle]
    BY <1>5 DEF SetDrive
  <2>2. Typed' /\ Known'
    BY <1>1, <1>5, <2>1, OwnStep DEF Inv, Typed, TypeOK
  <2>3. Solo'
    BY <1>2, <1>3, <1>5, <2>1, RowKept, DriverStep
  <2> QED
    BY <2>2, <2>3 DEF Inv
<1>6. CASE row' = row /\ SetDrive(p, [e EXCEPT !.latched = TRUE])
  <2>1. PICK f : f = [e EXCEPT !.latched = TRUE]
    OBVIOUS
  <2>2. drive' = [drive EXCEPT ![p] = f]
    BY <1>6, <2>1 DEF SetDrive
  <2>3. /\ f \in Drive /\ f.latched /\ f.pc = e.pc /\ f.at = e.at /\ f.asked = e.asked
        /\ f.answered = e.answered /\ f.results = e.results /\ f.taint = e.taint
        /\ f.repair = e.repair
    BY <2>1 DEF Drive
  <2> HIDE <2>1
  <2>4. Typed' /\ Known'
    <3>1. InBounds(f) /\ Hand(f) /\ Covered(f.results, f.taint)
      BY <1>1, <2>3 DEF InBounds, Hand, Covered
    <3> QED
      BY <1>6, <2>2, <2>3, <3>1, OwnStep DEF Inv, Typed, TypeOK
  <2>5. Solo'
    <3> SUFFICES ASSUME ~faults.stolen
                 PROVE  RowOk' /\ Owns(p)' /\ Knows(f)' /\ AtWork(f)' /\ Carries(f)'
      BY <1>2, <2>2, DriverStep
    <3>1. RowOk' /\ Owns(p)'
      BY <1>3, <1>6, RowKept DEF Owns
    <3>2. \A c \in Call : Ahead(f, c) => Ahead(e, c)
      BY <2>3 DEF Ahead
    <3>3. Knows(f)'
      BY <1>3, <2>3, <3>2 DEF Knows, RowOk, Untouched
    <3>4. AtWork(f)'
      BY <2>3 DEF AtWork
    <3>5. Carries(f)'
      <4>1. \A c \in Call : Honest(f.results[c], c)'
        BY <1>3, <2>3 DEF Honest
      <4> QED
        BY <1>3, <1>6, <2>3, <4>1 DEF Carries
    <3> QED
      BY <3>1, <3>3, <3>4, <3>5
  <2> QED
    BY <2>4, <2>5 DEF Inv
<1> QED
  BY <1>4, <1>5, <1>6 DEF Save

(* Ways a checkpoint is reached.                                           *)

LEMMA RoundsStep ==
  ASSUME Inv, NEW p \in Proc, Close(p) \/ \E n \in Call : Ask(p, n)
  PROVE  Inv'
<1> DEFINE d == drive[p]
<1>1. /\ d \in Drive /\ row \in Row /\ InBounds(d)
      /\ d.asked \in Nat /\ d.answered \in Nat /\ d.at \in Nat
      /\ UNCHANGED <<wal, runs, faults>>
  BY DEF Inv, Typed, TypeOK, Drive, Close, Ask
<1>2. ASSUME ~faults.stolen, d.pc # "idle"
      PROVE  d.answered < d.at /\ d.answered <= d.asked /\ d.at <= d.asked + 1 /\ Knows(d)
  BY <1>2, Driving DEF Carries
<1>3. CASE Close(p)
  <2>1. PICK e : e = [d EXCEPT !.pc = "round", !.answered = d.asked, !.repair = FALSE,
                               !.recorded = {}, !.open = {}]
    OBVIOUS
  <2>2. Save(p, e) /\ d.pc = "batch" /\ d.at > d.asked
    BY <1>3, <2>1 DEF Close
  <2>3. /\ e \in Drive /\ e.pc = "round" /\ e.answered = d.asked /\ ~e.repair
        /\ e.asked = d.asked /\ e.at = d.at /\ e.results = d.results /\ e.taint = d.taint
    BY <1>1, <2>1 DEF Drive, Pc
  <2> HIDE <2>1
  <2> QED
    BY <1>1, <1>2, <2>2, <2>3, SaveStep DEF InBounds
<1>4. ASSUME NEW n \in Call, Ask(p, n) PROVE Inv'
  <2>1. PICK e : e = [d EXCEPT !.pc = "batch", !.asked = d.asked + n]
    OBVIOUS
  <2>2. Save(p, e) /\ d.pc = "round" /\ e.asked <= MaxCall
    BY <1>4, <2>1 DEF Ask
  <2>3. n \in Nat /\ d.asked + n \in Nat
    BY <1>1 DEF Call
  <2>4. /\ e \in Drive /\ e.pc = "batch" /\ e.asked = d.asked + n
        /\ e.answered = d.answered /\ e.repair = d.repair
        /\ e.at = d.at /\ e.results = d.results /\ e.taint = d.taint
    BY <1>1, <2>1, <2>3 DEF Drive, Pc
  <2> HIDE <2>1
  <2> QED
    BY <1>1, <1>2, <2>2, <2>3, <2>4, SaveStep DEF InBounds, Knows
<1> QED
  BY <1>3, <1>4

\* The driver lets go, with or without the write that lets the turn go: what is in
\* the row afterwards is what it was, or what the driver carried.
LEMMA LeaveStep ==
  ASSUME Inv, NEW p \in Proc, drive[p].pc # "idle", NEW status \in {"owed", "done"}, Leave(p, status)
  PROVE  Inv'
<1> DEFINE d == drive[p]
<1>1. /\ d \in Drive /\ Idle \in Drive /\ row \in Row
      /\ drive \in [Proc -> Drive]
      /\ Hand(Idle) /\ InBounds(Idle) /\ Covered(Idle.results, Idle.taint)
  <2>1. Hand(Idle) /\ Covered(Idle.results, Idle.taint)
    BY DEF Idle, Hand, Covered, NoResults, NoResult
  <2> QED
    BY <2>1, Constant DEF Inv, Typed, TypeOK
<1>2. /\ drive' = [drive EXCEPT ![p] = Idle] /\ UNCHANGED <<wal, runs, faults>>
      /\ Idle.pc = "idle"
  BY DEF Leave, SetDrive, Idle
<1>3. CASE row' = row
  <2>1. Typed' /\ Known'
    BY <1>1, <1>2, <1>3, OwnStep DEF Inv, Typed, TypeOK
  <2>2. Solo'
    BY <1>2, <1>3, RowKept, Driving, DriverStep
  <2> QED
    BY <2>1, <2>2 DEF Inv
<1>4. CASE row' = [Saved(d) EXCEPT !.status = status, !.holder = Nobody]
  <2>1. PICK s : s = Saved(d)
    OBVIOUS
  <2>2. /\ s \in Row /\ s.asked = d.asked /\ s.answered = d.answered /\ s.taint = d.taint
        /\ \A c \in Call : s.results[c] = IF c <= d.answered THEN d.results[c] ELSE NoResult
    BY <1>1, <2>1, SavedFields
  <2>3. row' = [s EXCEPT !.status = status, !.holder = Nobody]
    BY <1>4, <2>1
  <2>4. /\ row' \in Row /\ row'.asked = s.asked /\ row'.answered = s.answered
        /\ row'.taint = s.taint /\ row'.results = s.results
    BY <2>2, <2>3 DEF Row
  <2> HIDE <2>1
  <2>5. /\ drive' \in [Proc -> Drive] /\ drive'[p] = Idle
        /\ \A q \in Proc \ {p} : drive'[q] = drive[q]
    BY <1>1, <1>2
  <2>6. Typed'
    BY <1>1, <1>2, <2>2, <2>4, <2>5 DEF Inv, Typed, TypeOK, InBounds
  <2>7. Known'
    <3>1. Covered(row.results, row.taint)'
      BY <1>1, <1>2, <2>2, <2>4, RowSaved DEF Inv, Known
    <3>2. \A q \in Proc : Hand(drive[q])' /\ Covered(drive[q].results, drive[q].taint)'
      BY <1>1, <1>2, <2>5 DEF Inv, Known, Hand, Covered
    <3> QED
      BY <1>2, <3>1, <3>2 DEF Inv, Known, EffectIsIntended
  <2>8. Solo'
    <3> SUFFICES ASSUME ~faults.stolen PROVE RowOk'
      BY <1>2, DriverStep
    <3> QED
      BY <1>1, <1>2, <2>2, <2>4, Driving, RowSaved DEF Carries
  <2> QED
    BY <2>6, <2>7, <2>8 DEF Inv
<1> QED
  BY <1>3, <1>4 DEF Leave

\* The driver stops: a preamble that throws, or the process.
LEMMA StopStep ==
  ASSUME Inv, NEW p \in Proc, Abandon(p) \/ Crash(p)
  PROVE  Inv'
<1>1. /\ drive[p].pc # "idle" /\ drive' = [drive EXCEPT ![p] = Idle] /\ Idle.pc = "idle"
      /\ UNCHANGED <<wal, runs>> /\ faults'.stolen = faults.stolen
      /\ faults' \in [crashes : Nat, expired : Nat, stolen : BOOLEAN]
  <2>1. faults \in [crashes : Nat, expired : Nat, stolen : BOOLEAN]
    BY DEF Inv, Typed, TypeOK
  <2> QED
    BY <2>1 DEF Abandon, Crash, SetDrive, Idle
<1>2. /\ row' \in Row /\ row'.asked = row.asked /\ row'.answered = row.answered
      /\ row'.taint = row.taint /\ row'.results = row.results
  <2>1. row \in Row
    BY DEF Inv, Typed, TypeOK
  <2> QED
    BY <2>1 DEF Abandon, Crash, Row
<1>3. /\ drive \in [Proc -> Drive] /\ Idle \in Drive /\ drive'[p] = Idle
      /\ drive' \in [Proc -> Drive]
      /\ \A q \in Proc \ {p} : drive'[q] = drive[q]
  BY <1>1, Constant DEF Inv, Typed, TypeOK
<1>4. Typed'
  BY <1>1, <1>2, <1>3, Constant DEF Inv, Typed, TypeOK, InBounds
<1>5. Known'
  <2>1. Hand(Idle)' /\ Covered(Idle.results, Idle.taint)'
    BY DEF Idle, Hand, Covered, NoResults, NoResult
  <2>2. \A q \in Proc : Hand(drive[q])' /\ Covered(drive[q].results, drive[q].taint)'
    BY <1>1, <1>3, <2>1 DEF Inv, Known, Hand, Covered
  <2> QED
    BY <1>1, <1>2, <2>2 DEF Inv, Known, EffectIsIntended, Covered
<1>6. Solo'
  BY <1>1, <1>2, RowKept, Driving, DriverStep
<1> QED
  BY <1>4, <1>5, <1>6 DEF Inv

\* A claim is freed: of a dead process, or of one that may be at work.
LEMMA FreeStep ==
  ASSUME Inv, Reclaim \/ Expire
  PROVE  Inv'
<1>1. /\ row.status = "running" /\ row' = Freed /\ UNCHANGED <<wal, drive, runs>>
      /\ row.orphan \/ (Expire /\ ~row.orphan)
      /\ row \in Row
  BY DEF Reclaim, Expire, Inv, Typed, TypeOK
<1>2. /\ row' \in Row /\ row'.asked = row.asked /\ row'.answered = row.answered
      /\ row'.taint = row.taint /\ row'.results = row.results
  BY <1>1 DEF Freed, Row
<1>3. /\ faults' \in [crashes : Nat, expired : Nat, stolen : BOOLEAN]
      /\ ~faults'.stolen =>
           ~faults.stolen /\ (~row.orphan => drive[row.holder].pc = "idle")
  <2>1. faults \in [crashes : Nat, expired : Nat, stolen : BOOLEAN]
    BY DEF Inv, Typed, TypeOK
  <2>2. CASE row.orphan
    BY <2>1, <2>2 DEF Reclaim, Expire
  <2>3. CASE ~row.orphan
    <3>1. Expire
      BY <1>1, <2>3
    <3>2. PICK b \in BOOLEAN : b = (faults.stolen \/ drive[row.holder].pc # "idle")
      OBVIOUS
    <3>3. faults' = [faults EXCEPT !.expired = @ + 1, !.stolen = b]
      BY <3>1, <3>2 DEF Expire
    <3>4. faults' = [crashes |-> faults.crashes, expired |-> faults.expired + 1, stolen |-> b]
      BY <2>1, <3>3
    <3>5. faults.crashes \in Nat /\ faults.expired + 1 \in Nat
      BY <2>1
    <3>6. faults' \in [crashes : Nat, expired : Nat, stolen : BOOLEAN]
      BY <3>4, <3>5
    <3>7. ~faults'.stolen => ~b
      BY <3>4
    <3> QED
      BY <3>2, <3>6, <3>7
  <2> QED
    BY <2>2, <2>3
<1>4. Typed' /\ Known'
  BY <1>1, <1>2, <1>3 DEF Inv, Typed, TypeOK, Known, InBounds, Hand, Covered, EffectIsIntended
<1>5. Solo'
  <2> SUFFICES ASSUME ~faults'.stolen PROVE RowOk' /\ \A q \in Proc : drive[q].pc = "idle"
    BY <1>1 DEF Solo
  <2>1. \A q \in Proc : drive[q].pc # "idle" => row.holder = q /\ ~row.orphan
    BY <1>3, Driving DEF Owns
  <2>2. RowOk
    BY <1>3 DEF Inv, Solo
  <2> QED
    BY <1>1, <1>2, <1>3, <2>1, <2>2, RowKept
<1> QED
  BY <1>4, <1>5 DEF Inv

\* A process reads the row back, and nobody else is at work on it.
LEMMA ClaimStep ==
  ASSUME Inv, NEW p \in Proc, Claim(p)
  PROVE  Inv'
<1>1. /\ row.status = "owed" /\ row \in Row /\ Idle \in Drive
      /\ row' = [row EXCEPT !.status = "running", !.holder = p, !.orphan = FALSE]
      /\ UNCHANGED <<wal, runs, faults>>
      /\ drive \in [Proc -> Drive]
  BY Constant DEF Claim, Inv, Typed, TypeOK
<1>2. /\ row' \in Row /\ row'.asked = row.asked /\ row'.answered = row.answered
      /\ row'.taint = row.taint /\ row'.results = row.results
      /\ row'.status = "running" /\ row'.holder = p /\ ~row'.orphan
  BY <1>1 DEF Row
<1>3. PICK e : e = [Idle EXCEPT !.pc = "claimed", !.repair = TRUE,
                      !.asked = row.asked, !.answered = row.answered, !.at = row.answered + 1,
                      !.results = row.results, !.taint = row.taint]
  OBVIOUS
<1>4. drive' = [drive EXCEPT ![p] = e]
  BY <1>3 DEF Claim, SetDrive
<1>5. /\ row.asked \in Nat /\ row.answered \in Nat /\ row.answered + 1 \in Nat
      /\ row.results \in [Call -> Result] /\ row.taint \in Tier /\ row.taint \in Nat
      /\ \A c \in Call : c \in Nat
  BY <1>1, TiersAreNaturals DEF Row, Tier, Call
<1>6. /\ e \in Drive /\ e.pc = "claimed" /\ e.repair /\ ~e.latched
      /\ e.asked = row.asked /\ e.answered = row.answered /\ e.at = row.answered + 1
      /\ e.results = row.results /\ e.taint = row.taint
  <2>1. e = [pc |-> "claimed", repair |-> TRUE, latched |-> FALSE, asked |-> row.asked,
             answered |-> row.answered, at |-> row.answered + 1, run |-> 0,
             results |-> row.results, taint |-> row.taint, recorded |-> {}, open |-> {}]
    BY <1>3 DEF Idle
  <2> QED
    BY <1>5, <2>1 DEF Drive, Pc
<1> HIDE <1>3
<1>7. /\ drive' \in [Proc -> Drive] /\ drive'[p] = e
      /\ \A q \in Proc \ {p} : drive'[q] = drive[q]
  BY <1>1, <1>4, <1>6
<1>8. Typed'
  <2>1. InBounds(e)
    BY <1>5, <1>6 DEF InBounds, Inv, Typed
  <2> QED
    BY <1>1, <1>2, <1>7, <2>1 DEF Inv, Typed, TypeOK, InBounds
<1>9. Known'
  <2>1. Hand(e)' /\ Covered(e.results, e.taint)'
    BY <1>6 DEF Hand, Covered, Inv, Known
  <2>2. \A q \in Proc : Hand(drive[q])' /\ Covered(drive[q].results, drive[q].taint)'
    BY <1>1, <1>7, <2>1 DEF Inv, Known, Hand, Covered
  <2> QED
    BY <1>1, <1>2, <2>2 DEF Inv, Known, EffectIsIntended, Covered
<1>10. Solo'
  <2> SUFFICES ASSUME ~faults.stolen
               PROVE  RowOk' /\ \A q \in Proc : drive'[q].pc # "idle" => Sole(q)'
    BY <1>1 DEF Solo
  <2>1. RowOk /\ \A q \in Proc : drive[q].pc = "idle"
    BY <1>1 DEF Inv, Solo, Sole, Owns
  <2>2. RowOk'
    BY <1>1, <1>2, <2>1, RowKept
  <2>3. Owns(p)' /\ Knows(e)' /\ AtWork(e)'
    BY <1>2, <1>6 DEF Owns, Knows, AtWork
  <2>4. Carries(e)'
    <3>1. \A c \in Call : (c >= e.at => e.results[c].kind = "none") /\ Honest(e.results[c], c)'
      BY <1>1, <1>5, <1>6, <2>1 DEF RowOk, Honest
    <3>2. row.answered <= row.asked
      BY <2>1 DEF RowOk
    <3> QED
      BY <1>2, <1>5, <1>6, <3>1, <3>2 DEF Carries
  <2>5. Sole(p)'
    BY <1>7, <2>3, <2>4 DEF Sole
  <2> QED
    BY <1>7, <2>1, <2>2, <2>5
<1> QED
  BY <1>8, <1>9, <1>10 DEF Inv

----------------------------------------------------------------------------
(* The invariant holds.                                                    *)

LEMMA InitInv == Init => Inv
<1> SUFFICES ASSUME Init PROVE Inv
  OBVIOUS
<1>1. /\ row = [status |-> "owed", holder |-> Nobody, orphan |-> FALSE, asked |-> 0,
                answered |-> 0, results |-> NoResults, taint |-> 0]
      /\ wal = [c \in Call |-> NoRecord] /\ drive = [p \in Proc |-> Idle]
      /\ runs = [c \in Call |-> 0]
      /\ faults = [crashes |-> 0, expired |-> 0, stolen |-> FALSE]
  BY DEF Init
<1>2. row \in Row
  BY <1>1, Constant, TiersAreNaturals DEF Row, Tier
<1>3. TypeOK
  BY <1>1, <1>2, Constant DEF TypeOK
<1>4. Typed
  <2>1. \A p \in Proc : InBounds(drive[p])
    BY <1>1, Constant
  <2>2. row.asked <= MaxCall
    BY <1>1, CallBounds
  <2> QED
    BY <1>3, <2>1, <2>2 DEF Typed
<1>5. \A c \in Call : /\ NoResults[c].kind = "none" /\ ~wal[c].intent /\ ~wal[c].ended
                      /\ runs[c] = 0
  BY <1>1 DEF NoResults, NoResult, NoRecord
<1>6. Known
  <2>1. Hand(Idle) /\ Covered(Idle.results, Idle.taint)
    BY <1>5 DEF Idle, Hand, Covered
  <2> QED
    BY <1>1, <1>5, <2>1 DEF Known, EffectIsIntended, Covered
<1>7. Solo
  <2>1. \A p \in Proc : drive[p].pc = "idle"
    BY <1>1 DEF Idle
  <2>2. RowOk
    BY <1>1, <1>5 DEF RowOk, Untouched, Honest
  <2> QED
    BY <2>1, <2>2 DEF Solo
<1> QED
  BY <1>4, <1>6, <1>7 DEF Inv

LEMMA NextInv == Inv /\ [Next]_vars => Inv'
<1> SUFFICES ASSUME Inv, [Next]_vars PROVE Inv'
  OBVIOUS
<1>1. ASSUME NEW p \in Proc, Resume(p) PROVE Inv'
  <2>1. CASE Claim(p)
    BY <2>1, ClaimStep
  <2>2. CASE ReadOutcomes(p) \/ ReadOpen(p)
    BY <2>2, ReadsStep
  <2>3. CASE Replay(p) \/ Declare(p)
    BY <2>3, AnswersStep DEF Answers
  <2> QED
    BY <1>1, <2>1, <2>2, <2>3 DEF Resume
<1>2. ASSUME NEW p \in Proc, RunTool(p) PROVE Inv'
  <2>1. CASE \/ Reuse(p) \/ ReadFails(p) \/ \E latched \in BOOLEAN : Refuse(p, latched)
             \/ \E tier \in Tier : OutcomeFails(p, tier)
    BY <2>1, AnswersStep DEF Answers
  <2>2. CASE Intend(p)
    BY <2>2, IntendStep
  <2>3. CASE Handle(p) \/ Retry(p)
    BY <2>3, StartStep
  <2>4. CASE \E tier \in Tier : Outcome(p, tier)
    BY <2>4, OutcomeStep
  <2> QED
    BY <1>2, <2>1, <2>2, <2>3, <2>4 DEF RunTool
<1>3. ASSUME NEW p \in Proc, Rounds(p) PROVE Inv'
  <2>1. CASE Close(p) \/ \E n \in Call : Ask(p, n)
    BY <2>1, RoundsStep
  <2>2. CASE Finish(p) \/ Yield(p)
    BY <2>2, LeaveStep DEF Finish, Yield
  <2>3. CASE Abandon(p)
    BY <2>3, StopStep
  <2> QED
    BY <1>3, <2>1, <2>2, <2>3 DEF Rounds
<1>4. ASSUME NEW p \in Proc, Crash(p) PROVE Inv'
  BY <1>4, StopStep
<1>5. CASE Reclaim \/ Expire
  BY <1>5, FreeStep
<1>6. CASE UNCHANGED vars
  BY <1>6 DEF vars, Inv, Typed, TypeOK, InBounds, Known, EffectIsIntended, Hand, Covered, Solo,
              RowOk, Untouched, Honest, Sole, Owns, Knows, Ahead, AtWork, Carries
<1> QED
  BY <1>1, <1>2, <1>3, <1>4, <1>5, <1>6 DEF Next

\* The strengthening that makes the properties below inductive: Typed, Known of any
\* run, and Solo of a run in which no process at work lost its claim.
THEOREM InvCorrect == Spec => []Inv
<1> QED
  BY InitInv, NextInv, PTL DEF Spec

\* Every variable has its type.
THEOREM TypeCorrect == Spec => []TypeOK
<1>1. Inv => TypeOK
  BY DEF Inv, Typed
<1> QED
  BY <1>1, InvCorrect, PTL

\* A missing intent row means "never started" (tool-call.ts runTool writes it before
\* it calls the handler), whoever crashed, stole the claim or failed to write.
THEOREM EffectCorrect == Spec => []EffectIsIntended
<1>1. Inv => EffectIsIntended
  BY DEF Inv, Known
<1> QED
  BY <1>1, InvCorrect, PTL

\* No call that may not be repeated is run twice, through any number of crashes,
\* resumes and failed writes, unless a process at work loses its claim.
THEOREM RunsOnceCorrect == Spec => []UnrepeatableRunsOnce
<1>1. Inv => UnrepeatableRunsOnce
  BY DEF Inv, Solo, RowOk, UnrepeatableRunsOnce
<1> QED
  BY <1>1, InvCorrect, PTL

\* What the row shows of a call is what happened to it: not executed, the result of
\* a run and the one on record, or nobody knows and it may have run.
THEOREM HonestCorrect == Spec => []TranscriptIsHonest
<1>1. Inv => TranscriptIsHonest
  BY DEF Inv, Solo, RowOk, Honest, TranscriptIsHonest
<1> QED
  BY <1>1, InvCorrect, PTL

\* The row's taint is at least the tier of every result it shows the model, whatever
\* happens, and of every outcome on record while no process at work loses its claim.
THEOREM TaintCorrect == Spec => []TaintCovers
<1>1. Inv => TaintCovers
  BY DEF Inv, Known, Covered, Solo, RowOk, TaintCovers
<1> QED
  BY <1>1, InvCorrect, PTL
=============================================================================
