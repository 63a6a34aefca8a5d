-------------------------- MODULE Scheduler_proofs --------------------------
(***************************************************************************)
(* What Scheduler promises of the identity of an occurrence, for any       *)
(* number of gateways and jobs, any clock and any number of faults: every  *)
(* turn of an occurrence is the one its fire is bound to, the schedule     *)
(* leaves nothing behind, and a fault costs at most one repetition.        *)
(*                                                                         *)
(* No invariant of the runs is inductive.  Of the memory of a process it   *)
(* has to be said that the turn it is about to create, to resume or to     *)
(* recover is the one the fire of its occurrence is bound to; that without *)
(* a lost claim only the owner works, where the schedule stands; and who   *)
(* is on the way to tell, which is counted with what was told.             *)
(***************************************************************************)
EXTENDS Scheduler, FiniteSetTheorems, TLAPS

\* Where a run has a turn of its own.
Owning == {"bound", "fresh", "driving", "handed", "taken", "resumed", "sending",
           "noting"}

\* The turn a process works on is the one its occurrence is bound to.
WorkIsBound ==
  \A p \in Proc :
    /\ work[p].id # Nobody => /\ work[p].occ # Nobody
                              /\ fire[work[p].occ].turn = work[p].id
    /\ work[p].pc \in Owning => work[p].id # Nobody

\* A process goes on to work w, on a turn that is bound, or on none.
Works(p, w) ==
  /\ work' = [work EXCEPT ![p] = w]
  /\ w.occ = Nobody <=> w.pc = "idle"
  /\ w.id # Nobody => w.occ # Nobody /\ fire[w.occ].turn = w.id
  /\ w.pc \in Owning => w.id # Nobody

\* The inductive invariant.
Inv == TypeOK /\ WorkIsBound /\ OneTurnPerOccurrence

\* Nothing is bound and nobody is at work at first.
LEMMA InvInit == Init => Inv
BY Constants, NobodyIsNoOccurrence
   DEF Init, Inv, TypeOK, WorkIsBound, OneTurnPerOccurrence, NoTurn, Idle, Owning,
       Turn, Work, Pc, Fire, JobRow, History, Slot, Occ

\* A step of one process that leaves the fires and the turns alone keeps the
\* invariant, when that process works on.
LEMMA Aside ==
  ASSUME Inv, NEW p \in Proc, NEW w \in Work, Works(p, w), UNCHANGED <<fire, turn>>
  PROVE  /\ WorkIsBound' /\ OneTurnPerOccurrence' /\ work' \in [Proc -> Work]
         /\ \A q \in Proc : work'[q].occ = Nobody <=> work'[q].pc = "idle"
BY DEF Inv, TypeOK, WorkIsBound, OneTurnPerOccurrence, Works

\* A step that also writes the row of the turn the process worked on keeps it too.
LEMMA RowWritten ==
  ASSUME Inv, NEW p \in Proc, NEW w \in Work, Works(p, w), UNCHANGED fire,
         NEW r \in Turn, SetTurn(p, r), work[p].id # Nobody
  PROVE  /\ WorkIsBound' /\ OneTurnPerOccurrence' /\ work' \in [Proc -> Work]
         /\ turn' \in [Occ -> [Proc -> Turn]]
         /\ \A q \in Proc : work'[q].occ = Nobody <=> work'[q].pc = "idle"
<1>1. work[p].id \in Proc /\ work[p].occ \in Occ /\ fire[work[p].occ].turn = work[p].id
  BY DEF Inv, TypeOK, WorkIsBound, Work
<1>2. turn' \in [Occ -> [Proc -> Turn]]
  BY <1>1 DEF Inv, TypeOK, SetTurn
<1>3. \A o \in Occ, m \in Proc :
        turn'[o][m] # turn[o][m] => o = work[p].occ /\ m = work[p].id
  BY <1>1 DEF Inv, TypeOK, SetTurn
<1>4. OneTurnPerOccurrence'
  BY <1>1, <1>3 DEF Inv, OneTurnPerOccurrence
<1> QED BY <1>2, <1>4 DEF Inv, TypeOK, WorkIsBound, Works

\* A run that ends leaves nothing in the memory of its process.
LEMMA Ends ==
  ASSUME Inv, NEW p \in Proc, Over(p)
  PROVE  \E w \in Work : Works(p, w)
<1>1. Idle \in Work /\ Works(p, Idle) BY DEF Over, Idle, Work, Pc, Works, Owning
<1> QED BY <1>1

\* A run that goes on keeps its occurrence and its turn.
LEMMA GoesOn ==
  ASSUME Inv, NEW p \in Proc, work[p].pc # "idle",
         NEW w \in Work, work' = [work EXCEPT ![p] = w], w.pc # "idle",
         w.occ = work[p].occ, w.id = work[p].id,
         w.pc \in Owning => work[p].pc \in Owning
  PROVE  \E x \in Work : Works(p, x)
<1>1. Works(p, w) BY DEF Inv, TypeOK, WorkIsBound, Works
<1> QED BY <1>1

\* The same, when it only moves to another place.
LEMMA GoesTo ==
  ASSUME Inv, NEW p \in Proc, work[p].pc # "idle",
         NEW pc \in Pc \ {"idle"}, Goes(p, pc), pc \in Owning => work[p].pc \in Owning
  PROVE  \E w \in Work : Works(p, w)
<1> DEFINE w == [work[p] EXCEPT !.pc = pc]
<1>1. w \in Work /\ w.pc = pc /\ w.occ = work[p].occ /\ w.id = work[p].id
  BY DEF Inv, TypeOK, Work
<1>2. work' = [work EXCEPT ![p] = w] BY DEF Goes, Inv, TypeOK
<1> QED BY <1>1, <1>2, GoesOn

\* A failed run keeps its occurrence and drops its turn.
LEMMA Throws ==
  ASSUME Inv, NEW p \in Proc, work[p].pc # "idle", Thrown(p)
  PROVE  \E w \in Work : Works(p, w)
<1> DEFINE w == [work[p] EXCEPT !.pc = "outcome", !.id = Nobody, !.says = TRUE]
<1>1. w \in Work /\ w.pc = "outcome" /\ w.id = Nobody /\ w.occ = work[p].occ
  BY DEF Inv, TypeOK, Work, Pc
<1>2. work' = [work EXCEPT ![p] = w] BY DEF Thrown, Inv, TypeOK
<1>3. Works(p, w) BY <1>1, <1>2 DEF Works, Inv, TypeOK, Owning
<1> QED BY <1>1, <1>3

\* The tellings and the faults are counted within their types.
LEMMA Counts ==
  ASSUME Inv, NEW o \in Occ
  PROVE  /\ hist \in History
         /\ Happens => hist' \in History
         /\ [hist EXCEPT !.told[o] = @ + 1] \in History
         /\ [hist EXCEPT !.diagnosed = @ \cup {o}] \in History
<1>1. hist \in History BY DEF Inv, TypeOK
<1>2. Happens => hist' \in History
  BY <1>1, Constants DEF Happens, History
<1>3. [hist EXCEPT !.told[o] = @ + 1] \in History
  <2>1. [hist.told EXCEPT ![o] = @ + 1] \in [Occ -> Nat] BY <1>1 DEF History
  <2> QED BY <1>1, <2>1 DEF History
<1>4. [hist EXCEPT !.diagnosed = @ \cup {o}] \in History BY <1>1 DEF History
<1> QED BY <1>1, <1>2, <1>3, <1>4

----------------------------------------------------------------------------
(* The invariant, one step of the proof per action.                        *)

\* No step breaks the invariant.
LEMMA InvNext == Inv /\ [Next]_vars => Inv'
<1> SUFFICES ASSUME Inv, [Next]_vars PROVE Inv' OBVIOUS
<1> USE Constants, NobodyIsNoOccurrence
<1>1. CASE UNCHANGED vars
  BY <1>1 DEF vars, Inv, TypeOK, WorkIsBound, OneTurnPerOccurrence
<1>2. CASE Tick
  BY <1>2 DEF Tick, Inv, TypeOK, WorkIsBound, OneTurnPerOccurrence
<1>3. ASSUME NEW p \in Proc, Beat(p) \/ Nudge(p) PROVE Inv'
  <2>1. CASE \E o \in Owed : LaneTakes(p, o)
    <3>1. PICK o \in Owed : LaneTakes(p, o) BY <2>1
    <3>2. PICK m \in Proc : /\ turn[o][m].status = "owed"
                            /\ work' = [work EXCEPT ![p] = [Idle EXCEPT
                                 !.pc = "taken", !.occ = o, !.id = m]]
      BY <3>1 DEF LaneTakes
    <3>3. o \in Occ BY DEF Owed
    <3>4. fire[o].turn = m BY <3>2, <3>3 DEF Inv, OneTurnPerOccurrence
    <3> DEFINE w == [Idle EXCEPT !.pc = "taken", !.occ = o, !.id = m]
    <3>5. w \in Work /\ Works(p, w)
      BY <3>2, <3>3, <3>4 DEF Work, Pc, Idle, Works, Owning
    <3> QED BY <1>3, <3>5, Aside DEF Beat, Nudge, Inv, TypeOK
  <2>2. CASE \E j \in FirstDue : work' = [work EXCEPT ![p] = [Idle EXCEPT
                                   !.pc = "due", !.occ = <<j, job[j].next>>]]
    <3>1. PICK j \in FirstDue : work' = [work EXCEPT ![p] = [Idle EXCEPT
                                  !.pc = "due", !.occ = <<j, job[j].next>>]]
      BY <2>2
    <3>2. <<j, job[j].next>> \in Occ
      BY <3>1 DEF FirstDue, DueJobs, Inv, TypeOK, JobRow, Occ
    <3> DEFINE w == [Idle EXCEPT !.pc = "due", !.occ = <<j, job[j].next>>]
    <3>3. w \in Work /\ Works(p, w) BY <3>1, <3>2 DEF Work, Pc, Idle, Works, Owning
    <3> QED BY <1>3, <3>3, Aside DEF Beat, Nudge, Inv, TypeOK
  <2> QED BY <1>3, <2>1, <2>2 DEF Beat, Nudge
<1>4. ASSUME NEW p \in Proc, Claim(p) PROVE Inv'
  <2> DEFINE o == work[p].occ
             w == [work[p] EXCEPT !.id = fire[o].turn,
                     !.pc = IF fire[o].turn = Nobody THEN "unbound" ELSE "bound"]
  <2>1. o \in Occ /\ work[p] \in Work /\ fire[o] \in Fire
    BY <1>4 DEF Claim, At, Inv, TypeOK, Work, Pc
  <2>2. work' = [work EXCEPT ![p] = w] BY <1>4 DEF Claim, Inv, TypeOK
  <2>3. w \in Work /\ w.occ = o /\ w.id = fire[o].turn /\ w.pc # "idle"
        /\ (w.pc \in Owning => w.id # Nobody)
    BY <2>1 DEF Work, Pc, Fire, Owning
  <2>4. fire' \in [Occ -> Fire] /\ \A q \in Occ : fire'[q].turn = fire[q].turn
    BY <1>4, <2>1 DEF Claim, Inv, TypeOK, Fire
  <2>5. UNCHANGED <<now, job, turn, claim, hist>> BY <1>4 DEF Claim
  <2>6. TypeOK' BY <2>1, <2>2, <2>3, <2>4, <2>5 DEF Inv, TypeOK
  <2>7. \A q \in Proc : work[q].occ \in Occ \cup {Nobody} BY DEF Inv, TypeOK, Work, Pc
  <2>8. WorkIsBound' BY <2>1, <2>2, <2>3, <2>4, <2>7 DEF Inv, TypeOK, WorkIsBound
  <2>9. OneTurnPerOccurrence' BY <2>4, <2>5 DEF Inv, OneTurnPerOccurrence
  <2> QED BY <2>6, <2>8, <2>9 DEF Inv
<1>5. ASSUME NEW p \in Proc, Bind(p) PROVE Inv'
  <2> DEFINE o == work[p].occ
             winner == Bound(o, p)
             w == [work[p] EXCEPT !.id = winner,
                     !.pc = IF winner = p THEN "fresh" ELSE "bound"]
  <2>1. o \in Occ /\ work[p] \in Work /\ fire[o] \in Fire
    BY <1>5 DEF Bind, At, Inv, TypeOK, Work, Pc
  <2>2. winner \in Proc /\ (fire[o].turn # Nobody => winner = fire[o].turn)
    BY <2>1 DEF Bound, Fire
  <2>3. work' = [work EXCEPT ![p] = w] BY <1>5 DEF Bind, Inv, TypeOK
  <2>4. w \in Work /\ w.occ = o /\ w.id = winner /\ w.pc # "idle"
    BY <2>1, <2>2 DEF Work, Pc
  <2>5. /\ fire' \in [Occ -> Fire] /\ fire'[o].turn = winner
        /\ \A q \in Occ : fire[q].turn # Nobody => fire'[q].turn = fire[q].turn
    BY <1>5, <2>1, <2>2 DEF Bind, Inv, TypeOK, Fire
  <2>6. UNCHANGED <<now, job, turn, claim, hist>> BY <1>5 DEF Bind
  <2>7. TypeOK' BY <2>1, <2>3, <2>4, <2>5, <2>6 DEF Inv, TypeOK
  <2>8. \A q \in Proc : work[q].occ \in Occ \cup {Nobody} BY DEF Inv, TypeOK, Work, Pc
  <2>9. WorkIsBound'
    BY <2>1, <2>2, <2>3, <2>4, <2>5, <2>8 DEF Inv, TypeOK, WorkIsBound
  <2>10. OneTurnPerOccurrence' BY <2>5, <2>6 DEF Inv, OneTurnPerOccurrence
  <2> QED BY <2>7, <2>9, <2>10 DEF Inv
<1>6. ASSUME NEW p \in Proc,
             \/ Resolve(p) \/ Fail(p) \/ Judge(p) \/ LaneFail(p)
             \/ \E b \in BOOLEAN : Deliver(p, b) \/ LaneSend(p, b)
      PROVE  Inv'
  <2>1. UNCHANGED <<now, job, fire, turn, claim>>
    BY <1>6 DEF Resolve, Fail, Judge, LaneFail, Deliver, LaneSend
  <2>2. work[p] \in Work /\ work[p].pc # "idle" /\ work[p].occ \in Occ
    BY <1>6 DEF Resolve, Fail, Judge, LaneFail, Deliver, LaneSend, At, Inv, TypeOK, Work
  <2>3. hist' \in History
    <3>1. CASE Resolve(p) \/ Judge(p) BY <3>1, <2>2, Counts DEF Resolve, Judge
    <3>2. CASE Fail(p) \/ LaneFail(p) BY <3>2, <2>2, Counts DEF Fail, LaneFail
    <3>3. CASE \E b \in BOOLEAN : Deliver(p, b) \/ LaneSend(p, b)
      BY <3>3, <2>2, Counts DEF Deliver, LaneSend
    <3> QED BY <1>6, <3>1, <3>2, <3>3
  <2>4. SUFFICES \E w \in Work : Works(p, w)
    BY <2>1, <2>3, Aside DEF Inv, TypeOK
  <2>5. CASE Resolve(p)
    <3>1. CASE Over(p) BY <3>1, Ends
    <3>2. CASE Goes(p, "fresh") \/ Goes(p, "settling")
      BY <2>2, <2>5, <3>2, GoesTo DEF Resolve, At, Owning, Pc
    <3>3. CASE work' = [work EXCEPT ![p].pc = "outcome", ![p].says = Its(p).says]
      <4> DEFINE w == [work[p] EXCEPT !.pc = "outcome", !.says = Its(p).says]
      <4>1. Its(p).says \in BOOLEAN
        BY <2>2, <2>5 DEF Resolve, At, Its, Inv, TypeOK, WorkIsBound, Owning, Work, Turn
      <4>2. w \in Work /\ w.pc = "outcome" /\ w.occ = work[p].occ /\ w.id = work[p].id
        BY <2>2, <4>1 DEF Work, Pc
      <4>3. work' = [work EXCEPT ![p] = w] BY <3>3 DEF Inv, TypeOK
      <4> QED BY <2>2, <4>2, <4>3, GoesOn DEF Owning
    <3> QED BY <2>5, <3>1, <3>2, <3>3 DEF Resolve
  <2>6. CASE Fail(p) \/ LaneFail(p)
    BY <2>2, <2>6, Ends, Throws DEF Fail, LaneFail
  <2>7. CASE Judge(p) BY <2>2, <2>7, Ends, GoesTo DEF Judge, Owning, Pc
  <2>8. ASSUME NEW b \in BOOLEAN, Deliver(p, b) \/ LaneSend(p, b)
        PROVE  \E w \in Work : Works(p, w)
    <3>1. PICK pc \in {"told", "noting"} :
            /\ work' = [work EXCEPT ![p].pc = pc, ![p].arrived = b]
            /\ pc = "noting" => work[p].pc = "sending"
      BY <2>8 DEF Deliver, LaneSend, At
    <3> DEFINE w == [work[p] EXCEPT !.pc = pc, !.arrived = b]
    <3>2. w \in Work /\ w.pc = pc /\ w.occ = work[p].occ /\ w.id = work[p].id
      BY <2>2 DEF Work, Pc
    <3>3. work' = [work EXCEPT ![p] = w] BY <3>1 DEF Inv, TypeOK
    <3> QED BY <2>2, <3>1, <3>2, <3>3, GoesOn DEF Owning
  <2> QED BY <1>6, <2>5, <2>6, <2>7, <2>8
<1>7. ASSUME NEW p \in Proc,
             \/ Create(p) \/ Yield(p) \/ Suspend(p) \/ Record(p) \/ Resume(p) \/ LaneNote(p)
             \/ \E b \in BOOLEAN : Finish(p, b) \/ LaneYield(p, b) \/ LaneFinish(p, b)
      PROVE  Inv'
  <2>1. UNCHANGED <<now, job, fire, claim, hist>>
    BY <1>7 DEF Create, Yield, Suspend, Record, Resume, LaneNote, Finish, LaneYield,
                LaneFinish
  <2>2. work[p] \in Work /\ work[p].pc # "idle" /\ work[p].occ \in Occ
    BY <1>7 DEF Create, Yield, Suspend, Record, Resume, LaneNote, Finish, LaneYield,
                LaneFinish, At, Inv, TypeOK, Work
  <2>3. work[p].id # Nobody => Its(p) \in Turn
    BY <2>2 DEF Its, Inv, TypeOK, Work
  <2>4. ~Record(p) => work[p].id # Nobody
    BY <1>7 DEF Create, Yield, Suspend, Resume, LaneNote, Finish, LaneYield,
                LaneFinish, At, Inv, WorkIsBound, Owning
  <2>5. ASSUME NEW pc \in {"driving", "handed", "settling", "resumed", "sending"}, Goes(p, pc),
               pc # "settling" => work[p].pc \in Owning
        PROVE  \E w \in Work : Works(p, w)
    BY <2>2, <2>5, GoesTo DEF Owning, Pc
  <2>6. \E w \in Work : Works(p, w)
    <3>1. CASE Create(p) BY <2>2, <2>5, <3>1, Throws DEF Create, At, Owning
    <3>2. CASE Yield(p) \/ LaneNote(p) BY <3>2, Ends DEF Yield, LaneNote
    <3>3. CASE Suspend(p) \/ Record(p) \/ Resume(p)
      BY <2>5, <3>3, Ends DEF Suspend, Record, Resume, At, Owning
    <3>4. ASSUME NEW b \in BOOLEAN, LaneYield(p, b) PROVE \E w \in Work : Works(p, w)
      BY <2>5, <3>4, Ends DEF LaneYield, At, Owning
    <3>5. ASSUME NEW b \in BOOLEAN, Finish(p, b) PROVE \E w \in Work : Works(p, w)
      <4> DEFINE w == [work[p] EXCEPT !.pc = "outcome", !.says = b]
      <4>1. w \in Work /\ w.pc = "outcome" /\ w.occ = work[p].occ /\ w.id = work[p].id
        BY <2>2 DEF Work, Pc
      <4>2. work' = [work EXCEPT ![p] = w] BY <3>5 DEF Finish, Inv, TypeOK
      <4> QED BY <2>2, <4>1, <4>2, GoesOn DEF Owning
    <3>6. ASSUME NEW b \in BOOLEAN, LaneFinish(p, b) PROVE \E w \in Work : Works(p, w)
      <4> DEFINE w == [work[p] EXCEPT !.pc = "sending", !.answer = TRUE]
      <4>1. w \in Work /\ w.pc = "sending" /\ w.occ = work[p].occ /\ w.id = work[p].id
        BY <2>2 DEF Work, Pc
      <4>2. CASE work' = [work EXCEPT ![p] = w]
        BY <2>2, <3>6, <4>1, <4>2, GoesOn DEF LaneFinish, At, Owning
      <4>3. CASE Over(p) BY <4>3, Ends
      <4> QED BY <3>6, <4>2, <4>3 DEF LaneFinish, Inv, TypeOK
    <3> QED BY <1>7, <3>1, <3>2, <3>3, <3>4, <3>5, <3>6
  <2>7. turn' = turn \/ (work[p].id # Nobody /\ \E r \in Turn : SetTurn(p, r))
    <3>1. ASSUME NEW status \in {"owed", "done"}, NEW says \in BOOLEAN, Leave(p, status, says),
                 work[p].id # Nobody
          PROVE  \E r \in Turn : SetTurn(p, r)
      <4> DEFINE r == [Its(p) EXCEPT !.status = status, !.holder = Nobody, !.says = says]
      <4>1. r \in Turn BY <2>3, <3>1 DEF Turn
      <4> QED BY <3>1, <4>1 DEF Leave
    <3>2. ASSUME NEW d \in {"sent", "failed"}, work[p].id # Nobody,
                 SetTurn(p, [Its(p) EXCEPT !.delivery = d])
          PROVE  \E r \in Turn : SetTurn(p, r)
      <4>1. [Its(p) EXCEPT !.delivery = d] \in Turn BY <2>3, <3>2 DEF Turn
      <4> QED BY <3>2, <4>1
    <3>3. ASSUME work[p].id # Nobody, Noted(p) PROVE \E r \in Turn : SetTurn(p, r)
      BY <3>2, <3>3 DEF Noted
    <3>4. CASE Create(p)
      <4>1. [NoTurn EXCEPT !.status = "running", !.holder = p] \in Turn
        BY DEF NoTurn, Turn
      <4> QED BY <2>4, <3>4, <4>1, <1>7 DEF Create, Record, At
    <3>5. CASE Resume(p)
      <4>1. work[p].id # Nobody BY <3>5 DEF Resume, At, Inv, WorkIsBound, Owning
      <4>2. ASSUME NEW d \in {Its(p).delivery, "pending"}
            PROVE  [Its(p) EXCEPT !.status = "running", !.holder = p, !.delivery = d] \in Turn
        BY <2>3, <4>1, <4>2 DEF Turn
      <4>3. CASE Its(p).status = "owed"
        <5>1. PICK d \in {Its(p).delivery, "pending"} :
                SetTurn(p, [Its(p) EXCEPT !.status = "running", !.holder = p, !.delivery = d])
          BY <3>5, <4>3 DEF Resume
        <5> QED BY <4>1, <4>2, <5>1
      <4> QED BY <3>5, <4>3 DEF Resume
    <3>6. CASE Record(p) BY <3>3, <3>6 DEF Record
    <3>7. CASE LaneNote(p)
      BY <3>3, <3>7 DEF LaneNote, At, Inv, WorkIsBound, Owning
    <3>8. CASE Yield(p) \/ Suspend(p)
      BY <3>1, <3>8 DEF Yield, Suspend, At, Inv, WorkIsBound, Owning
    <3>9. CASE \E b \in BOOLEAN : Finish(p, b) \/ LaneYield(p, b) \/ LaneFinish(p, b)
      BY <3>1, <3>9 DEF Finish, LaneYield, LaneFinish, At, Inv, WorkIsBound, Owning
    <3> QED BY <1>7, <3>4, <3>5, <3>6, <3>7, <3>8, <3>9
  <2>8. CASE turn' = turn BY <2>1, <2>6, <2>8, Aside DEF Inv, TypeOK
  <2>9. CASE work[p].id # Nobody /\ \E r \in Turn : SetTurn(p, r)
    BY <2>1, <2>6, <2>9, RowWritten DEF Inv, TypeOK
  <2> QED BY <2>7, <2>8, <2>9
<1>8. ASSUME NEW p \in Proc, Settle(p) PROVE Inv'
  <2>1. work[p] \in Work /\ work[p].pc # "idle" /\ work[p].occ \in Occ
    BY <1>8 DEF Settle, At, Inv, TypeOK, Work
  <2> DEFINE w == [work[p] EXCEPT !.pc = "marking"]
  <2>2. work' = [work EXCEPT ![p] = w] BY <1>8 DEF Settle, Goes, Inv, TypeOK
  <2>3. w \in Work /\ w.occ = work[p].occ /\ w.id = work[p].id /\ w.pc = "marking"
    BY <2>1 DEF Work, Pc
  <2>4. fire' \in [Occ -> Fire] /\ \A q \in Occ : fire'[q].turn = fire[q].turn
    BY <1>8, <2>1 DEF Settle, Settled, Inv, TypeOK, Fire
  <2>5. UNCHANGED <<now, job, turn, claim, hist>> BY <1>8 DEF Settle
  <2>6. TypeOK' BY <2>1, <2>2, <2>3, <2>4, <2>5 DEF Inv, TypeOK
  <2>7. \A q \in Proc : work[q].occ \in Occ \cup {Nobody} BY DEF Inv, TypeOK, Work
  <2>8. WorkIsBound'
    BY <2>1, <2>2, <2>3, <2>4, <2>7 DEF Inv, TypeOK, WorkIsBound, Owning
  <2>9. OneTurnPerOccurrence' BY <2>4, <2>5 DEF Inv, OneTurnPerOccurrence
  <2> QED BY <2>6, <2>8, <2>9 DEF Inv
<1>9. ASSUME NEW p \in Proc, Mark(p) PROVE Inv'
  <2>1. work[p].occ \in Occ
    <3>1. work[p] \in Work /\ work[p].pc # "idle" BY <1>9 DEF Mark, At, Inv, TypeOK
    <3> QED BY <3>1 DEF Inv, TypeOK, Work
  <2>2. PICK j \in Job : job' = [job EXCEPT ![j] = Ran(j)]
    BY <1>9, <2>1 DEF Mark, Occ
  <2>3. Ran(j) \in JobRow
    <3>1. job[j] \in JobRow /\ now \in 0 .. MaxTime BY DEF Inv, TypeOK
    <3>2. now + 1 \in Slot BY <3>1, Constants DEF Slot
    <3> QED BY <3>1, <3>2 DEF Ran, JobRow
  <2>4. job' \in [Job -> JobRow] BY <2>2, <2>3 DEF Inv, TypeOK
  <2>5. UNCHANGED <<now, fire, turn, claim, hist>> /\ Over(p) BY <1>9 DEF Mark
  <2> QED BY <2>4, <2>5, Ends, Aside DEF Inv, TypeOK
<1>10. ASSUME NEW p \in Proc, Crash(p) PROVE Inv'
  <2>1. /\ UNCHANGED <<now, job, fire>> /\ claim' \in Proc \cup {Nobody}
        /\ Happens /\ Over(p)
    <3>1. claim \in Proc \cup {Nobody} BY DEF Inv, TypeOK
    <3> QED BY <1>10, <3>1 DEF Crash, Over
  <2>2. hist' \in History
    BY <2>1, Constants DEF Happens, History, Inv, TypeOK
  <2>3. /\ turn' \in [Occ -> [Proc -> Turn]]
        /\ \A o \in Occ, m \in Proc : turn'[o][m].status = turn[o][m].status
    <3> DEFINE r(o, m) == IF turn[o][m].holder = p
                          THEN [turn[o][m] EXCEPT !.holder = Nobody] ELSE turn[o][m]
    <3>1. ASSUME NEW o \in Occ, NEW m \in Proc
          PROVE  r(o, m) \in Turn /\ r(o, m).status = turn[o][m].status
      <4>1. turn[o][m] \in Turn BY DEF Inv, TypeOK
      <4> DEFINE x == turn[o][m]
      <4>2. x \in Turn BY <4>1
      <4> HIDE DEF x
      <4>3. [x EXCEPT !.holder = Nobody] \in Turn
            /\ [x EXCEPT !.holder = Nobody].status = x.status
        BY <4>2 DEF Turn
      <4> QED BY <4>2, <4>3 DEF x
    <3>2. turn' = [o \in Occ |-> [m \in Proc |-> r(o, m)]] BY <1>10 DEF Crash
    <3> HIDE DEF r
    <3>3. turn' \in [Occ -> [Proc -> Turn]] BY <3>1, <3>2
    <3>4. ASSUME NEW o \in Occ, NEW m \in Proc
          PROVE  turn'[o][m].status = turn[o][m].status
      <4>1. turn'[o][m] = r(o, m) BY <3>2
      <4> QED BY <4>1, <3>1
    <3> QED BY <3>3, <3>4
  <2>4. OneTurnPerOccurrence' BY <2>1, <2>3 DEF Inv, OneTurnPerOccurrence
  <2>5. PICK w \in Work : Works(p, w) BY <2>1, Ends
  <2> QED BY <2>1, <2>2, <2>3, <2>4, <2>5 DEF Inv, TypeOK, WorkIsBound, Works
<1>11. ASSUME NEW p \in Proc, Boot(p) PROVE Inv'
  <2>1. UNCHANGED <<now, job, fire, work>> /\ claim' \in Proc \cup {Nobody}
    BY <1>11 DEF Boot
  <2>2. hist' \in History
    <3>1. hist \in History BY DEF Inv, TypeOK
    <3>2. hist.faults < MaxFault =>
            [hist EXCEPT !.faults = @ + 1, !.stolen = TRUE] \in History
      <4>1. hist.faults < MaxFault => hist.faults + 1 \in 0 .. MaxFault
        BY <3>1, Constants DEF History
      <4> QED BY <3>1, <4>1 DEF History
    <3> QED BY <1>11, <3>1, <3>2 DEF Boot
  <2>3. /\ turn' \in [Occ -> [Proc -> Turn]]
        /\ \A o \in Occ, m \in Proc :
             turn'[o][m].status # "absent" => turn[o][m].status # "absent"
    <3> DEFINE r(o, m) == IF turn[o][m].status = "running" /\ turn[o][m].holder = Nobody
                          THEN [turn[o][m] EXCEPT !.status = "owed"] ELSE turn[o][m]
    <3>1. \A o \in Occ, m \in Proc :
            r(o, m) \in Turn
            /\ (r(o, m).status # "absent" => turn[o][m].status # "absent")
      BY DEF Inv, TypeOK, Turn
    <3>2. turn' = [o \in Occ |-> [m \in Proc |-> r(o, m)]] BY <1>11 DEF Boot, Reclaimed
    <3> HIDE DEF r
    <3> QED BY <3>1, <3>2
  <2>4. OneTurnPerOccurrence' BY <2>1, <2>3 DEF Inv, OneTurnPerOccurrence
  <2> QED BY <2>1, <2>2, <2>3, <2>4 DEF Inv, TypeOK, WorkIsBound
<1> QED
  BY <1>1, <1>2, <1>3, <1>4, <1>5, <1>6, <1>7, <1>8, <1>9, <1>10, <1>11 DEF Next, Run

----------------------------------------------------------------------------

\* In every behaviour of the gateways, the lane and the clock every variable has
\* its type: no step works on an occurrence or a turn that is not there.
THEOREM TypeCorrect == Spec => []TypeOK
<1>1. Inv => TypeOK BY DEF Inv
<1> QED BY <1>1, InvInit, InvNext, PTL DEF Spec

\* For any number of gateways, jobs and faults an occurrence has one turn, the one
\* its fire is bound to (the decision of ADR-0035, JobFireStore.bind).
THEOREM OneTurnCorrect == Spec => []OneTurnPerOccurrence
<1>1. Inv => OneTurnPerOccurrence BY DEF Inv
<1> QED BY <1>1, InvInit, InvNext, PTL DEF Spec

----------------------------------------------------------------------------
(* What a step writes: the row of a turn, and the work of its process.     *)

\* The row of a turn is written, and no other: its status, holder and delivery.
Wrote(p, status, holder, delivery) ==
  /\ \A o \in Occ, m \in Proc :
       o # work[p].occ \/ m # work[p].id => turn'[o][m] = turn[o][m]
  /\ turn'[work[p].occ][work[p].id].status = status
  /\ turn'[work[p].occ][work[p].id].holder = holder
  /\ turn'[work[p].occ][work[p].id].delivery = delivery

\* One process goes on, with its occurrence; or its run is over.
Alone(p) == \A q \in Proc : q # p => work'[q] = work[q]

\* It moves to another place with the occurrence and the answer it has.
MovesTo(p, pc) == /\ Alone(p) /\ work'[p].pc = pc /\ work'[p].occ = work[p].occ
                  /\ work'[p].answer = work[p].answer

\* Its turn is the one it had.
Keeps(p) == work'[p].id = work[p].id

\* A process that works has an occurrence, and in most places a turn, the only one.
LEMMA AtWork ==
  ASSUME Inv, NEW p \in Proc, work[p].pc # "idle"
  PROVE  /\ work[p] \in Work /\ work[p].occ \in Occ
         /\ work[p].pc \in Owning \/ work[p].id # Nobody =>
              /\ work[p].id \in Proc /\ Its(p) \in Turn
              /\ fire[work[p].occ].turn = work[p].id
              /\ \A m \in Proc : m # work[p].id => turn[work[p].occ][m].status = "absent"
<1>1. work[p] \in Work /\ work[p].occ \in Occ BY DEF Inv, TypeOK, Work
<1>2. ASSUME work[p].pc \in Owning \/ work[p].id # Nobody
      PROVE  work[p].id \in Proc /\ fire[work[p].occ].turn = work[p].id
  BY <1>1, <1>2 DEF Inv, WorkIsBound, Work
<1>3. ASSUME work[p].id \in Proc PROVE Its(p) \in Turn
  BY <1>1, <1>3 DEF Its, Inv, TypeOK
<1>4. ASSUME work[p].id \in Proc, fire[work[p].occ].turn = work[p].id
      PROVE  \A m \in Proc : m # work[p].id => turn[work[p].occ][m].status = "absent"
  BY <1>1, <1>4 DEF Inv, OneTurnPerOccurrence
<1> QED BY <1>1, <1>2, <1>3, <1>4

\* What writing a row does, field by field.
LEMMA RowOf ==
  ASSUME Inv, NEW p \in Proc, work[p].pc # "idle", work[p].id \in Proc,
         NEW r, SetTurn(p, r)
  PROVE  Wrote(p, r.status, r.holder, r.delivery)
<1>1. work[p].occ \in Occ BY AtWork
<1> QED BY <1>1 DEF Wrote, SetTurn, Inv, TypeOK

\* A turn that is left is held by nobody, its delivery as it was.
LEMMA LeaveWrites ==
  ASSUME Inv, NEW p \in Proc, work[p].pc \in {"driving", "resumed"},
         NEW status, NEW says, Leave(p, status, says)
  PROVE  Wrote(p, status, Nobody, Its(p).delivery)
<1>1. work[p].id \in Proc /\ Its(p) \in Turn BY AtWork DEF Owning
<1> DEFINE r == [Its(p) EXCEPT !.status = status, !.holder = Nobody, !.says = says]
<1>2. r.status = status /\ r.holder = Nobody /\ r.delivery = Its(p).delivery
  BY <1>1 DEF Turn
<1>3. SetTurn(p, r) BY DEF Leave
<1> HIDE DEF r
<1> QED BY <1>1, <1>2, <1>3, RowOf

\* A turn that is noted has its delivery written, and nothing else.
LEMMA NotedWrites ==
  ASSUME Inv, NEW p \in Proc, work[p].pc # "idle", work[p].id # Nobody, Noted(p)
  PROVE  \E d \in {"sent", "failed"} : Wrote(p, Its(p).status, Its(p).holder, d)
<1>1. work[p].id \in Proc /\ Its(p) \in Turn BY AtWork
<1> DEFINE d == IF work[p].arrived THEN "sent" ELSE "failed"
           r == [Its(p) EXCEPT !.delivery = d]
<1>2. d \in {"sent", "failed"} OBVIOUS
<1>3. SetTurn(p, r) BY DEF Noted
<1> HIDE DEF d
<1>4. r.status = Its(p).status /\ r.holder = Its(p).holder /\ r.delivery = d
  BY <1>1 DEF Turn
<1> HIDE DEF r
<1> QED BY <1>1, <1>2, <1>3, <1>4, RowOf

\* A turn that is created is running, of the process that creates it.
LEMMA CreateWrites ==
  ASSUME Inv, NEW p \in Proc, At(p, "fresh"), Create(p), Its(p).status = "absent"
  PROVE  Wrote(p, "running", p, "pending")
<1>1. work[p].id \in Proc BY AtWork DEF Owning, At
<1> DEFINE r == [NoTurn EXCEPT !.status = "running", !.holder = p]
<1>2. r.status = "running" /\ r.holder = p /\ r.delivery = "pending" BY DEF NoTurn
<1>3. SetTurn(p, r) BY DEF Create
<1> HIDE DEF r
<1> QED BY <1>1, <1>2, <1>3, RowOf DEF At

\* So is one that is resumed.
LEMMA ResumeWrites ==
  ASSUME Inv, NEW p \in Proc, Resume(p), Its(p).status = "owed"
  PROVE  \E d : Wrote(p, "running", p, d)
<1>1. work[p].id \in Proc /\ Its(p) \in Turn BY AtWork DEF Owning, At, Resume
<1>2. PICK d : SetTurn(p, [Its(p) EXCEPT !.status = "running", !.holder = p,
                                         !.delivery = d])
  BY DEF Resume
<1> DEFINE r == [Its(p) EXCEPT !.status = "running", !.holder = p, !.delivery = d]
<1>3. r.status = "running" /\ r.holder = p /\ r.delivery = d BY <1>1 DEF Turn
<1>4. SetTurn(p, r) BY <1>2
<1> HIDE DEF r
<1> QED BY <1>1, <1>3, <1>4, RowOf DEF At, Resume

\* The moves of a process, field by field.
LEMMA StepFields ==
  ASSUME Inv, NEW p \in Proc, NEW w, work' = [work EXCEPT ![p] = w]
  PROVE  Alone(p) /\ work'[p] = w
BY DEF Inv, TypeOK, Alone

\* To another place.
LEMMA GoesFields ==
  ASSUME Inv, NEW p \in Proc, NEW pc, Goes(p, pc)
  PROVE  MovesTo(p, pc) /\ Keeps(p) /\ work'[p].says = work[p].says
<1>1. work \in [Proc -> Work] /\ work[p] \in Work BY DEF Inv, TypeOK
<1> DEFINE w == [work[p] EXCEPT !.pc = pc]
<1>2. work' = [work EXCEPT ![p] = w] BY <1>1 DEF Goes
<1>3. /\ w.pc = pc /\ w.occ = work[p].occ /\ w.answer = work[p].answer
      /\ w.id = work[p].id /\ w.says = work[p].says
  BY <1>1 DEF Work
<1> HIDE DEF w
<1> QED BY <1>2, <1>3, StepFields DEF MovesTo, Keeps

\* To the end of the run.
LEMMA OverFields ==
  ASSUME Inv, NEW p \in Proc, Over(p)
  PROVE  Alone(p) /\ work'[p] = Idle /\ work'[p].pc = "idle" /\ work'[p].occ = Nobody
<1>1. Alone(p) /\ work'[p] = Idle BY StepFields DEF Over
<1>2. Idle.pc = "idle" /\ Idle.occ = Nobody BY DEF Idle
<1> QED BY <1>1, <1>2

\* To the outcome of a run that threw.
LEMMA ThrownFields ==
  ASSUME Inv, NEW p \in Proc, Thrown(p)
  PROVE  MovesTo(p, "outcome") /\ work'[p].id = Nobody /\ work'[p].says = TRUE
<1>1. work \in [Proc -> Work] /\ work[p] \in Work BY DEF Inv, TypeOK
<1> DEFINE w == [work[p] EXCEPT !.pc = "outcome", !.id = Nobody, !.says = TRUE]
<1>2. work' = [work EXCEPT ![p] = w] BY <1>1 DEF Thrown
<1>3. /\ w.pc = "outcome" /\ w.occ = work[p].occ /\ w.answer = work[p].answer
      /\ w.id = Nobody /\ w.says = TRUE
  BY <1>1 DEF Work
<1> HIDE DEF w
<1> QED BY <1>2, <1>3, StepFields DEF MovesTo

\* To the outcome of a turn that is done.
LEMMA OutcomeFields ==
  ASSUME Inv, NEW p \in Proc, NEW says,
         work' = [work EXCEPT ![p].pc = "outcome", ![p].says = says]
  PROVE  MovesTo(p, "outcome") /\ Keeps(p) /\ work'[p].says = says
<1>1. work \in [Proc -> Work] /\ work[p] \in Work BY DEF Inv, TypeOK
<1> DEFINE w == [work[p] EXCEPT !.pc = "outcome", !.says = says]
<1>2. work' = [work EXCEPT ![p] = w] BY <1>1
<1>3. /\ w.pc = "outcome" /\ w.occ = work[p].occ /\ w.answer = work[p].answer
      /\ w.id = work[p].id /\ w.says = says
  BY <1>1 DEF Work
<1> HIDE DEF w
<1> QED BY <1>2, <1>3, StepFields DEF MovesTo, Keeps

\* To the note of what was sent.
LEMMA SentFields ==
  ASSUME Inv, NEW p \in Proc, NEW pc, NEW ok,
         work' = [work EXCEPT ![p].pc = pc, ![p].arrived = ok]
  PROVE  MovesTo(p, pc) /\ Keeps(p)
<1>1. work \in [Proc -> Work] /\ work[p] \in Work BY DEF Inv, TypeOK
<1> DEFINE w == [work[p] EXCEPT !.pc = pc, !.arrived = ok]
<1>2. work' = [work EXCEPT ![p] = w] BY <1>1
<1>3. /\ w.pc = pc /\ w.occ = work[p].occ /\ w.answer = work[p].answer
      /\ w.id = work[p].id
  BY <1>1 DEF Work
<1> HIDE DEF w
<1> QED BY <1>2, <1>3, StepFields DEF MovesTo, Keeps

\* To the answer the lane sends.
LEMMA AnswersFields ==
  ASSUME Inv, NEW p \in Proc, work' = [work EXCEPT ![p].pc = "sending", ![p].answer = TRUE]
  PROVE  /\ Alone(p) /\ Keeps(p) /\ work'[p].pc = "sending" /\ work'[p].answer
         /\ work'[p].occ = work[p].occ
<1>1. work \in [Proc -> Work] /\ work[p] \in Work BY DEF Inv, TypeOK
<1> DEFINE w == [work[p] EXCEPT !.pc = "sending", !.answer = TRUE]
<1>2. work' = [work EXCEPT ![p] = w] BY <1>1
<1>3. /\ w.pc = "sending" /\ w.occ = work[p].occ /\ w.answer = TRUE /\ w.id = work[p].id
  BY <1>1 DEF Work
<1> HIDE DEF w
<1> QED BY <1>2, <1>3, StepFields DEF Keeps

\* A beat finds a job due, or a turn that is owed.
LEMMA Found ==
  ASSUME Inv, NEW p \in Proc, Beat(p) \/ Nudge(p)
  PROVE  /\ StillOwner(p) /\ work[p].pc = "idle" /\ Alone(p) /\ ~work'[p].answer
         /\ UNCHANGED <<now, job, fire, turn, claim, hist>>
         /\ \/ /\ work'[p].pc = "due"
               /\ \E j \in FirstDue : work'[p].occ = <<j, job[j].next>>
            \/ /\ work'[p].pc = "taken"
               /\ \E o \in Owed : work'[p].occ = o
<1>1. /\ StillOwner(p) /\ work[p].pc = "idle"
      /\ UNCHANGED <<now, job, fire, turn, claim, hist>>
  BY DEF Beat, Nudge, At
<1>2. ASSUME NEW o \in Owed, LaneTakes(p, o)
      PROVE  Alone(p) /\ work'[p].pc = "taken" /\ work'[p].occ = o /\ ~work'[p].answer
  <2>1. PICK m \in Proc : work' = [work EXCEPT ![p] = [Idle EXCEPT
                            !.pc = "taken", !.occ = o, !.id = m]]
    BY <1>2 DEF LaneTakes
  <2> DEFINE w == [Idle EXCEPT !.pc = "taken", !.occ = o, !.id = m]
  <2>2. w.pc = "taken" /\ w.occ = o /\ ~w.answer BY DEF Idle
  <2>3. work' = [work EXCEPT ![p] = w] BY <2>1
  <2> HIDE DEF w
  <2> QED BY <2>2, <2>3, StepFields
<1>3. ASSUME NEW j \in FirstDue, work' = [work EXCEPT ![p] = [Idle EXCEPT
                                   !.pc = "due", !.occ = <<j, job[j].next>>]]
      PROVE  /\ Alone(p) /\ work'[p].pc = "due" /\ work'[p].occ = <<j, job[j].next>>
             /\ ~work'[p].answer
  <2> DEFINE w == [Idle EXCEPT !.pc = "due", !.occ = <<j, job[j].next>>]
  <2>1. w.pc = "due" /\ w.occ = <<j, job[j].next>> /\ ~w.answer BY DEF Idle
  <2>2. work' = [work EXCEPT ![p] = w] BY <1>3
  <2> HIDE DEF w
  <2> QED BY <2>1, <2>2, StepFields
<1>4. \/ \E o \in Owed : LaneTakes(p, o)
      \/ \E j \in FirstDue : work' = [work EXCEPT ![p] = [Idle EXCEPT
                               !.pc = "due", !.occ = <<j, job[j].next>>]]
  BY DEF Beat, Nudge
<1> QED BY <1>1, <1>2, <1>3, <1>4

----------------------------------------------------------------------------
(* Who holds a turn, and what no step takes back.                          *)

\* Where a process holds the turn of its occurrence.
Holding == {"driving", "resumed"}

\* A process that drives or has resumed a turn holds it.
Held ==
  \A p \in Proc : work[p].pc \in Holding =>
    Its(p).status = "running" /\ Its(p).holder = p

\* A process about to bind an occurrence has not bound it yet.
Unbinding == \A p \in Proc : At(p, "unbound") => fire[work[p].occ].turn # p

\* A turn that is done stays done, one that is told stays told, one that is there
\* stays there.
TurnsKept ==
  \A o \in Occ, m \in Proc :
    /\ turn[o][m].status = "done" =>
         /\ turn'[o][m].status = "done"
         /\ turn[o][m].delivery # "pending" => turn'[o][m].delivery # "pending"
    /\ turn[o][m].status # "absent" => turn'[o][m].status # "absent"

\* Of the steps that leave the turns alone.
LEMMA HeldAside ==
  ASSUME Held, NEW p \in Proc, Alone(p), work'[p].pc \notin Holding, turn' = turn
  PROVE  Held' /\ TurnsKept
BY DEF Held, Alone, Its, TurnsKept

\* Of the steps that write the row of a turn that nobody else holds.
LEMMA HeldWrote ==
  ASSUME Inv, Held, NEW p \in Proc, Alone(p), work[p].pc # "idle", work[p].id \in Proc,
         NEW status, NEW holder, NEW delivery, Wrote(p, status, holder, delivery),
         \/ Its(p).status \in {"absent", "owed"}
         \/ work[p].pc \in Holding
         \/ status = Its(p).status /\ holder = Its(p).holder /\ delivery # "pending",
         status # "absent" \/ Its(p).status = "absent",
         work'[p].pc \in Holding =>
           MovesTo(p, work'[p].pc) /\ Keeps(p) /\ status = "running" /\ holder = p
  PROVE  Held' /\ TurnsKept
<1>1. work[p].occ \in Occ BY AtWork
<1>2. ASSUME NEW q \in Proc, work'[q].pc \in Holding
      PROVE  (Its(q).status = "running" /\ Its(q).holder = q)'
  <2>1. CASE q = p BY <1>2, <2>1 DEF MovesTo, Keeps, Its, Wrote
  <2>2. CASE q # p
    <3>1. work'[q] = work[q] BY <2>2 DEF Alone
    <3>2. work[q].occ \in Occ /\ work[q].id \in Proc
      BY <1>2, <3>1, AtWork DEF Owning, Holding
    <3>3. Its(q).status = "running" /\ Its(q).holder = q BY <1>2, <3>1 DEF Held
    <3>4. CASE work[q].occ # work[p].occ \/ work[q].id # work[p].id
      <4>1. turn'[work[q].occ][work[q].id] = turn[work[q].occ][work[q].id]
        BY <3>2, <3>4 DEF Wrote
      <4> QED BY <3>1, <3>3, <4>1 DEF Its
    <3>5. CASE work[q].occ = work[p].occ /\ work[q].id = work[p].id
      <4>1. Its(q) = Its(p) BY <3>5 DEF Its
      <4>2. ~(work[p].pc \in Holding) BY <2>2, <3>3, <4>1 DEF Held
      <4>3. status = Its(p).status /\ holder = Its(p).holder BY <3>3, <4>1, <4>2
      <4> QED BY <3>1, <3>3, <3>5, <4>1, <4>3 DEF Its, Wrote
    <3> QED BY <3>4, <3>5
  <2> QED BY <2>1, <2>2
<1>3. Held' BY <1>2 DEF Held
<1>4. ASSUME NEW o \in Occ, NEW m \in Proc
      PROVE  /\ turn[o][m].status = "done" =>
                  /\ turn'[o][m].status = "done"
                  /\ turn[o][m].delivery # "pending" => turn'[o][m].delivery # "pending"
             /\ turn[o][m].status # "absent" => turn'[o][m].status # "absent"
  <2>1. CASE o # work[p].occ \/ m # work[p].id BY <2>1 DEF Wrote
  <2>2. CASE o = work[p].occ /\ m = work[p].id
    <3>1. Its(p) = turn[o][m] BY <2>2 DEF Its
    <3>2. work[p].pc \in Holding => Its(p).status = "running" BY DEF Held
    <3> QED BY <2>2, <3>1, <3>2 DEF Wrote
  <2> QED BY <2>1, <2>2
<1>5. TurnsKept BY <1>4 DEF TurnsKept
<1> QED BY <1>3, <1>5

\* No step of a run takes a turn from the one who holds it, or takes a word back.
LEMMA HeldStep == Inv /\ Held /\ [Next]_vars => Held' /\ TurnsKept
<1> SUFFICES ASSUME Inv, Held, [Next]_vars PROVE Held' /\ TurnsKept OBVIOUS
<1>1. ASSUME UNCHANGED <<turn, work>> PROVE Held' /\ TurnsKept
  BY <1>1 DEF Held, Its, TurnsKept
<1>2. ASSUME NEW p \in Proc, Beat(p) \/ Nudge(p) PROVE Held' /\ TurnsKept
  BY <1>2, Found, HeldAside DEF Holding
<1>3. ASSUME NEW p \in Proc, Claim(p) \/ Bind(p) PROVE Held' /\ TurnsKept
  <2>1. Alone(p) /\ work'[p].pc \in {"unbound", "bound", "fresh"}
    BY <1>3 DEF Claim, Bind, Alone, Inv, TypeOK, Work
  <2> QED BY <1>3, <2>1, HeldAside DEF Claim, Bind, Holding
<1>4. ASSUME NEW p \in Proc, work[p].pc # "idle", turn' = turn,
             \/ Over(p) \/ Thrown(p)
             \/ (\E pc \in Pc \ Holding : Goes(p, pc))
             \/ (\E says : work' = [work EXCEPT ![p].pc = "outcome", ![p].says = says])
             \/ (\E pc \in {"told", "noting"}, ok \in BOOLEAN :
                   work' = [work EXCEPT ![p].pc = pc, ![p].arrived = ok])
      PROVE  Held' /\ TurnsKept
  <2>1. Alone(p) /\ work'[p].pc \notin Holding
    <3>1. CASE Over(p) \/ Thrown(p) BY <3>1, OverFields, ThrownFields DEF MovesTo, Holding
    <3>2. ASSUME NEW pc \in Pc \ Holding, Goes(p, pc) PROVE Alone(p) /\ work'[p].pc = pc
      BY <3>2, GoesFields DEF MovesTo
    <3>3. ASSUME NEW says, work' = [work EXCEPT ![p].pc = "outcome", ![p].says = says]
          PROVE  Alone(p) /\ work'[p].pc \notin Holding
      BY <3>3, OutcomeFields DEF MovesTo, Holding
    <3>4. ASSUME NEW pc \in {"told", "noting"}, NEW ok \in BOOLEAN,
                 work' = [work EXCEPT ![p].pc = pc, ![p].arrived = ok]
          PROVE  Alone(p) /\ work'[p].pc \notin Holding
      BY <3>4, SentFields DEF MovesTo, Holding
    <3> QED BY <1>4, <3>1, <3>2, <3>3, <3>4
  <2> QED BY <1>4, <2>1, HeldAside
<1>5. ASSUME NEW p \in Proc,
             \/ Resolve(p) \/ Fail(p) \/ Judge(p) \/ Settle(p) \/ Mark(p) \/ LaneFail(p)
             \/ \E b \in BOOLEAN : Deliver(p, b) \/ LaneSend(p, b)
      PROVE  Held' /\ TurnsKept
  <2>1. work[p].pc # "idle" /\ turn' = turn
    BY <1>5 DEF Resolve, Fail, Judge, Settle, Mark, LaneFail, Deliver, LaneSend, At
  <2> QED
    BY <1>4, <1>5, <2>1
    DEF Resolve, Fail, Judge, Settle, Mark, LaneFail, Deliver, LaneSend, Pc, Holding
<1>6. ASSUME NEW p \in Proc, Create(p) PROVE Held' /\ TurnsKept
  <2>1. At(p, "fresh") /\ work[p].pc # "idle" /\ work[p].id \in Proc
    BY <1>6, AtWork DEF Create, At, Owning
  <2>2. CASE Its(p).status = "absent"
    <3>1. Wrote(p, "running", p, "pending") BY <1>6, <2>1, <2>2, CreateWrites
    <3>2. Goes(p, "driving") BY <1>6, <2>2 DEF Create
    <3>3. MovesTo(p, "driving") /\ Keeps(p) BY <3>2, GoesFields
    <3> QED BY <2>1, <2>2, <3>1, <3>3, HeldWrote DEF MovesTo
  <2>3. CASE Its(p).status # "absent"
    BY <1>4, <1>6, <2>1, <2>3 DEF Create
  <2> QED BY <2>2, <2>3
<1>7. ASSUME NEW p \in Proc, work[p].pc \in Holding, Alone(p), work'[p].pc \notin Holding,
             NEW status \in {"owed", "done"}, NEW says, Leave(p, status, says)
      PROVE  Held' /\ TurnsKept
  <2>1. Wrote(p, status, Nobody, Its(p).delivery) BY <1>7, LeaveWrites DEF Holding
  <2>2. work[p].pc # "idle" /\ work[p].id \in Proc BY <1>7, AtWork DEF Holding, Owning
  <2> QED BY <1>7, <2>1, <2>2, HeldWrote
<1>8. ASSUME NEW p \in Proc, Yield(p) \/ Suspend(p) \/ \E b \in BOOLEAN : Finish(p, b)
      PROVE  Held' /\ TurnsKept
  <2>1. work[p].pc \in Holding /\ work[p].pc # "idle"
    BY <1>8 DEF Yield, Suspend, Finish, At, Holding
  <2>2. \E status \in {"owed", "done"}, says \in BOOLEAN : Leave(p, status, says)
    BY <1>8 DEF Yield, Suspend, Finish
  <2>3. Alone(p) /\ work'[p].pc \notin Holding
    <3>1. CASE Yield(p) \/ Suspend(p)
      <4>1. Over(p) \/ Goes(p, "handed") BY <3>1 DEF Yield, Suspend
      <4> QED BY <4>1, GoesFields, OverFields DEF MovesTo, Holding
    <3>2. ASSUME NEW b \in BOOLEAN, Finish(p, b)
          PROVE  Alone(p) /\ work'[p].pc \notin Holding
      <4>1. work' = [work EXCEPT ![p].pc = "outcome", ![p].says = b] BY <3>2 DEF Finish
      <4>2. MovesTo(p, "outcome") BY <4>1, OutcomeFields
      <4> QED BY <4>2 DEF MovesTo, Holding
    <3> QED BY <1>8, <3>1, <3>2
  <2> QED BY <1>7, <2>1, <2>2, <2>3
<1>9. ASSUME NEW p \in Proc, NEW b \in BOOLEAN, LaneYield(p, b) \/ LaneFinish(p, b)
      PROVE  Held' /\ TurnsKept
  <2>1. work[p].pc \in Holding /\ work[p].pc # "idle"
    BY <1>9 DEF LaneYield, LaneFinish, At, Holding
  <2>2. \E status \in {"owed", "done"}, says \in BOOLEAN : Leave(p, status, says)
    BY <1>9 DEF LaneYield, LaneFinish
  <2>3. Alone(p) /\ work'[p].pc \notin Holding
    <3>1. CASE Over(p) \/ Goes(p, "sending")
      BY <3>1, GoesFields, OverFields DEF MovesTo, Holding
    <3>2. CASE work' = [work EXCEPT ![p].pc = "sending", ![p].answer = TRUE]
      BY <3>2, AnswersFields DEF Holding
    <3> QED BY <1>9, <3>1, <3>2 DEF LaneYield, LaneFinish
  <2> QED BY <1>7, <2>1, <2>2, <2>3
<1>10. ASSUME NEW p \in Proc, Record(p) \/ LaneNote(p) PROVE Held' /\ TurnsKept
  <2>1. work[p].pc # "idle" /\ work[p].pc \notin Holding
        /\ Alone(p) /\ work'[p].pc \notin Holding
    BY <1>10, GoesFields, OverFields DEF Record, LaneNote, At, MovesTo, Holding
  <2>2. CASE turn' = turn BY <2>1, <2>2, HeldAside
  <2>3. CASE work[p].id # Nobody /\ Noted(p)
    <3>1. work[p].id \in Proc /\ Its(p) \in Turn BY <2>1, <2>3, AtWork
    <3>2. PICK d \in {"sent", "failed"} : Wrote(p, Its(p).status, Its(p).holder, d)
      BY <2>1, <2>3, NotedWrites
    <3> QED BY <2>1, <3>1, <3>2, HeldWrote
  <2>4. LaneNote(p) => work[p].id # Nobody
    BY AtWork, Constants DEF LaneNote, At, Owning
  <2> QED BY <1>10, <2>2, <2>3, <2>4 DEF Record, LaneNote
<1>11. ASSUME NEW p \in Proc, Resume(p) PROVE Held' /\ TurnsKept
  <2>1. work[p].pc # "idle" /\ work[p].id \in Proc
    BY <1>11, AtWork DEF Resume, At, Owning
  <2>2. CASE Its(p).status = "owed"
    <3>1. PICK d : Wrote(p, "running", p, d) BY <1>11, <2>2, ResumeWrites
    <3>2. MovesTo(p, "resumed") /\ Keeps(p) BY <1>11, <2>2, GoesFields DEF Resume
    <3> QED BY <2>1, <2>2, <3>1, <3>2, HeldWrote DEF MovesTo
  <2>3. CASE Its(p).status # "owed" BY <1>4, <1>11, <2>1, <2>3 DEF Resume
  <2> QED BY <2>2, <2>3
<1>12. ASSUME NEW p \in Proc, Crash(p) PROVE Held' /\ TurnsKept
  <2>1. \A q \in Proc : work'[q].pc \in Holding => q # p /\ work'[q] = work[q]
    BY <1>12 DEF Crash, Inv, TypeOK, Idle, Holding
  <2>2. ASSUME NEW o \in Occ, NEW m \in Proc
        PROVE  /\ turn'[o][m].status = turn[o][m].status
               /\ turn'[o][m].delivery = turn[o][m].delivery
               /\ turn[o][m].holder # p => turn'[o][m] = turn[o][m]
    <3>1. turn[o][m] \in Turn BY DEF Inv, TypeOK
    <3>2. turn'[o][m] = IF turn[o][m].holder = p
                        THEN [turn[o][m] EXCEPT !.holder = Nobody] ELSE turn[o][m]
      BY <1>12 DEF Crash
    <3> QED BY <3>1, <3>2 DEF Turn
  <2>3. ASSUME NEW q \in Proc, work'[q].pc \in Holding
        PROVE  (Its(q).status = "running" /\ Its(q).holder = q)'
    <3>1. work[q].occ \in Occ /\ work[q].id \in Proc /\ q # p /\ work'[q] = work[q]
      BY <2>1, <2>3, AtWork DEF Holding, Owning
    <3>2. Its(q).status = "running" /\ Its(q).holder = q BY <2>3, <3>1 DEF Held
    <3> QED BY <2>2, <3>1, <3>2 DEF Its
  <2>4. Held' BY <2>3 DEF Held
  <2>5. TurnsKept BY <2>2 DEF TurnsKept
  <2> QED BY <2>4, <2>5
<1>13. ASSUME NEW p \in Proc, Boot(p) PROVE Held' /\ TurnsKept
  <2>1. work' = work BY <1>13 DEF Boot
  <2>2. ASSUME NEW o \in Occ, NEW m \in Proc
        PROVE  \/ turn'[o][m] = turn[o][m]
               \/ /\ turn[o][m].status = "running" /\ turn[o][m].holder = Nobody
                  /\ turn'[o][m].status = "owed"
    <3>1. turn[o][m] \in Turn BY DEF Inv, TypeOK
    <3>2. turn'[o][m] = IF turn[o][m].status = "running" /\ turn[o][m].holder = Nobody
                        THEN [turn[o][m] EXCEPT !.status = "owed"] ELSE turn[o][m]
      BY <1>13 DEF Boot, Reclaimed
    <3> QED BY <3>1, <3>2 DEF Turn
  <2>3. ASSUME NEW q \in Proc, work[q].pc \in Holding
        PROVE  (Its(q).status = "running" /\ Its(q).holder = q)'
    <3>1. work[q].occ \in Occ /\ work[q].id \in Proc
      BY <2>3, AtWork DEF Holding, Owning
    <3>2. Its(q).status = "running" /\ Its(q).holder = q BY <2>3 DEF Held
    <3> QED BY <2>1, <2>2, <3>1, <3>2, Constants DEF Its
  <2>4. Held' BY <2>1, <2>3 DEF Held
  <2>5. TurnsKept BY <2>2 DEF TurnsKept
  <2> QED BY <2>4, <2>5
<1> QED
  <2>1. CASE UNCHANGED vars BY <1>1, <2>1 DEF vars
  <2>2. CASE Tick BY <1>1, <2>2 DEF Tick
  <2>3. ASSUME NEW p \in Proc, Run(p) PROVE Held' /\ TurnsKept
    BY <2>3, <1>3, <1>5, <1>6, <1>8, <1>9, <1>10, <1>11 DEF Run
  <2> QED BY <2>1, <2>2, <2>3, <1>2, <1>12, <1>13 DEF Next

----------------------------------------------------------------------------
(* Without a lost claim the schedule leaves nothing behind.                *)

\* Where the scheduler's run has its occurrence still ahead of the schedule.
Scheduling == {"due", "unbound", "bound", "fresh", "driving", "handed", "outcome",
               "delivering", "told", "settling", "marking"}

\* The schedule of a job stands at the occurrence.
Stands(o) == o[2] = job[o[1]].next /\ job[o[1]].active

\* Only the owner works, on the occurrence the schedule stands at, and it moves
\* the schedule when the fire is settled.
InOrder ==
  ~hist.stolen =>
    /\ \A p \in Proc : work[p].pc # "idle" => StillOwner(p)
    /\ \A p \in Proc : work[p].pc \in Scheduling => Stands(work[p].occ)
    /\ \A p \in Proc : At(p, "marking") => fire[work[p].occ].settled
    /\ \A o \in Occ : fire[o].claimed /\ ~fire[o].settled => Stands(o)

\* The fires a step of p may change: it begins the one it has found due, and
\* settles any.
Fires(p) ==
  \A o \in Occ : /\ fire[o].settled => fire'[o].settled
                 /\ fire'[o].claimed => fire[o].claimed \/ (At(p, "due") /\ o = work[p].occ)

\* Of a run that goes on, or is over.
LEMMA OrderedRun ==
  ASSUME Inv, InOrder, NEW p \in Proc, Alone(p), work[p].pc # "idle", Fires(p),
         UNCHANGED <<job, claim>>, hist'.stolen = hist.stolen,
         \/ work'[p].pc = "idle"
         \/ /\ work'[p].occ = work[p].occ
            /\ work'[p].pc \in Scheduling => work[p].pc \in Scheduling
            /\ work'[p].pc = "marking" => fire'[work[p].occ].settled
  PROVE  InOrder'
<1> SUFFICES ASSUME ~hist.stolen
             PROVE  (/\ \A q \in Proc : work[q].pc # "idle" => StillOwner(q)
                     /\ \A q \in Proc : work[q].pc \in Scheduling => Stands(work[q].occ)
                     /\ \A q \in Proc : At(q, "marking") => fire[work[q].occ].settled
                     /\ \A o \in Occ : fire[o].claimed /\ ~fire[o].settled => Stands(o))'
  BY DEF InOrder
<1>1. \A q \in Proc : work'[q].pc # "idle" => StillOwner(q)'
  BY DEF InOrder, Alone, StillOwner
<1>2. \A q \in Proc : work'[q].pc \in Scheduling => Stands(work[q].occ)'
  BY DEF InOrder, Alone, Scheduling, Stands
<1>3. \A q \in Proc : At(q, "marking")' => fire'[work'[q].occ].settled
  <2>1. ASSUME NEW q \in Proc, q # p, At(q, "marking")'
        PROVE  fire'[work'[q].occ].settled
    <3>1. work'[q] = work[q] BY <2>1 DEF Alone
    <3>2. At(q, "marking") BY <2>1, <3>1 DEF At
    <3>3. work[q].occ \in Occ BY <3>2, AtWork DEF At
    <3> QED BY <3>1, <3>2, <3>3 DEF InOrder, Fires
  <2> QED BY <2>1 DEF At
<1>4. \A o \in Occ : fire'[o].claimed /\ ~fire'[o].settled => Stands(o)'
  BY DEF InOrder, Fires, Stands, At, Scheduling
<1> QED BY <1>1, <1>2, <1>3, <1>4

\* The only step that moves a schedule leaves no other occurrence of the job.
LEMMA OrderedMark == ASSUME Inv, InOrder, NEW p \in Proc, Mark(p) PROVE InOrder'
<1>1. Alone(p) /\ work'[p].pc = "idle" BY OverFields DEF Mark
<1>2. hist' = hist /\ fire' = fire /\ claim' = claim BY DEF Mark
<1>3. At(p, "marking") /\ work[p].pc # "idle" /\ work[p].occ \in Occ
  BY AtWork DEF Mark, At
<1> SUFFICES ASSUME ~hist.stolen PROVE InOrder' BY <1>2 DEF InOrder
<1>4. \A q \in Proc : work'[q].pc = "idle"
  BY <1>1, <1>3 DEF InOrder, Alone, StillOwner
<1>5. ASSUME NEW o \in Occ, fire[o].claimed, ~fire[o].settled PROVE Stands(o)'
  <2>1. Stands(o) BY <1>5 DEF InOrder
  <2>2. Stands(work[p].occ) /\ fire[work[p].occ].settled
    BY <1>3 DEF InOrder, At, Scheduling
  <2>3. o[1] # work[p].occ[1]
    <3>1. o = <<o[1], o[2]>> /\ work[p].occ = <<work[p].occ[1], work[p].occ[2]>>
      BY <1>3 DEF Occ
    <3> QED BY <1>5, <2>1, <2>2, <3>1 DEF Stands
  <2>4. o[1] \in Job /\ job \in [Job -> JobRow] BY DEF Occ, Inv, TypeOK
  <2>5. job'[o[1]] = job[o[1]] BY <2>3, <2>4 DEF Mark
  <2> QED BY <2>1, <2>5 DEF Stands
<1> QED BY <1>2, <1>4, <1>5 DEF InOrder, At, Scheduling

\* No step breaks the order.
LEMMA OrderedStep == Inv /\ InOrder /\ [Next]_vars => InOrder'
<1> SUFFICES ASSUME Inv, InOrder, [Next]_vars PROVE InOrder' OBVIOUS
<1>1. ASSUME UNCHANGED <<job, fire, claim, work, hist>> PROVE InOrder'
  BY <1>1 DEF InOrder, StillOwner, At, Stands
<1>2. ASSUME NEW p \in Proc, Beat(p) \/ Nudge(p) PROVE InOrder'
  <2>1. /\ StillOwner(p) /\ Alone(p) /\ UNCHANGED <<job, fire, claim, hist>>
        /\ \/ /\ work'[p].pc = "due"
              /\ \E j \in FirstDue : work'[p].occ = <<j, job[j].next>>
           \/ work'[p].pc = "taken"
    BY <1>2, Found
  <2>2. \A o : Stands(o)' <=> Stands(o) BY <2>1 DEF Stands
  <2>3. work'[p].pc \in Scheduling => Stands(work'[p].occ)
    BY <2>1 DEF Stands, FirstDue, DueJobs, Scheduling
  <2> QED BY <2>1, <2>2, <2>3 DEF InOrder, Alone, At, StillOwner
<1>3. ASSUME NEW p \in Proc, work[p].pc # "idle", UNCHANGED <<job, claim>>,
             hist'.stolen = hist.stolen, fire' = fire,
             \/ Over(p)
             \/ Thrown(p) /\ work[p].pc \in Scheduling
             \/ \E pc \in {"fresh", "driving", "handed", "outcome", "delivering", "told",
                           "settling"} :
                  MovesTo(p, pc) /\ work[p].pc \in Scheduling
             \/ \E pc \in {"resumed", "sending", "noting"} : MovesTo(p, pc)
      PROVE  InOrder'
  <2>1. Fires(p) BY <1>3 DEF Fires
  <2>2. /\ Alone(p)
        /\ \/ work'[p].pc = "idle"
           \/ /\ work'[p].occ = work[p].occ
              /\ work'[p].pc \in Scheduling => work[p].pc \in Scheduling
              /\ work'[p].pc # "marking"
    <3>1. CASE Over(p) BY <3>1, OverFields
    <3>2. CASE Thrown(p) /\ work[p].pc \in Scheduling BY <3>2, ThrownFields DEF MovesTo
    <3>3. CASE \E pc \in {"fresh", "driving", "handed", "outcome", "delivering", "told",
                          "settling"} :
                  MovesTo(p, pc) /\ work[p].pc \in Scheduling
      BY <3>3 DEF MovesTo
    <3>4. CASE \E pc \in {"resumed", "sending", "noting"} : MovesTo(p, pc)
      BY <3>4 DEF MovesTo, Scheduling
    <3> QED BY <1>3, <3>1, <3>2, <3>3, <3>4
  <2> QED BY <1>3, <2>1, <2>2, OrderedRun
<1>4. \A o \in Occ : fire[o] \in Fire /\ hist \in History BY DEF Inv, TypeOK
<1>5. ASSUME NEW p \in Proc, Claim(p) \/ Bind(p) PROVE InOrder'
  <2>1. /\ Alone(p) /\ work'[p].pc \in {"unbound", "bound", "fresh"}
        /\ work'[p].occ = work[p].occ
    BY <1>5 DEF Claim, Bind, Alone, Inv, TypeOK, Work
  <2>2. work[p].pc \in {"due", "unbound"} BY <1>5 DEF Claim, Bind, At
  <2>3. work[p].occ \in Occ BY <2>2, AtWork
  <2>4. Fires(p)
    <3>1. CASE Claim(p) BY <2>3, <3>1, <1>4 DEF Claim, Fires, At, Inv, TypeOK, Fire
    <3>2. CASE Bind(p) BY <2>3, <3>2, <1>4 DEF Bind, Fires, At, Inv, TypeOK, Fire
    <3> QED BY <1>5, <3>1, <3>2
  <2> QED BY <1>5, <2>1, <2>2, <2>4, OrderedRun DEF Claim, Bind, Scheduling
<1>6. ASSUME NEW p \in Proc, Settle(p) PROVE InOrder'
  <2>1. At(p, "settling") /\ work[p].pc # "idle" /\ work[p].occ \in Occ
    BY <1>6, AtWork DEF Settle, At
  <2>2. Fires(p) /\ fire'[work[p].occ].settled
    BY <1>6, <2>1, <1>4 DEF Settle, Settled, Fires, Inv, TypeOK, Fire
  <2>3. MovesTo(p, "marking") BY <1>6, GoesFields DEF Settle
  <2> QED BY <1>6, <2>1, <2>2, <2>3, OrderedRun DEF Settle, MovesTo, Scheduling, At
<1>7. ASSUME NEW p \in Proc, Resolve(p) \/ Judge(p) PROVE InOrder'
  <2>1. work[p].pc \in Scheduling /\ work[p].pc # "idle"
        /\ UNCHANGED <<job, fire, claim, hist>>
    BY <1>7 DEF Resolve, Judge, At, Scheduling
  <2>2. \/ Over(p) \/ (\E pc \in {"fresh", "settling", "delivering"} : Goes(p, pc))
        \/ \E says : work' = [work EXCEPT ![p].pc = "outcome", ![p].says = says]
    BY <1>7 DEF Resolve, Judge
  <2>3. \/ Over(p) \/ (\E pc \in {"fresh", "settling", "delivering"} : MovesTo(p, pc))
        \/ MovesTo(p, "outcome")
    BY <2>2, GoesFields, OutcomeFields
  <2> QED BY <1>3, <2>1, <2>3
<1>8. ASSUME NEW p \in Proc, Create(p) PROVE InOrder'
  <2>1. work[p].pc \in Scheduling /\ work[p].pc # "idle"
        /\ UNCHANGED <<job, fire, claim, hist>>
    BY <1>8 DEF Create, At, Scheduling
  <2>2. Thrown(p) \/ MovesTo(p, "driving") BY <1>8, GoesFields DEF Create
  <2> QED BY <1>3, <2>1, <2>2
<1>9. ASSUME NEW p \in Proc, Yield(p) \/ Suspend(p) \/ \E b \in BOOLEAN : Finish(p, b)
      PROVE  InOrder'
  <2>1. work[p].pc \in Scheduling /\ work[p].pc # "idle"
        /\ UNCHANGED <<job, fire, claim, hist>>
    BY <1>9 DEF Yield, Suspend, Finish, At, Scheduling
  <2>2. \/ Over(p) \/ Goes(p, "handed")
        \/ \E says : work' = [work EXCEPT ![p].pc = "outcome", ![p].says = says]
    BY <1>9 DEF Yield, Suspend, Finish
  <2>3. Over(p) \/ MovesTo(p, "handed") \/ MovesTo(p, "outcome")
    BY <2>2, GoesFields, OutcomeFields
  <2> QED BY <1>3, <2>1, <2>3
<1>10. ASSUME NEW p \in Proc, Fail(p) \/ LaneFail(p) PROVE InOrder'
  <2>1. work[p].pc # "idle" /\ UNCHANGED <<job, fire, claim>>
        /\ (Over(p) \/ (Thrown(p) /\ work[p].pc \in Scheduling))
    BY <1>10 DEF Fail, LaneFail, At, Scheduling
  <2>2. hist'.stolen = hist.stolen
    BY <1>10, <1>4 DEF Fail, LaneFail, Happens, Inv, TypeOK, History
  <2> QED BY <1>3, <1>10, <2>1, <2>2 DEF Fail, LaneFail
<1>11. ASSUME NEW p \in Proc, NEW b \in BOOLEAN, Deliver(p, b) \/ LaneSend(p, b)
       PROVE  InOrder'
  <2>1. /\ work[p].pc # "idle" /\ UNCHANGED <<job, fire, claim>>
        /\ Deliver(p, b) => work[p].pc \in Scheduling
    BY <1>11 DEF Deliver, LaneSend, At, Scheduling
  <2>2. hist'.stolen = hist.stolen
    <3>1. hist \in History BY DEF Inv, TypeOK
    <3> QED BY <1>11, <3>1 DEF Deliver, LaneSend, History
  <2>3. Deliver(p, b) => MovesTo(p, "told") BY SentFields DEF Deliver
  <2>4. LaneSend(p, b) => MovesTo(p, "noting") BY SentFields DEF LaneSend
  <2>5. CASE Deliver(p, b) BY <1>3, <2>1, <2>2, <2>3, <2>5
  <2>6. CASE LaneSend(p, b) BY <1>3, <2>1, <2>2, <2>4, <2>6
  <2> QED BY <1>11, <2>5, <2>6
<1>12. ASSUME NEW p \in Proc, Record(p) \/ LaneNote(p) \/ Resume(p) PROVE InOrder'
  <2>1. /\ work[p].pc # "idle" /\ UNCHANGED <<job, fire, claim, hist>>
        /\ Record(p) => work[p].pc \in Scheduling
    BY <1>12 DEF Record, LaneNote, Resume, At, Scheduling
  <2>2. (Record(p) /\ MovesTo(p, "settling")) \/ Over(p) \/ MovesTo(p, "resumed")
    BY <1>12, GoesFields DEF Record, LaneNote, Resume
  <2> QED BY <1>3, <2>1, <2>2
<1>13. ASSUME NEW p \in Proc, NEW b \in BOOLEAN, LaneYield(p, b) \/ LaneFinish(p, b)
       PROVE  InOrder'
  <2>1. work[p].pc # "idle" /\ UNCHANGED <<job, fire, claim, hist>>
    BY <1>13 DEF LaneYield, LaneFinish, At
  <2>2. \/ Over(p) \/ Goes(p, "sending")
        \/ work' = [work EXCEPT ![p].pc = "sending", ![p].answer = TRUE]
    BY <1>13 DEF LaneYield, LaneFinish
  <2>3. CASE Over(p) \/ Goes(p, "sending") BY <1>3, <2>1, <2>3, GoesFields
  <2>4. CASE work' = [work EXCEPT ![p].pc = "sending", ![p].answer = TRUE]
    <3>1. Fires(p) BY <2>1 DEF Fires
    <3>2. Alone(p) /\ work'[p].pc = "sending" /\ work'[p].occ = work[p].occ
      BY <2>4, AnswersFields
    <3> QED BY <2>1, <3>1, <3>2, OrderedRun DEF Scheduling
  <2> QED BY <2>2, <2>3, <2>4
<1>14. ASSUME NEW p \in Proc, Crash(p) PROVE InOrder'
  <2>1. /\ \A q \in Proc : work'[q].pc # "idle" => q # p /\ work'[q] = work[q]
        /\ UNCHANGED <<job, fire>>
    BY <1>14 DEF Crash, Inv, TypeOK, Idle
  <2>2. hist'.stolen = hist.stolen
    <3>1. hist \in History BY DEF Inv, TypeOK
    <3> QED BY <1>14, <3>1 DEF Crash, Happens, History
  <2>3. \A q \in Proc : claim = q /\ q # p => claim' = q BY <1>14 DEF Crash
  <2>4. \A o : Stands(o)' <=> Stands(o) BY <2>1 DEF Stands
  <2> QED BY <2>1, <2>2, <2>3, <2>4 DEF InOrder, StillOwner, At, Scheduling
<1>15. ASSUME NEW p \in Proc, Boot(p) PROVE InOrder'
  <2>1. UNCHANGED <<job, fire, work>> BY <1>15 DEF Boot
  <2>2. (claim = Nobody /\ hist' = hist) \/ hist'.stolen
    <3>1. hist \in History BY DEF Inv, TypeOK
    <3> QED BY <1>15, <3>1 DEF Boot, History
  <2>3. CASE hist'.stolen BY <2>3 DEF InOrder
  <2>4. CASE claim = Nobody /\ hist' = hist
    <3>1. ~hist.stolen => \A q \in Proc : work[q].pc = "idle"
      BY <2>4, Constants DEF InOrder, StillOwner
    <3> QED BY <2>1, <2>4, <3>1 DEF InOrder, StillOwner, At, Stands, Scheduling
  <2> QED BY <2>2, <2>3, <2>4
<1> QED
  <2>1. CASE UNCHANGED vars BY <1>1, <2>1 DEF vars
  <2>2. CASE Tick BY <1>1, <2>2 DEF Tick
  <2>3. ASSUME NEW p \in Proc, Run(p) PROVE InOrder'
    BY <2>3, <1>5, <1>6, <1>7, <1>8, <1>9, <1>10, <1>11, <1>12, <1>13, OrderedMark DEF Run
  <2> QED BY <2>1, <2>2, <2>3, <1>2, <1>14, <1>15 DEF Next

\* The schedule does not leave behind an occurrence that was begun and is not
\* settled, while no live gateway loses its claim: whatever crashes between the
\* settlement of a fire and the mark on its job.
THEOREM NothingLeftCorrect == Spec => []NothingLeftBehind
<1>1. Init => InOrder
  BY Constants DEF Init, InOrder, Idle, At, Scheduling
<1>2. Inv /\ InOrder => NothingLeftBehind
  <2> SUFFICES ASSUME Inv, InOrder PROVE NothingLeftBehind OBVIOUS
  <2>1. ASSUME NEW o \in Occ, Stands(o) PROVE ~Passed(o)
    <3>1. job[o[1]] \in JobRow BY DEF Occ, Inv, TypeOK
    <3> QED BY <2>1, <3>1 DEF Stands, Passed, JobRow, Slot
  <2> QED BY <2>1 DEF InOrder, NothingLeftBehind
<1> QED BY <1>1, <1>2, InvInit, InvNext, OrderedStep, PTL DEF Spec

----------------------------------------------------------------------------
(* Each fault costs at most one repetition.                                *)

\* Nobody has run the turn of the occurrence.
Untouched(o) == \A m \in Proc : turn[o][m].status = "absent"

\* Process p is on its way to tell the outcome of o, or can be yet: an owner once
\* it has the outcome, a process that lost the claim as long as the end of the
\* turn can be its own.
Telling(p, o) ==
  /\ work[p].occ = o
  /\ \/ At(p, "delivering")
     \/ At(p, "sending") /\ work[p].answer
     \/ At(p, "outcome") /\ work[p].says /\ StillOwner(p)
     \/ At(p, "fresh") /\ StillOwner(p) /\ ~Untouched(o)
     \/ work[p].pc \in {"taken", "resumed"} /\ ~StillOwner(p) /\ Its(p).status # "done"
     \/ work[p].pc \in {"due", "unbound", "bound", "fresh"} /\ ~StillOwner(p) /\ Untouched(o)

\* The processes that are.
Owing(o) == {p \in Proc : Telling(p, o)}

\* The owner will mark turn m of the occurrence as told.
Marks(p, o, m) ==
  /\ StillOwner(p) /\ work[p].occ = o /\ work[p].id = m
  /\ \/ work[p].pc \in {"delivering", "told", "sending", "noting"}
     \/ At(p, "outcome") /\ work[p].says

\* A process can still find a turn of the occurrence that wants to be told.
Open(o) ==
  \A m \in Proc : turn[o][m].status = "done" =>
    Untold(turn[o][m]) /\ \A p \in Proc : ~Marks(p, o, m)

\* One telling can be begun while a turn of the occurrence is open.
Due(o) == IF Open(o) THEN 1 ELSE 0

\* What was told, what is about to be and what can be begun, against the faults.
Balanced(o) ==
  /\ IsFiniteSet(Owing(o))
  /\ hist.told[o] + Cardinality(Owing(o)) + Due(o) <= 1 + hist.faults

\* Every occurrence is.
Paid == \A o \in Occ : Balanced(o)

\* A process that works for the lane has no answer yet, and one about to bind an
\* occurrence has not bound it.
Before ==
  /\ \A p \in Proc : work[p].answer => work[p].pc \in {"sending", "noting"}
  /\ \A p \in Proc : At(p, "unbound") => fire[work[p].occ].turn # p

\* The count of the tellings and of the faults.
LEMMA Tallied == ASSUME Inv, NEW o \in Occ PROVE hist.told[o] \in Nat /\ hist.faults \in Nat
BY Constants DEF Inv, TypeOK, History

\* A set grows by at most one.
LEMMA OneAdded ==
  ASSUME NEW S, NEW x, IsFiniteSet(S)
  PROVE  /\ IsFiniteSet(S \cup {x}) /\ Cardinality(S \cup {x}) <= Cardinality(S) + 1
         /\ Cardinality(S) \in Nat /\ Cardinality(S \cup {x}) \in Nat
<1>1. /\ IsFiniteSet(S \cup {x})
      /\ Cardinality(S \cup {x}) =
           IF x \in S THEN Cardinality(S) ELSE Cardinality(S) + 1
  BY FS_AddElement
<1>2. Cardinality(S) \in Nat /\ Cardinality(S \cup {x}) \in Nat
  BY <1>1, FS_CardinalityType
<1> QED BY <1>1, <1>2

\* Nobody more is on the way.
LEMMA NoMore ==
  ASSUME NEW o \in Occ, Balanced(o), hist.told[o] \in Nat, hist.faults \in Nat,
         hist'.told[o] = hist.told[o], hist'.faults \in Nat,
         \A q \in Proc : Telling(q, o)' => Telling(q, o),
         \/ hist'.faults >= hist.faults /\ (Open(o)' => Open(o))
         \/ hist'.faults = hist.faults + 1
  PROVE  Balanced(o)'
<1>1. Owing(o)' \subseteq Owing(o) BY DEF Owing
<1>2. IsFiniteSet(Owing(o)') /\ Cardinality(Owing(o)') <= Cardinality(Owing(o))
  BY <1>1, FS_Subset DEF Balanced
<1>3. Cardinality(Owing(o)) \in Nat /\ Cardinality(Owing(o)') \in Nat
  BY <1>2, FS_CardinalityType DEF Balanced
<1>4. \/ hist'.faults >= hist.faults /\ Due(o)' <= Due(o)
      \/ hist'.faults = hist.faults + 1 /\ Due(o)' <= Due(o) + 1
  BY DEF Due
<1>5. Due(o) \in Nat /\ Due(o)' \in Nat BY DEF Due
<1> QED BY <1>2, <1>3, <1>4, <1>5 DEF Balanced

\* One more is on the way, at the cost of the turn or of a fault.
LEMMA OneMore ==
  ASSUME NEW o \in Occ, NEW p \in Proc, Balanced(o), hist.told[o] \in Nat,
         hist.faults \in Nat, hist'.told[o] = hist.told[o], hist'.faults \in Nat,
         \A q \in Proc : q # p /\ Telling(q, o)' => Telling(q, o),
         \/ hist'.faults >= hist.faults /\ Open(o) /\ ~Open(o)'
         \/ hist'.faults = hist.faults + 1 /\ (Open(o)' => Open(o))
  PROVE  Balanced(o)'
<1>1. Owing(o)' \subseteq Owing(o) \cup {p} BY DEF Owing
<1>2. /\ IsFiniteSet(Owing(o) \cup {p})
      /\ Cardinality(Owing(o) \cup {p}) <= Cardinality(Owing(o)) + 1
      /\ Cardinality(Owing(o)) \in Nat
  BY OneAdded DEF Balanced
<1>3. /\ IsFiniteSet(Owing(o)') /\ Cardinality(Owing(o)') \in Nat
      /\ Cardinality(Owing(o)') <= Cardinality(Owing(o) \cup {p})
      /\ Cardinality(Owing(o) \cup {p}) \in Nat
  BY <1>1, <1>2, FS_Subset, FS_CardinalityType
<1>4. \/ hist'.faults >= hist.faults /\ Due(o)' = 0 /\ Due(o) = 1
      \/ hist'.faults = hist.faults + 1 /\ Due(o)' <= Due(o)
  BY DEF Due
<1>5. Due(o) \in Nat /\ Due(o)' \in Nat BY DEF Due
<1> QED BY <1>2, <1>3, <1>4, <1>5 DEF Balanced

\* One that was on the way is not, and has told, or has made room for another.
LEMMA OneLess ==
  ASSUME NEW o \in Occ, NEW p \in Proc, NEW r \in Proc, Balanced(o),
         hist.told[o] \in Nat, hist.faults \in Nat, hist'.faults = hist.faults,
         Telling(p, o), ~Telling(p, o)',
         \A q \in Proc : q # r /\ Telling(q, o)' => Telling(q, o),
         Open(o)' => Open(o),
         \/ hist'.told[o] = hist.told[o]
         \/ hist'.told[o] = hist.told[o] + 1 /\ r = p
  PROVE  Balanced(o)'
<1> DEFINE rest == Owing(o) \ {p}
<1>1. p \in Owing(o) /\ IsFiniteSet(Owing(o)) /\ Cardinality(Owing(o)) \in Nat
  BY FS_CardinalityType DEF Owing, Balanced
<1>2. IsFiniteSet(rest) /\ Cardinality(rest) = Cardinality(Owing(o)) - 1
      /\ Cardinality(rest) \in Nat
  BY <1>1, FS_RemoveElement, FS_CardinalityType
<1>3. /\ IsFiniteSet(rest \cup {r}) /\ Cardinality(rest \cup {r}) <= Cardinality(rest) + 1
      /\ Cardinality(rest \cup {r}) \in Nat
  BY <1>2, OneAdded
<1>4. Owing(o)' \subseteq rest \cup {r} /\ (r = p => Owing(o)' \subseteq rest)
  BY DEF Owing
<1>5. /\ IsFiniteSet(Owing(o)') /\ Cardinality(Owing(o)') \in Nat
      /\ Cardinality(Owing(o)') <= Cardinality(rest) + 1
      /\ r = p => Cardinality(Owing(o)') <= Cardinality(rest)
  <2>1. IsFiniteSet(Owing(o)') /\ Cardinality(Owing(o)') <= Cardinality(rest \cup {r})
    BY <1>3, <1>4, FS_Subset
  <2>2. r = p => Cardinality(Owing(o)') <= Cardinality(rest)
    BY <1>2, <1>4, FS_Subset
  <2>3. Cardinality(Owing(o)') \in Nat BY <2>1, FS_CardinalityType
  <2> HIDE DEF rest
  <2> QED BY <1>2, <1>3, <2>1, <2>2, <2>3
<1>6. Due(o)' <= Due(o) /\ Due(o) \in Nat /\ Due(o)' \in Nat BY DEF Due
<1> HIDE DEF rest
<1> QED BY <1>1, <1>2, <1>5, <1>6 DEF Balanced

----------------------------------------------------------------------------
(* What a step of one process does to the others.                          *)

\* Another process is not sent to tell by it.
LEMMA OthersOwe ==
  ASSUME Inv, NEW p \in Proc, NEW o \in Occ, Alone(p), claim' = claim, TurnsKept,
         (Untouched(o) => Untouched(o)') \/ StillOwner(p),
         NEW q \in Proc, q # p, Telling(q, o)'
  PROVE  Telling(q, o)
<1>1. work'[q] = work[q] BY DEF Alone
<1>2. work[q].occ = o /\ work[q].pc # "idle"
  BY <1>1 DEF Telling, At
<1>3. StillOwner(q)' <=> StillOwner(q) BY DEF StillOwner
<1>4. StillOwner(p) => ~StillOwner(q) BY DEF StillOwner
<1>5. Untouched(o)' => Untouched(o) BY DEF TurnsKept, Untouched
<1>6. work[q].pc \in {"taken", "resumed"} /\ Its(q)'.status # "done" => Its(q).status # "done"
  <2>1. work[q].pc \in {"taken", "resumed"} => work[q].id \in Proc
    BY AtWork DEF Owning
  <2> QED BY <1>1, <1>2, <2>1 DEF Its, TurnsKept
<1> QED BY <1>1, <1>2, <1>3, <1>4, <1>5, <1>6 DEF Telling, At

\* It opens nothing, when it takes back no mark of its own.
LEMMA StaysShut ==
  ASSUME Inv, NEW p \in Proc, NEW o \in Occ, Alone(p), claim' = claim, TurnsKept,
         \A m \in Proc : turn[o][m].status = "done" /\ Marks(p, o, m) =>
           Marks(p, o, m)' \/ turn'[o][m].delivery # "pending",
         Open(o)'
  PROVE  Open(o)
<1> SUFFICES ASSUME NEW m \in Proc, turn[o][m].status = "done"
             PROVE  Untold(turn[o][m]) /\ \A q \in Proc : ~Marks(q, o, m)
  BY DEF Open
<1>1. turn'[o][m].status = "done" BY DEF TurnsKept
<1>2. Untold(turn'[o][m]) /\ \A q \in Proc : ~Marks(q, o, m)' BY <1>1 DEF Open
<1>3. Untold(turn[o][m]) BY <1>2 DEF Untold, TurnsKept
<1>4. ASSUME NEW q \in Proc, q # p PROVE ~Marks(q, o, m)
  <2>1. work'[q] = work[q] BY <1>4 DEF Alone
  <2> QED BY <1>2, <2>1 DEF Marks, StillOwner, At
<1>5. ~Marks(p, o, m) BY <1>2 DEF Untold
<1> QED BY <1>3, <1>4, <1>5

\* The step of a run, by what it does to its own occurrence.
LEMMA RunPays ==
  ASSUME Inv, Paid, NEW p \in Proc, Alone(p), claim' = claim, TurnsKept,
         NEW o \in Occ, work[p].occ = o, work'[p].occ \in {o, Nobody},
         hist' \in History, hist'.faults >= hist.faults,
         \A x \in Occ : x # o => hist'.told[x] = hist.told[x],
         \A x \in Occ : (Untouched(x) => Untouched(x)') \/ StillOwner(p),
         \/ Open(o) /\ ~Open(o)' /\ hist'.told[o] = hist.told[o]
         \/ /\ \A m \in Proc : turn[o][m].status = "done" /\ Marks(p, o, m) =>
                 Marks(p, o, m)' \/ turn'[o][m].delivery # "pending"
            /\ \/ hist'.told[o] = hist.told[o] /\ (Telling(p, o)' => Telling(p, o))
               \/ hist'.told[o] = hist.told[o] /\ hist'.faults = hist.faults + 1
               \/ /\ hist'.told[o] = hist.told[o] + 1 /\ hist'.faults = hist.faults
                  /\ Telling(p, o) /\ ~Telling(p, o)'
  PROVE  Paid'
<1> SUFFICES ASSUME NEW x \in Occ PROVE Balanced(x)' BY DEF Paid
<1>1. Balanced(x) /\ hist.told[x] \in Nat /\ hist.faults \in Nat /\ hist'.faults \in Nat
  BY Tallied, Constants DEF Paid, History
<1>2. \A q \in Proc : q # p /\ Telling(q, x)' => Telling(q, x)
  BY OthersOwe
<1>3. CASE x # o
  <2>1. ~Telling(p, x)' /\ \A m \in Proc : ~Marks(p, x, m)
    BY <1>3, NobodyIsNoOccurrence DEF Telling, Marks
  <2>2. Open(x)' => Open(x) BY <2>1, StaysShut
  <2> QED BY <1>1, <1>2, <1>3, <2>1, <2>2, NoMore
<1>4. CASE x = o
  <2>1. CASE Open(o) /\ ~Open(o)' /\ hist'.told[o] = hist.told[o]
    BY <1>1, <1>2, <1>4, <2>1, OneMore
  <2>2. CASE /\ \A m \in Proc : turn[o][m].status = "done" /\ Marks(p, o, m) =>
                  Marks(p, o, m)' \/ turn'[o][m].delivery # "pending"
             /\ \/ hist'.told[o] = hist.told[o] /\ (Telling(p, o)' => Telling(p, o))
                \/ hist'.told[o] = hist.told[o] /\ hist'.faults = hist.faults + 1
                \/ /\ hist'.told[o] = hist.told[o] + 1 /\ hist'.faults = hist.faults
                   /\ Telling(p, o) /\ ~Telling(p, o)'
    <3>1. Open(o)' => Open(o) BY <2>2, StaysShut
    <3>2. CASE hist'.told[o] = hist.told[o] /\ (Telling(p, o)' => Telling(p, o))
      BY <1>1, <1>2, <1>4, <3>1, <3>2, NoMore
    <3>3. CASE hist'.told[o] = hist.told[o] /\ hist'.faults = hist.faults + 1
      BY <1>1, <1>2, <1>4, <3>1, <3>3, OneMore
    <3>4. CASE /\ hist'.told[o] = hist.told[o] + 1 /\ hist'.faults = hist.faults
               /\ Telling(p, o) /\ ~Telling(p, o)'
      BY <1>1, <1>2, <1>4, <3>1, <3>4, OneLess
    <3> QED BY <2>2, <3>2, <3>3, <3>4
  <2> QED BY <2>1, <2>2
<1> QED BY <1>3, <1>4

\* To another place and another turn.
LEMMA PairFields ==
  ASSUME Inv, NEW p \in Proc, NEW pc, NEW id,
         work' = [work EXCEPT ![p].id = id, ![p].pc = pc]
  PROVE  MovesTo(p, pc) /\ work'[p].id = id
<1>1. work \in [Proc -> Work] /\ work[p] \in Work BY DEF Inv, TypeOK
<1> DEFINE w == [work[p] EXCEPT !.id = id, !.pc = pc]
<1>2. work' = [work EXCEPT ![p] = w] BY <1>1
<1>3. w.pc = pc /\ w.occ = work[p].occ /\ w.answer = work[p].answer /\ w.id = id
  BY <1>1 DEF Work
<1> HIDE DEF w
<1> QED BY <1>2, <1>3, StepFields DEF MovesTo

\* A run learns, or makes, the turn of its occurrence.
LEMMA ClaimFields ==
  ASSUME Inv, NEW p \in Proc, Claim(p)
  PROVE  \E pc \in {"unbound", "bound"} :
           /\ MovesTo(p, pc) /\ work'[p].id = fire[work[p].occ].turn
           /\ pc = "unbound" => fire[work[p].occ].turn = Nobody
<1> DEFINE pc == IF fire[work[p].occ].turn = Nobody THEN "unbound" ELSE "bound"
<1>1. work' = [work EXCEPT ![p].id = fire[work[p].occ].turn, ![p].pc = pc] BY DEF Claim
<1>2. pc \in {"unbound", "bound"} /\ (pc = "unbound" => fire[work[p].occ].turn = Nobody)
  OBVIOUS
<1> HIDE DEF pc
<1> QED BY <1>1, <1>2, PairFields

\* A run that binds its occurrence reads who was first.
LEMMA BindFields ==
  ASSUME Inv, NEW p \in Proc, Bind(p)
  PROVE  \E pc \in {"fresh", "bound"} :
           /\ MovesTo(p, pc) /\ work'[p].id = Bound(work[p].occ, p)
           /\ pc = "fresh" => Bound(work[p].occ, p) = p
<1> DEFINE pc == IF Bound(work[p].occ, p) = p THEN "fresh" ELSE "bound"
<1>1. work' = [work EXCEPT ![p].id = Bound(work[p].occ, p), ![p].pc = pc] BY DEF Bind
<1>2. pc \in {"fresh", "bound"} /\ (pc = "fresh" => Bound(work[p].occ, p) = p) OBVIOUS
<1> HIDE DEF pc
<1> QED BY <1>1, <1>2, PairFields

\* The moves of a run: how each action writes the work of its process.
LEMMA Moved ==
  ASSUME Inv, NEW p \in Proc, Run(p)
  PROVE  /\ work[p].pc # "idle" /\ claim' = claim /\ Alone(p)
         /\ \/ Over(p)
            \/ (\E pc \in Pc \ {"unbound", "sending", "noting"} :
                 MovesTo(p, pc) /\ work[p].pc \notin {"sending", "noting"})
            \/ At(p, "due") /\ MovesTo(p, "unbound")
            \/ At(p, "resumed") /\ MovesTo(p, "sending")
            \/ At(p, "resumed") /\ work' = [work EXCEPT ![p].pc = "sending", ![p].answer = TRUE]
            \/ At(p, "sending") /\ MovesTo(p, "noting")
<1>1. CASE Claim(p) \/ Bind(p)
  <2>1. work[p].pc \in {"due", "unbound"} /\ claim' = claim
    BY <1>1 DEF Claim, Bind, At
  <2>2. Alone(p) /\ \E pc \in {"unbound", "bound", "fresh"} :
          MovesTo(p, pc) /\ (pc = "unbound" => At(p, "due"))
    <3>1. CASE Claim(p) BY <3>1, ClaimFields DEF Claim, MovesTo
    <3>2. CASE Bind(p) BY <3>2, BindFields DEF MovesTo
    <3> QED BY <1>1, <3>1, <3>2
  <2> QED BY <2>1, <2>2 DEF At, Pc
<1>2. ASSUME work[p].pc # "idle", claim' = claim,
             work[p].pc \notin {"sending", "noting"},
             \/ Over(p) \/ Thrown(p)
             \/ \E pc \in Pc \ {"unbound", "sending", "noting"} : Goes(p, pc)
             \/ \E says : work' = [work EXCEPT ![p].pc = "outcome", ![p].says = says]
             \/ \E ok : work' = [work EXCEPT ![p].pc = "told", ![p].arrived = ok]
      PROVE  /\ Alone(p)
             /\ \/ Over(p)
                \/ \E pc \in Pc \ {"unbound", "sending", "noting"} : MovesTo(p, pc)
  <2>1. CASE Over(p) BY <2>1, OverFields
  <2>2. CASE Thrown(p) BY <2>2, ThrownFields DEF MovesTo, Pc
  <2>3. CASE \E pc \in Pc \ {"unbound", "sending", "noting"} : Goes(p, pc)
    BY <2>3, GoesFields DEF MovesTo
  <2>4. CASE \E says : work' = [work EXCEPT ![p].pc = "outcome", ![p].says = says]
    BY <2>4, OutcomeFields DEF MovesTo, Pc
  <2>5. CASE \E ok : work' = [work EXCEPT ![p].pc = "told", ![p].arrived = ok]
    <3>1. MovesTo(p, "told") BY <2>5, SentFields
    <3> QED BY <3>1 DEF MovesTo, Pc
  <2> QED BY <1>2, <2>1, <2>2, <2>3, <2>4, <2>5
<1>3. CASE \/ Resolve(p) \/ Create(p) \/ Yield(p) \/ Suspend(p) \/ Fail(p) \/ Judge(p)
           \/ Record(p) \/ Settle(p) \/ Mark(p) \/ Resume(p) \/ LaneFail(p)
           \/ \E b \in BOOLEAN : Finish(p, b) \/ Deliver(p, b)
  <2>1. /\ work[p].pc # "idle" /\ claim' = claim
        /\ work[p].pc \notin {"sending", "noting"}
    BY <1>3 DEF Resolve, Create, Yield, Suspend, Fail, Judge, Record, Settle, Mark,
                Resume, LaneFail, Finish, Deliver, At
  <2>2. \/ Over(p) \/ Thrown(p)
        \/ \E pc \in Pc \ {"unbound", "sending", "noting"} : Goes(p, pc)
        \/ \E says : work' = [work EXCEPT ![p].pc = "outcome", ![p].says = says]
        \/ \E ok : work' = [work EXCEPT ![p].pc = "told", ![p].arrived = ok]
    BY <1>3 DEF Resolve, Create, Yield, Suspend, Fail, Judge, Record, Settle, Mark,
                Resume, LaneFail, Finish, Deliver, Pc
  <2> QED BY <1>2, <2>1, <2>2
<1>4. CASE LaneNote(p)
  BY <1>4, OverFields DEF LaneNote, At
<1>5. ASSUME NEW b \in BOOLEAN, LaneYield(p, b) \/ LaneFinish(p, b)
      PROVE  /\ At(p, "resumed") /\ claim' = claim /\ Alone(p)
             /\ \/ Over(p) \/ MovesTo(p, "sending")
                \/ work' = [work EXCEPT ![p].pc = "sending", ![p].answer = TRUE]
  <2>1. At(p, "resumed") /\ claim' = claim BY <1>5 DEF LaneYield, LaneFinish
  <2>2. \/ Over(p) \/ Goes(p, "sending")
        \/ work' = [work EXCEPT ![p].pc = "sending", ![p].answer = TRUE]
    BY <1>5 DEF LaneYield, LaneFinish
  <2>3. CASE Over(p) BY <2>1, <2>3, OverFields
  <2>4. CASE Goes(p, "sending") BY <2>1, <2>4, GoesFields DEF MovesTo
  <2>5. CASE work' = [work EXCEPT ![p].pc = "sending", ![p].answer = TRUE]
    BY <2>1, <2>5, AnswersFields
  <2> QED BY <2>2, <2>3, <2>4, <2>5
<1>6. ASSUME NEW b \in BOOLEAN, LaneSend(p, b)
      PROVE  At(p, "sending") /\ claim' = claim /\ MovesTo(p, "noting") /\ Alone(p)
  BY <1>6, SentFields DEF LaneSend, MovesTo
<1> QED BY <1>1, <1>3, <1>4, <1>5, <1>6 DEF Run, At

\* How the fires are bound.
LEMMA Binds ==
  ASSUME Inv, NEW p \in Proc, Run(p)
  PROVE  \A o \in Occ : /\ fire'[o].turn \in {fire[o].turn, p}
                        /\ ~Bind(p) => fire'[o].turn = fire[o].turn
<1>1. fire \in [Occ -> Fire] BY DEF Inv, TypeOK
<1>2. Bind(p) => \A o \in Occ : fire'[o].turn \in {fire[o].turn, p}
  BY <1>1 DEF Bind, Bound, Fire
<1>3. Claim(p) => \A o \in Occ : fire'[o].turn = fire[o].turn
  BY <1>1 DEF Claim, Fire
<1>4. Settle(p) => \A o \in Occ : fire'[o].turn = fire[o].turn
  BY <1>1 DEF Settle, Settled, Fire
<1>5. Bind(p) \/ Claim(p) \/ Settle(p) \/ UNCHANGED fire
  BY DEF Run, Resolve, Create, Yield, Suspend, Fail, Judge, Record, Mark, Resume, LaneFail,
         LaneNote, Finish, Deliver, LaneYield, LaneFinish, LaneSend
<1> QED BY <1>2, <1>3, <1>4, <1>5

\* No step breaks it.
LEMMA BeforeStep == Inv /\ Before /\ [Next]_vars => Before'
<1> SUFFICES ASSUME Inv, Before, [Next]_vars PROVE Before' OBVIOUS
<1>1. ASSUME UNCHANGED <<fire, work>> PROVE Before' BY <1>1 DEF Before, At
<1>2. ASSUME NEW p \in Proc, Beat(p) \/ Nudge(p) PROVE Before'
  BY <1>2, Found DEF Before, Alone, At
<1>3. ASSUME NEW p \in Proc, Run(p) PROVE Before'
  <2>1. /\ \A o \in Occ : fire'[o].turn \in {fire[o].turn, p}
        /\ Alone(p) /\ work[p].pc # "idle" /\ work[p].occ \in Occ
    BY <1>3, Binds, Moved, AtWork
  <2>2. /\ work'[p].answer => work'[p].pc \in {"sending", "noting"}
        /\ work'[p].pc = "unbound" => At(p, "due") /\ MovesTo(p, "unbound")
    <3>1. CASE Over(p)
      <4>1. work'[p] = Idle BY <3>1, OverFields
      <4> QED BY <4>1 DEF Idle
    <3>2. CASE work' = [work EXCEPT ![p].pc = "sending", ![p].answer = TRUE]
      BY <3>2, AnswersFields
    <3> QED BY <1>3, <3>1, <3>2, Moved DEF MovesTo, Before, At
  <2>3. At(p, "due") /\ MovesTo(p, "unbound") => fire'[work[p].occ].turn # p
    <3>1. At(p, "due") /\ MovesTo(p, "unbound") => Claim(p)
      BY <1>3, OverFields
      DEF Run, Bind, Resolve, Create, Yield, Suspend, Fail, Judge, Record, Settle, Mark,
          Resume, LaneFail, LaneNote, Finish, Deliver, LaneYield, LaneFinish, LaneSend, At
    <3>2. Claim(p) /\ work'[p].pc = "unbound" => fire'[work[p].occ].turn = Nobody
      BY <2>1 DEF Claim, Inv, TypeOK, Fire, Work
    <3> QED BY <3>1, <3>2, Constants DEF MovesTo
  <2>4. ASSUME NEW q \in Proc, At(q, "unbound")' PROVE fire'[work'[q].occ].turn # q
    <3>1. CASE q = p BY <2>2, <2>3, <2>4, <3>1 DEF MovesTo, At
    <3>2. CASE q # p
      <4>1. work'[q] = work[q] BY <2>1, <3>2 DEF Alone
      <4>2. At(q, "unbound") /\ work[q].occ \in Occ BY <2>4, <4>1, AtWork DEF At
      <4> QED BY <2>1, <3>2, <4>1, <4>2 DEF Before
    <3> QED BY <3>1, <3>2
  <2> QED BY <2>1, <2>2, <2>4 DEF Before, Alone
<1>4. ASSUME NEW p \in Proc, Crash(p) PROVE Before'
  BY <1>4 DEF Crash, Before, At, Idle, Inv, TypeOK
<1>5. ASSUME NEW p \in Proc, Boot(p) PROVE Before' BY <1>1, <1>5 DEF Boot
<1> QED
  <2>1. CASE UNCHANGED vars BY <1>1, <2>1 DEF vars
  <2>2. CASE Tick BY <1>1, <2>2 DEF Tick
  <2> QED BY <2>1, <2>2, <1>2, <1>3, <1>4, <1>5 DEF Next

\* The turn of a run is the only one its occurrence can have.
LEMMA OnlyTurn ==
  ASSUME Inv, NEW p \in Proc, work[p].pc # "idle", work[p].id \in Proc
  PROVE  /\ Untouched(work[p].occ) <=> Its(p).status = "absent"
         /\ Its(p).status # "done" => Open(work[p].occ)
<1>1. \A m \in Proc : m # work[p].id => turn[work[p].occ][m].status = "absent"
  BY AtWork, Constants
<1> QED BY <1>1 DEF Untouched, Open, Its

\* Writing the row of a turn that is there touches no occurrence.
LEMMA Touch ==
  ASSUME Inv, NEW p \in Proc, work[p].pc # "idle", work[p].id \in Proc,
         NEW status, NEW holder, NEW delivery, Wrote(p, status, holder, delivery),
         Its(p).status # "absent"
  PROVE  \A o \in Occ : Untouched(o) => Untouched(o)'
<1> SUFFICES ASSUME NEW o \in Occ, Untouched(o) PROVE Untouched(o)' OBVIOUS
<1>1. o # work[p].occ BY DEF Untouched, Its
<1> QED BY <1>1 DEF Untouched, Wrote

\* A step of a run that is not a telling, by what it does to its own occurrence.
LEMMA QuietPays ==
  ASSUME Inv, Paid, TurnsKept, NEW p \in Proc, Run(p), UNCHANGED hist,
         work'[p].occ \in {work[p].occ, Nobody},
         NEW o \in Occ, work[p].occ = o,
         \A x \in Occ : (Untouched(x) => Untouched(x)') \/ StillOwner(p),
         \/ Open(o) /\ ~Open(o)'
         \/ /\ \A m \in Proc : turn[o][m].status = "done" /\ Marks(p, o, m) =>
                 Marks(p, o, m)' \/ turn'[o][m].delivery # "pending"
            /\ Telling(p, o)' => Telling(p, o)
  PROVE  Paid'
<1>1. /\ hist' \in History /\ hist'.faults >= hist.faults
      /\ \A x \in Occ : hist'.told[x] = hist.told[x]
  BY Tallied DEF Inv, TypeOK
<1>2. Alone(p) /\ claim' = claim BY Moved
<1>3. work'[p].occ \in {o, Nobody} OBVIOUS
<1> QED BY <1>1, <1>2, <1>3, RunPays

\* Where a run has no answer of its own to mark.
LEMMA NoMark ==
  ASSUME NEW p \in Proc, NEW o \in Occ, NEW m,
         work[p].pc \notin {"delivering", "told", "sending", "noting"},
         At(p, "outcome") => ~work[p].says
  PROVE  ~Marks(p, o, m)
BY DEF Marks, At

\* The steps that come to the turn of an occurrence.
LEMMA ComesPays ==
  ASSUME Inv, Before, Paid, TurnsKept, NEW p \in Proc, Run(p),
         NEW o \in Occ, work[p].occ = o,
         Claim(p) \/ Bind(p) \/ Resolve(p)
  PROVE  Paid'
<1>1. /\ turn' = turn /\ hist' = hist /\ claim' = claim
      /\ work[p].pc \in {"due", "unbound", "bound"}
  BY DEF Claim, Bind, Resolve, At
<1>2. \A x \in Occ : (Untouched(x) <=> Untouched(x)') BY <1>1 DEF Untouched
<1>3. \A m \in Proc : ~Marks(p, o, m) BY <1>1, NoMark DEF At
<1>4. ASSUME work'[p].occ \in {o, Nobody},
             (Open(o) /\ ~Open(o)') \/ (Telling(p, o)' => Telling(p, o))
      PROVE  Paid'
  BY <1>1, <1>2, <1>3, <1>4, QuietPays
<1>5. CASE Claim(p)
  <2>1. PICK pc \in {"unbound", "bound"} : MovesTo(p, pc) BY <1>5, ClaimFields
  <2>2. At(p, "due") BY <1>5 DEF Claim
  <2>3. Telling(p, o)' => Telling(p, o)
    BY <2>1, <2>2, <1>1, <1>2 DEF Telling, At, MovesTo, StillOwner
  <2> QED BY <1>4, <2>1, <2>3 DEF MovesTo
<1>6. CASE Bind(p)
  <2>1. PICK pc \in {"fresh", "bound"} :
          MovesTo(p, pc) /\ (pc = "fresh" => Bound(o, p) = p)
    BY <1>6, BindFields
  <2>2. At(p, "unbound") BY <1>6 DEF Bind
  <2>3. pc = "fresh" => Untouched(o)
    <3>1. fire[o].turn # p BY <2>2 DEF Before
    <3>2. pc = "fresh" => fire[o].turn = Nobody BY <2>1, <3>1 DEF Bound
    <3> QED BY <3>2, Constants DEF Untouched, Inv, OneTurnPerOccurrence
  <2>4. Telling(p, o)' => Telling(p, o)
    BY <2>1, <2>2, <2>3, <1>1, <1>2 DEF Telling, At, MovesTo, StillOwner
  <2> QED BY <1>4, <2>1, <2>4 DEF MovesTo
<1>7. CASE Resolve(p)
  <2>1. At(p, "bound") /\ work[p].id \in Proc /\ work[p].pc # "idle"
    BY <1>7, AtWork DEF Resolve, At, Owning
  <2>2. CASE Its(p).status = "absent" /\ Goes(p, "fresh")
    <3>1. MovesTo(p, "fresh") BY <2>2, GoesFields
    <3>2. Untouched(o) BY <2>1, <2>2, OnlyTurn
    <3>3. Telling(p, o)' => Telling(p, o)
      BY <2>1, <3>1, <3>2, <1>1, <1>2 DEF Telling, At, MovesTo, StillOwner
    <3> QED BY <1>4, <3>1, <3>3 DEF MovesTo
  <2>3. CASE Over(p) \/ Goes(p, "settling")
    <3>1. work'[p].pc \in {"idle", "settling"} /\ work'[p].occ \in {o, Nobody}
      BY <2>3, OverFields, GoesFields DEF MovesTo
    <3>2. ~Telling(p, o)' BY <3>1 DEF Telling, At
    <3> QED BY <1>4, <3>1, <3>2
  <2>4. CASE Untold(Its(p)) /\ work' = [work EXCEPT ![p].pc = "outcome",
                                                    ![p].says = Its(p).says]
    <3>1. MovesTo(p, "outcome") /\ Keeps(p) BY <2>4, OutcomeFields
    <3>2. CASE StillOwner(p) /\ work'[p].says
      <4>1. turn[o][work[p].id].status = "done" BY <2>4 DEF Its, Untold
      <4>2. ~Open(o)'
        <5>1. PICK m \in Proc : m = work[p].id BY <2>1
        <5>2. Marks(p, o, m)'
          BY <5>1, <3>1, <3>2, <1>1 DEF Marks, MovesTo, Keeps, At, StillOwner
        <5>3. turn'[o][m].status = "done" BY <5>1, <4>1, <1>1
        <5> QED BY <5>2, <5>3 DEF Open
      <4>3. Open(o)
        <5>1. \A m \in Proc : m # work[p].id => turn[o][m].status = "absent"
          BY <2>1, AtWork, Constants
        <5>2. \A q \in Proc, m \in Proc : ~Marks(q, o, m)
          BY <1>3, <3>2 DEF Marks, StillOwner
        <5>3. Untold(turn[o][work[p].id]) BY <2>4 DEF Its
        <5> QED BY <5>1, <5>2, <5>3 DEF Open
      <4> QED BY <1>4, <3>1, <4>2, <4>3 DEF MovesTo
    <3>3. CASE ~(StillOwner(p) /\ work'[p].says)
      <4>1. ~Telling(p, o)' BY <3>1, <3>3, <1>1 DEF Telling, At, MovesTo, StillOwner
      <4> QED BY <1>4, <3>1, <4>1 DEF MovesTo
    <3> QED BY <3>2, <3>3
  <2> QED BY <1>7, <2>2, <2>3, <2>4 DEF Resolve
<1> QED BY <1>5, <1>6, <1>7

\* Of the creation of the turn: the one step that sends another to tell.
LEMMA CreatePays ==
  ASSUME Inv, Paid, TurnsKept, NEW p \in Proc, Create(p),
         NEW o \in Occ, work[p].occ = o
  PROVE  Paid'
<1>1. /\ At(p, "fresh") /\ hist' = hist /\ claim' = claim
      /\ work[p].id \in Proc /\ work[p].pc # "idle" /\ Run(p)
  BY AtWork DEF Create, At, Owning, Run
<1>2. \A x \in Occ, m \in Proc : ~Marks(p, x, m) BY <1>1, NoMark DEF At
<1>3. CASE Its(p).status # "absent"
  <2>1. Thrown(p) /\ turn' = turn BY <1>3 DEF Create
  <2>2. MovesTo(p, "outcome") BY <2>1, ThrownFields
  <2>3. ~Untouched(o) BY <1>1, <1>3, OnlyTurn
  <2>4. Telling(p, o)' => Telling(p, o)
    BY <1>1, <2>2, <2>3 DEF Telling, At, MovesTo, StillOwner
  <2>5. \A x \in Occ : Untouched(x) => Untouched(x)' BY <2>1 DEF Untouched
  <2> QED BY <1>1, <1>2, <2>2, <2>4, <2>5, QuietPays DEF MovesTo
<1>4. CASE Its(p).status = "absent"
  <2>1. MovesTo(p, "driving") BY <1>4, GoesFields DEF Create
  <2>2. Wrote(p, "running", p, "pending") BY <1>1, <1>4, CreateWrites
  <2>3. ~Telling(p, o)' BY <2>1 DEF Telling, MovesTo, At
  <2>4. CASE StillOwner(p)
    BY <1>1, <1>2, <2>1, <2>3, <2>4, QuietPays DEF MovesTo
  <2>5. CASE ~StillOwner(p)
    <3> SUFFICES ASSUME NEW x \in Occ PROVE Balanced(x)' BY DEF Paid
    <3>1. Balanced(x) /\ hist.told[x] \in Nat /\ hist.faults \in Nat
      BY Tallied DEF Paid
    <3>2. Alone(p) BY <2>1 DEF MovesTo
    <3>3. Open(x)' => Open(x) BY <1>1, <1>2, <3>2, StaysShut
    <3>4. CASE x # o
      <4>1. Untouched(x) => Untouched(x)' BY <3>4, <2>2 DEF Untouched, Wrote
      <4>2. \A q \in Proc : q # p /\ Telling(q, x)' => Telling(q, x)
        BY <1>1, <3>2, <4>1, OthersOwe
      <4>3. ~Telling(p, x)' BY <2>1, <3>4 DEF Telling, MovesTo
      <4> QED BY <1>1, <3>1, <3>3, <4>2, <4>3, NoMore
    <3>5. CASE x = o
      <4>1. Untouched(o) BY <1>1, <1>4, OnlyTurn
      <4>2. Telling(p, o) BY <1>1, <2>5, <4>1 DEF Telling, At
      <4>3. ASSUME NEW q \in Proc, q # p, q # claim, Telling(q, o)' PROVE Telling(q, o)
        <5>1. work'[q] = work[q] BY <3>2, <4>3 DEF Alone
        <5>2. ~StillOwner(q) /\ ~StillOwner(q)' BY <1>1, <4>3 DEF StillOwner
        <5>3. ~Untouched(o)'
          BY <1>1, <2>2 DEF Untouched, Wrote
        <5>4. work[q].occ = o /\ work[q].pc # "idle"
          BY <4>3, <5>1 DEF Telling, At
        <5>5. work[q].pc \in {"taken", "resumed"} =>
                work[q].id \in Proc /\ Its(q).status # "done"
          <6>1. work[q].pc \in {"taken", "resumed"} => work[q].id \in Proc
            BY AtWork DEF Owning
          <6> QED BY <4>1, <5>4, <6>1 DEF Its, Untouched
        <5> QED BY <4>3, <5>1, <5>2, <5>3, <5>4, <5>5 DEF Telling, At
      <4>4. CASE claim \in Proc
        BY <1>1, <3>1, <3>3, <3>5, <2>3, <4>2, <4>3, <4>4, OneLess
      <4>5. CASE claim \notin Proc
        <5>1. \A q \in Proc : q # p /\ Telling(q, o)' => Telling(q, o)
          BY <4>3, <4>5
        <5> QED BY <1>1, <3>1, <3>3, <3>5, <2>3, <5>1, NoMore
      <4> QED BY <4>4, <4>5
    <3> QED BY <3>4, <3>5
  <2> QED BY <2>4, <2>5
<1> QED BY <1>3, <1>4

\* Of the end of a turn, by the scheduler's run or by the lane's.
LEMMA LeavePays ==
  ASSUME Inv, Held, Before, Paid, TurnsKept, NEW p \in Proc, Run(p),
         NEW o \in Occ, work[p].occ = o,
         \/ Yield(p) \/ Suspend(p) \/ (\E b \in BOOLEAN : Finish(p, b))
         \/ \E b \in BOOLEAN : LaneYield(p, b) \/ LaneFinish(p, b)
  PROVE  Paid'
<1>1. /\ work[p].pc \in Holding /\ work[p].pc # "idle" /\ work[p].id \in Proc
      /\ hist' = hist /\ claim' = claim
  BY AtWork DEF Yield, Suspend, Finish, LaneYield, LaneFinish, At, Holding, Owning
<1>2. \A m \in Proc : ~Marks(p, o, m) BY <1>1, NoMark DEF At, Holding
<1>3. Its(p).status = "running" BY <1>1 DEF Held
<1>4. Open(o) BY <1>1, <1>3, OnlyTurn
<1>5. PICK status \in {"owed", "done"}, says \in BOOLEAN : Leave(p, status, says)
  BY DEF Yield, Suspend, Finish, LaneYield, LaneFinish
<1>6. Wrote(p, status, Nobody, Its(p).delivery) BY <1>1, <1>5, LeaveWrites DEF Holding
<1>7. \A x \in Occ : Untouched(x) => Untouched(x)' BY <1>1, <1>3, <1>6, Touch
<1>8. ASSUME work'[p].occ \in {o, Nobody},
             ~Open(o)' \/ (Telling(p, o)' => Telling(p, o))
      PROVE  Paid'
  BY <1>1, <1>2, <1>4, <1>7, <1>8, QuietPays
<1>9. CASE Over(p) \/ Goes(p, "handed")
  <2>1. work'[p].pc \in {"idle", "handed"} /\ work'[p].occ \in {o, Nobody}
    BY <1>9, OverFields, GoesFields DEF MovesTo
  <2>2. ~Telling(p, o)' BY <2>1 DEF Telling, At
  <2> QED BY <1>8, <2>1, <2>2
<1>10. CASE Goes(p, "sending")
  <2>1. MovesTo(p, "sending") BY <1>10, GoesFields
  <2>2. ~work[p].answer BY <1>1 DEF Before, Holding
  <2>3. ~Telling(p, o)' BY <2>1, <2>2 DEF Telling, At, MovesTo
  <2> QED BY <1>8, <2>1, <2>3 DEF MovesTo
<1>11. ASSUME turn'[o][work[p].id].status = "done", work'[p].occ = o, Keeps(p),
              StillOwner(p),
              work'[p].pc = "sending" \/ (At(p, "outcome")' /\ work'[p].says)
       PROVE  ~Open(o)'
  <2>1. PICK m \in Proc : m = work[p].id BY <1>1
  <2>2. Marks(p, o, m)' BY <2>1, <1>1, <1>11 DEF Marks, Keeps, StillOwner
  <2>3. turn'[o][m].status = "done" BY <2>1, <1>11
  <2> QED BY <2>2, <2>3 DEF Open
<1>12. ASSUME NEW b \in BOOLEAN, Finish(p, b) PROVE Paid'
  <2>1. MovesTo(p, "outcome") /\ Keeps(p) /\ work'[p].says = b
    <3>1. work' = [work EXCEPT ![p].pc = "outcome", ![p].says = b] BY <1>12 DEF Finish
    <3> QED BY <3>1, OutcomeFields
  <2>2. turn'[o][work[p].id].status = "done"
    BY <1>1, <1>12, LeaveWrites DEF Finish, Wrote, Holding
  <2>3. CASE StillOwner(p) /\ b
    BY <1>8, <1>11, <2>1, <2>2, <2>3 DEF MovesTo, At
  <2>4. CASE ~(StillOwner(p) /\ b)
    <3>1. ~Telling(p, o)' BY <2>1, <2>4, <1>1 DEF Telling, At, MovesTo, StillOwner
    <3> QED BY <1>8, <2>1, <3>1 DEF MovesTo
  <2> QED BY <2>3, <2>4
<1>13. CASE LaneFinish(p, TRUE)
  <2>1. /\ Alone(p) /\ Keeps(p) /\ work'[p].pc = "sending" /\ work'[p].occ = o
    BY <1>13, AnswersFields DEF LaneFinish
  <2>2. turn'[o][work[p].id].status = "done"
    BY <1>1, <1>13, LeaveWrites DEF LaneFinish, Wrote, Holding
  <2>3. CASE StillOwner(p) BY <1>8, <1>11, <2>1, <2>2, <2>3
  <2>4. CASE ~StillOwner(p)
    <3>1. Telling(p, o) BY <1>3, <1>13, <2>4 DEF Telling, LaneFinish, At
    <3> QED BY <1>8, <2>1, <3>1
  <2> QED BY <2>3, <2>4
<1> QED
  <2>1. ASSUME NEW b \in BOOLEAN, LaneYield(p, b) PROVE Over(p) \/ Goes(p, "sending")
    BY <2>1 DEF LaneYield
  <2>2. LaneFinish(p, FALSE) => Over(p) BY DEF LaneFinish
  <2>3. Yield(p) => Over(p) BY DEF Yield
  <2>4. Suspend(p) => Goes(p, "handed") BY DEF Suspend
  <2> QED BY <2>1, <2>2, <2>3, <2>4, <1>9, <1>10, <1>12, <1>13

\* Of the telling, by the scheduler or by the lane.
LEMMA TellPays ==
  ASSUME Inv, Paid, TurnsKept, hist' \in History, NEW p \in Proc, Run(p),
         NEW o \in Occ, work[p].occ = o,
         \E b \in BOOLEAN : Deliver(p, b) \/ LaneSend(p, b)
  PROVE  Paid'
<1>1. PICK b \in BOOLEAN : Deliver(p, b) \/ LaneSend(p, b) OBVIOUS
<1>2. PICK pc \in {"told", "noting"} : MovesTo(p, pc) /\ Keeps(p)
  BY <1>1, SentFields DEF Deliver, LaneSend
<1>3. ~Telling(p, o)' BY <1>2 DEF Telling, At, MovesTo
<1>4. \A m \in Proc : Marks(p, o, m) => Marks(p, o, m)'
  BY <1>1, <1>2 DEF Deliver, LaneSend, Marks, MovesTo, Keeps, StillOwner, At
<1>5. turn' = turn /\ claim' = claim BY <1>1 DEF Deliver, LaneSend
<1>6. \A x \in Occ : Untouched(x) => Untouched(x)' BY <1>5 DEF Untouched
<1>7. hist \in History /\ hist.faults \in Nat /\ hist.told \in [Occ -> Nat]
  BY Tallied DEF Inv, TypeOK, History
<1>8. CASE hist'.told = hist.told /\ hist'.faults = hist.faults
  BY <1>2, <1>3, <1>4, <1>5, <1>6, <1>7, <1>8, RunPays DEF MovesTo
<1>9. CASE hist' = [hist EXCEPT !.told[o] = @ + 1] /\ Telling(p, o)
  <2> DEFINE told == [hist.told EXCEPT ![o] = @ + 1]
  <2>1. hist' = [hist EXCEPT !.told = told] BY <1>7, <1>9
  <2>2. told[o] = hist.told[o] + 1 /\ \A x \in Occ : x # o => told[x] = hist.told[x]
    BY <1>7
  <2> HIDE DEF told
  <2>3. hist'.told = told /\ hist'.faults = hist.faults BY <1>7, <2>1 DEF History
  <2> QED BY <1>2, <1>3, <1>4, <1>5, <1>6, <1>7, <1>9, <2>2, <2>3, RunPays DEF MovesTo
<1> QED
  <2>1. \/ hist' = hist
        \/ hist' = [hist EXCEPT !.told[o] = @ + 1] /\ Telling(p, o)
        \/ hist' = [hist EXCEPT !.diagnosed = @ \cup {o}]
    BY <1>1 DEF Deliver, LaneSend, Telling
  <2>2. hist' = [hist EXCEPT !.diagnosed = @ \cup {o}] =>
          hist'.told = hist.told /\ hist'.faults = hist.faults
    BY <1>7 DEF History
  <2> QED BY <1>8, <1>9, <2>1, <2>2

\* Of a run that throws, or a lane's run that fails.
LEMMA FailPays ==
  ASSUME Inv, Paid, TurnsKept, hist' \in History, NEW p \in Proc, Run(p),
         NEW o \in Occ, work[p].occ = o, Fail(p) \/ LaneFail(p)
  PROVE  Paid'
<1>1. /\ work[p].pc \in {"driving", "resumed"} /\ turn' = turn /\ claim' = claim
      /\ hist' = [hist EXCEPT !.faults = @ + 1]
  BY DEF Fail, LaneFail, At, Happens
<1>2. \A m \in Proc : ~Marks(p, o, m) BY <1>1, NoMark DEF At
<1>3. Alone(p) /\ work'[p].occ \in {o, Nobody}
  BY ThrownFields, OverFields DEF Fail, LaneFail, MovesTo
<1>4. hist'.told = hist.told /\ hist'.faults = hist.faults + 1 /\ hist.faults \in Nat
  BY <1>1, Tallied DEF Inv, TypeOK, History
<1>5. \A x \in Occ : Untouched(x) => Untouched(x)' BY <1>1 DEF Untouched
<1> QED BY <1>1, <1>2, <1>3, <1>4, <1>5, RunPays

\* Of the steps that follow the outcome, and of the lane's that begin and note.
LEMMA RestPays ==
  ASSUME Inv, Paid, TurnsKept, NEW p \in Proc, Run(p), NEW o \in Occ, work[p].occ = o,
         Judge(p) \/ Record(p) \/ Settle(p) \/ Mark(p) \/ Resume(p) \/ LaneNote(p)
  PROVE  Paid'
<1>1. hist' = hist /\ claim' = claim /\ work[p].pc # "idle"
  BY DEF Judge, Record, Settle, Mark, Resume, LaneNote, At
<1>2. ASSUME turn' = turn PROVE \A x \in Occ : Untouched(x) => Untouched(x)'
  BY <1>2 DEF Untouched
<1>3. CASE Judge(p)
  <2>1. turn' = turn /\ (At(p, "outcome") \/ At(p, "handed")) BY <1>3 DEF Judge
  <2>2. CASE ~StillOwner(p) \/ ~At(p, "outcome") \/ ~work[p].says
    <3>1. Over(p) \/ Goes(p, "settling") BY <1>3, <2>2 DEF Judge
    <3>2. work'[p].pc \in {"idle", "settling"} /\ work'[p].occ \in {o, Nobody}
      BY <3>1, OverFields, GoesFields DEF MovesTo
    <3>3. ~Telling(p, o)' BY <3>2 DEF Telling, At
    <3>4. \A m \in Proc : ~Marks(p, o, m) BY <2>1, <2>2 DEF Marks, At
    <3> QED BY <1>1, <1>2, <2>1, <3>2, <3>3, <3>4, QuietPays
  <2>3. CASE StillOwner(p) /\ At(p, "outcome") /\ work[p].says
    <3>1. Goes(p, "delivering") BY <1>3, <2>3 DEF Judge
    <3>2. MovesTo(p, "delivering") /\ Keeps(p) BY <3>1, GoesFields
    <3>3. Telling(p, o) BY <2>3 DEF Telling
    <3>4. \A m \in Proc : Marks(p, o, m) => Marks(p, o, m)'
      BY <1>1, <3>2 DEF Marks, MovesTo, Keeps, StillOwner
    <3> QED BY <1>1, <1>2, <2>1, <3>2, <3>3, <3>4, QuietPays DEF MovesTo
  <2> QED BY <2>2, <2>3
<1>4. CASE Settle(p) \/ Mark(p)
  <2>1. work[p].pc \in {"settling", "marking"} /\ turn' = turn
    BY <1>4 DEF Settle, Mark, At
  <2>2. work'[p].pc \in {"idle", "marking"} /\ work'[p].occ \in {o, Nobody}
    BY <1>4, OverFields, GoesFields DEF Settle, Mark, MovesTo
  <2>3. ~Telling(p, o)' BY <2>2 DEF Telling, At
  <2>4. \A m \in Proc : ~Marks(p, o, m) BY <2>1, NoMark DEF At
  <2> QED BY <1>1, <1>2, <2>1, <2>2, <2>3, <2>4, QuietPays
<1>5. CASE Record(p) \/ LaneNote(p)
  <2>1. work'[p].pc \in {"idle", "settling"} /\ work'[p].occ \in {o, Nobody}
    BY <1>5, OverFields, GoesFields DEF Record, LaneNote, MovesTo
  <2>2. ~Telling(p, o)' BY <2>1 DEF Telling, At
  <2>3. CASE work[p].id = Nobody
    <3>1. turn' = turn
      BY <1>5, <2>3, AtWork, Constants DEF Record, LaneNote, At, Owning
    <3>2. \A m \in Proc : ~Marks(p, o, m) BY <2>3, Constants DEF Marks
    <3> QED BY <1>1, <1>2, <2>1, <2>2, <3>1, <3>2, QuietPays
  <2>4. CASE work[p].id # Nobody
    <3>1. Noted(p) BY <1>5, <2>4 DEF Record, LaneNote
    <3>2. work[p].id \in Proc BY <1>1, <2>4, AtWork
    <3>3. PICK d \in {"sent", "failed"} : Wrote(p, Its(p).status, Its(p).holder, d)
      BY <1>1, <2>4, <3>1, NotedWrites
    <3>4. \A m \in Proc : Marks(p, o, m) => turn'[o][m].delivery # "pending"
      BY <3>3 DEF Marks, Wrote
    <3>5. \A x \in Occ : Untouched(x) => Untouched(x)'
      BY <3>3 DEF Untouched, Wrote, Its
    <3> QED BY <1>1, <2>1, <2>2, <3>4, <3>5, QuietPays
  <2> QED BY <2>3, <2>4
<1>6. CASE Resume(p)
  <2>1. At(p, "taken") /\ work[p].id \in Proc
    BY <1>6, AtWork DEF Resume, At, Owning
  <2>2. \A m \in Proc : ~Marks(p, o, m) BY <2>1, NoMark DEF At
  <2>3. CASE Its(p).status # "owed"
    <3>1. Over(p) /\ turn' = turn BY <1>6, <2>3 DEF Resume
    <3>2. work'[p].pc = "idle" /\ work'[p].occ = Nobody BY <3>1, OverFields
    <3>3. ~Telling(p, o)' BY <3>2 DEF Telling, At
    <3> QED BY <1>1, <1>2, <2>2, <3>1, <3>2, <3>3, QuietPays
  <2>4. CASE Its(p).status = "owed"
    <3>1. MovesTo(p, "resumed") BY <1>6, <2>4, GoesFields DEF Resume
    <3>2. PICK d : Wrote(p, "running", p, d) BY <1>6, <2>4, ResumeWrites
    <3>3. Telling(p, o)' => Telling(p, o)
      BY <1>1, <2>1, <2>4, <3>1 DEF Telling, At, MovesTo, StillOwner
    <3>4. \A x \in Occ : Untouched(x) => Untouched(x)' BY <1>1, <2>1, <2>4, <3>2, Touch
    <3> QED BY <1>1, <2>2, <3>1, <3>3, <3>4, QuietPays DEF MovesTo
  <2> QED BY <2>3, <2>4
<1> QED BY <1>3, <1>4, <1>5, <1>6

\* No step tells more than it has paid for.
LEMMA PaidStep == Inv /\ Held /\ Before /\ Paid /\ [Next]_vars => Paid'
<1> SUFFICES ASSUME Inv, Held, Before, Paid, [Next]_vars PROVE Paid' OBVIOUS
<1>1. TurnsKept BY HeldStep
<1>2. hist' \in History BY InvNext DEF Inv, TypeOK
<1>3. ASSUME UNCHANGED <<turn, claim, work, hist>> PROVE Paid'
  <2> SUFFICES ASSUME NEW o \in Occ PROVE Balanced(o)' BY DEF Paid
  <2>1. \A q \in Proc : Telling(q, o)' => Telling(q, o)
    BY <1>3 DEF Telling, Untouched, StillOwner, At, Its
  <2>2. Open(o)' => Open(o) BY <1>3 DEF Open, Marks, StillOwner, At
  <2>3. Balanced(o) /\ hist.told[o] \in Nat /\ hist.faults \in Nat
    BY Tallied DEF Paid
  <2> QED BY <1>3, <2>1, <2>2, <2>3, NoMore
<1>4. ASSUME NEW p \in Proc, Beat(p) \/ Nudge(p) PROVE Paid'
  <2>1. /\ StillOwner(p) /\ work[p].pc = "idle" /\ Alone(p)
        /\ UNCHANGED <<turn, claim, hist>> /\ work'[p].pc \in {"due", "taken"}
    BY <1>4, Found
  <2> SUFFICES ASSUME NEW o \in Occ PROVE Balanced(o)' BY DEF Paid
  <2>2. Untouched(o) => Untouched(o)' BY <2>1 DEF Untouched
  <2>3. \A q \in Proc : q # p /\ Telling(q, o)' => Telling(q, o)
    BY <1>1, <2>1, <2>2, OthersOwe
  <2>4. ~Telling(p, o)' BY <2>1 DEF Telling, At, StillOwner
  <2>5. \A m \in Proc : ~Marks(p, o, m) BY <2>1, NoMark DEF At
  <2>6. Open(o)' => Open(o) BY <1>1, <2>1, <2>5, StaysShut
  <2>7. Balanced(o) /\ hist.told[o] \in Nat /\ hist.faults \in Nat
    BY Tallied DEF Paid
  <2> QED BY <2>1, <2>3, <2>4, <2>6, <2>7, NoMore
<1>5. ASSUME NEW p \in Proc, Run(p) PROVE Paid'
  <2>1. work[p].occ \in Occ BY <1>5, Moved, AtWork
  <2>2. PICK o \in Occ : work[p].occ = o BY <2>1
  <2> QED
    BY <1>1, <1>2, <1>5, <2>2, ComesPays, CreatePays, LeavePays, TellPays, FailPays,
       RestPays DEF Run
<1>6. ASSUME NEW p \in Proc, Crash(p) PROVE Paid'
  <2> SUFFICES ASSUME NEW o \in Occ PROVE Balanced(o)' BY DEF Paid
  <2>1. Balanced(o) /\ hist.told[o] \in Nat /\ hist.faults \in Nat
    BY Tallied DEF Paid
  <2>2. hist'.told = hist.told /\ hist'.faults = hist.faults + 1
    <3>1. hist \in History BY DEF Inv, TypeOK
    <3> QED BY <1>6, <3>1 DEF Crash, Happens, History
  <2>3. Alone(p) /\ work'[p].pc = "idle"
    BY <1>6 DEF Crash, Alone, Idle, Inv, TypeOK
  <2>4. ~Telling(p, o)' BY <2>3 DEF Telling, At
  <2>5. \A m \in Proc : turn'[o][m].status = turn[o][m].status
    <3>1. \A m \in Proc : turn[o][m] \in Turn BY DEF Inv, TypeOK
    <3> QED BY <1>6, <3>1 DEF Crash, Turn
  <2>6. ASSUME NEW q \in Proc, q # p, Telling(q, o)' PROVE Telling(q, o)
    <3>1. work'[q] = work[q] BY <2>3, <2>6 DEF Alone
    <3>2. StillOwner(q)' <=> StillOwner(q)
      BY <1>6, <2>6, Constants DEF Crash, StillOwner
    <3>3. Untouched(o)' <=> Untouched(o) BY <2>5 DEF Untouched
    <3>4. work[q].occ = o /\ work[q].pc # "idle" BY <2>6, <3>1 DEF Telling, At
    <3>5. work[q].pc \in {"taken", "resumed"} => Its(q)'.status = Its(q).status
      <4>1. work[q].pc \in {"taken", "resumed"} => work[q].id \in Proc
        BY AtWork DEF Owning
      <4> QED BY <2>5, <3>1, <3>4, <4>1 DEF Its
    <3> QED BY <2>6, <3>1, <3>2, <3>3, <3>4, <3>5 DEF Telling, At
  <2>7. \A q \in Proc : Telling(q, o)' => Telling(q, o) BY <2>4, <2>6
  <2> QED BY <2>1, <2>2, <2>7, NoMore
<1>7. ASSUME NEW p \in Proc, Boot(p) PROVE Paid'
  <2> SUFFICES ASSUME NEW o \in Occ PROVE Balanced(o)' BY DEF Paid
  <2>1. Balanced(o) /\ hist.told[o] \in Nat /\ hist.faults \in Nat
    BY Tallied DEF Paid
  <2>2. work' = work /\ claim' = p /\ work[p].pc = "idle" /\ work[p].occ = Nobody
    BY <1>7 DEF Boot, At, Inv, TypeOK
  <2>3. \A q : ~Marks(p, o, q) /\ ~Telling(p, o) /\ ~Telling(p, o)'
    BY <2>2, NobodyIsNoOccurrence DEF Marks, Telling
  <2>4. \A m \in Proc : /\ turn'[o][m].status = "absent" <=> turn[o][m].status = "absent"
                        /\ turn'[o][m].status = "done" <=> turn[o][m].status = "done"
                        /\ turn'[o][m].delivery = turn[o][m].delivery
    <3>1. \A m \in Proc : turn[o][m] \in Turn BY DEF Inv, TypeOK
    <3> QED BY <1>7, <3>1 DEF Boot, Reclaimed, Turn
  <2>5. Untouched(o)' <=> Untouched(o) BY <2>4 DEF Untouched
  <2>6. ASSUME NEW q \in Proc, q # claim, Telling(q, o)' PROVE Telling(q, o)
    <3>1. q # p BY <2>3, <2>6
    <3>2. ~StillOwner(q)' /\ ~StillOwner(q) BY <2>2, <2>6, <3>1 DEF StillOwner
    <3>3. work[q].occ = o /\ work[q].pc # "idle" BY <2>2, <2>6 DEF Telling, At
    <3>4. work[q].pc \in {"taken", "resumed"} =>
            (Its(q)'.status = "done" <=> Its(q).status = "done")
      <4>1. work[q].pc \in {"taken", "resumed"} => work[q].id \in Proc
        BY AtWork DEF Owning
      <4> QED BY <2>2, <2>4, <3>3, <4>1 DEF Its
    <3> QED BY <2>2, <2>5, <2>6, <3>2, <3>3, <3>4 DEF Telling, At
  <2>7. ASSUME \A q, m \in Proc : ~Marks(q, o, m), Open(o)' PROVE Open(o)
    BY <2>4, <2>7 DEF Open, Untold
  <2>8. CASE claim = Nobody /\ hist' = hist
    <3>1. \A q \in Proc : Telling(q, o)' => Telling(q, o) BY <2>6, <2>8, Constants
    <3>2. \A q, m \in Proc : ~Marks(q, o, m) BY <2>8, Constants DEF Marks, StillOwner
    <3> QED BY <2>1, <2>7, <2>8, <3>1, <3>2, NoMore
  <2>9. CASE claim # Nobody /\ hist' = [hist EXCEPT !.faults = @ + 1, !.stolen = TRUE]
    <3>1. hist'.told = hist.told /\ hist'.faults = hist.faults + 1
      <4>1. hist \in History BY DEF Inv, TypeOK
      <4> QED BY <2>9, <4>1 DEF History
    <3>2. PICK r \in Proc : r = claim BY <2>9 DEF Inv, TypeOK
    <3>3. CASE Telling(r, o)' => Telling(r, o)
      <4>1. \A q \in Proc : Telling(q, o)' => Telling(q, o) BY <2>6, <3>2, <3>3
      <4> QED BY <2>1, <3>1, <4>1, NoMore
    <3>4. CASE Telling(r, o)' /\ ~Telling(r, o)
      <4>1. work[r].pc \in {"taken", "resumed", "due", "unbound", "bound", "fresh"}
        BY <2>2, <3>4 DEF Telling, At, StillOwner
      <4>2. \A q, m \in Proc : ~Marks(q, o, m)
        BY <3>2, <4>1 DEF Marks, StillOwner, At
      <4> QED BY <1>2, <2>1, <2>6, <2>7, <3>1, <3>2, <4>2, OneMore
    <3> QED BY <3>3, <3>4
  <2> QED BY <1>7, <2>8, <2>9 DEF Boot
<1> QED
  <2>1. CASE UNCHANGED vars BY <1>3, <2>1 DEF vars
  <2>2. CASE Tick BY <1>3, <2>2 DEF Tick
  <2> QED BY <2>1, <2>2, <1>4, <1>5, <1>6, <1>7 DEF Next

\* The owner is told an outcome once, and each crash, lost claim or failed run costs
\* at most one repetition, whoever of the scheduler and the lane tells it and however
\* many gateways are alive.
THEOREM ToldCorrect == Spec => []ToldOncePerFault
<1>1. Init => Held /\ Before /\ Paid
  <2> SUFFICES ASSUME Init PROVE Held /\ Before /\ Paid OBVIOUS
  <2>1. work = [p \in Proc |-> Idle] /\ claim = Nobody BY DEF Init
  <2>2. \A p \in Proc : work[p].pc = "idle" /\ work[p].occ = Nobody /\ ~work[p].answer
    BY <2>1 DEF Idle
  <2>3. Held /\ Before BY <2>2 DEF Held, Before, Holding, At
  <2>4. ASSUME NEW o \in Occ PROVE Balanced(o)
    <3>1. Owing(o) = {} BY <2>2, NobodyIsNoOccurrence DEF Owing, Telling
    <3>2. IsFiniteSet(Owing(o)) /\ Cardinality(Owing(o)) = 0 BY <3>1, FS_EmptySet
    <3>3. hist.told[o] = 0 /\ hist.faults = 0 BY DEF Init
    <3> QED BY <3>2, <3>3 DEF Balanced, Due
  <2> QED BY <2>3, <2>4 DEF Paid
<1>2. Inv /\ Paid => ToldOncePerFault
  <2> SUFFICES ASSUME Inv, Paid, NEW o \in Occ PROVE hist.told[o] <= 1 + hist.faults
    BY DEF ToldOncePerFault
  <2>1. Balanced(o) /\ hist.told[o] \in Nat /\ hist.faults \in Nat BY Tallied DEF Paid
  <2>2. Cardinality(Owing(o)) \in Nat BY <2>1, FS_CardinalityType DEF Balanced
  <2> QED BY <2>1, <2>2 DEF Balanced, Due
<1> QED
  BY <1>1, <1>2, InvInit, InvNext, HeldStep, BeforeStep, PaidStep, PTL DEF Spec
=============================================================================
