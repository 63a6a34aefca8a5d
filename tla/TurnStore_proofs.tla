-------------------------- MODULE TurnStore_proofs --------------------------
(* Proofs about TurnStore, for every value of its constants.               *)
EXTENDS TurnStore, FiniteSetTheorems, TLAPS

----------------------------------------------------------------------------
(* What the statements do to a row.                                        *)

\* A checkpoint keeps the status, the claim and the lease index of the row.
LEMMA SavedRow ==
  ASSUME NEW r \in Row, NEW d \in Drive
  PROVE  /\ Saved(r, d) \in Row
         /\ Saved(r, d).status = r.status
         /\ Saved(r, d).token = r.token
         /\ Saved(r, d).author = d.token
         /\ Saved(r, d).idx = r.idx
  BY DEF Saved, Row, Drive

\* Folding a lease into the rollup keeps the row well typed and its index.
LEMMA FoldedRow ==
  ASSUME NEW r \in Row, NEW n \in Nat
  PROVE  /\ Folded(r, n) \in Row
         /\ Folded(r, n).idx = r.idx
<1>1. r.leases + 1 \in Nat /\ r.lifeCalls + n \in Nat
  BY DEF Row
<1> DEFINE a == r.leases + 1
           b == r.lifeCalls + n
<1>2. Folded(r, n) = [r EXCEPT !.leases = a, !.lifeCalls = b]
  BY DEF Folded
<1>3. a \in Nat /\ b \in Nat
  BY <1>1
<1> HIDE DEF a, b
<1> QED  BY <1>2, <1>3 DEF Row

\* Releasing the claim leaves no token and the rest of the row alone.
LEMMA UnclaimedRow ==
  ASSUME NEW r \in Row
  PROVE  /\ Unclaimed(r) \in Row
         /\ Unclaimed(r).token = NoToken
         /\ Unclaimed(r).status = r.status
         /\ Unclaimed(r).author = r.author
         /\ Unclaimed(r).idx = r.idx
  BY DEF Unclaimed, Row, NoToken

\* A suspended row is waiting, unclaimed, and holds what its driver saved.
LEMMA SuspendedRow ==
  ASSUME NEW r \in Row, NEW d \in Drive, NEW b \in Barrier
  PROVE  /\ Suspended(r, d, b) \in Row
         /\ Suspended(r, d, b).status = "waiting"
         /\ Suspended(r, d, b).token = NoToken
         /\ Suspended(r, d, b).author = d.token
         /\ Suspended(r, d, b).idx = r.idx
<1> DEFINE u == Unclaimed(Saved(r, d))
<1>1. u \in Row /\ u.token = NoToken /\ u.author = d.token /\ u.idx = r.idx
  BY SavedRow, UnclaimedRow
<1>2. Suspended(r, d, b) = [u EXCEPT !.status = "waiting", !.barrier = b]
  BY DEF Suspended
<1> HIDE DEF u
<1> QED  BY <1>1, <1>2 DEF Row, Status

\* A finished row is done, unclaimed, and holds what its driver saved.
LEMMA FinishedRow ==
  ASSUME NEW r \in Row, NEW d \in Drive
  PROVE  /\ Finished(r, d) \in Row
         /\ Finished(r, d).status = "done"
         /\ Finished(r, d).token = NoToken
         /\ Finished(r, d).author = d.token
         /\ Finished(r, d).idx = r.idx
<1> DEFINE f == IF d.built THEN Folded(r, d.calls) ELSE r
           u == Unclaimed(Saved(f, d))
<1>1. f \in Row /\ f.idx = r.idx
  BY FoldedRow DEF Drive
<1>2. u \in Row /\ u.token = NoToken /\ u.author = d.token /\ u.idx = r.idx
  <2> HIDE DEF f
  <2> DEFINE v == Saved(f, d)
  <2>1. v \in Row /\ v.author = d.token /\ v.idx = r.idx
    BY <1>1, SavedRow
  <2> HIDE DEF v
  <2>2. /\ Unclaimed(v) \in Row /\ Unclaimed(v).token = NoToken
        /\ Unclaimed(v).author = d.token /\ Unclaimed(v).idx = r.idx
    BY <2>1, UnclaimedRow
  <2> QED  BY <2>2 DEF v
<1>3. Finished(r, d) = [u EXCEPT !.status = "done"]
  BY DEF Finished
<1> HIDE DEF u
<1> QED  BY <1>2, <1>3 DEF Row, Status

\* A released row is continuable, unclaimed, and holds what its driver saved.
LEMMA ReleasedRow ==
  ASSUME NEW r \in Row, NEW d \in Drive, NEW n \in Nat
  PROVE  /\ Released(r, d, n) \in Row
         /\ Released(r, d, n).status = "continuable"
         /\ Released(r, d, n).token = NoToken
         /\ Released(r, d, n).author = d.token
         /\ Released(r, d, n).idx = r.idx
<1> DEFINE u == Unclaimed(Saved(Folded(r, d.calls), d))
<1>1. u \in Row /\ u.token = NoToken /\ u.author = d.token /\ u.idx = r.idx
  <2>0. d.calls \in Nat
    BY DEF Drive
  <2> DEFINE f == Folded(r, d.calls)
  <2>1. f \in Row /\ f.idx = r.idx
    BY <2>0, FoldedRow
  <2> HIDE DEF f
  <2> DEFINE v == Saved(f, d)
  <2>2. v \in Row /\ v.author = d.token /\ v.idx = r.idx
    BY <2>1, SavedRow
  <2> HIDE DEF v
  <2>3. /\ Unclaimed(v) \in Row /\ Unclaimed(v).token = NoToken
        /\ Unclaimed(v).author = d.token /\ Unclaimed(v).idx = r.idx
    BY <2>2, UnclaimedRow
  <2> QED  BY <2>3 DEF v, f
<1>2. Released(r, d, n) =
        [u EXCEPT !.status = "continuable", !.streak = n, !.cooled = FALSE]
  BY DEF Released
<1> HIDE DEF u
<1> QED  BY <1>1, <1>2 DEF Row, Status

\* The dead streak counted from the lease audit is a natural number.
LEMMA DeadStreakNat ==
  ASSUME NEW ls \in [LeaseIndex -> Lease], NEW c, NEW n \in Nat
  PROVE  DeadStreak(ls, c, n) \in Nat
<1> DEFINE S == {i \in ClosedIndexes(ls) :
                   \A j \in ClosedIndexes(ls) : j >= i => IsDead(ls[j])}
<1>1. IsFiniteSet(0 .. MaxLease)
  BY FS_Interval, BoundsAreNaturals
<1>2. IsFiniteSet(S)
  BY <1>1, FS_Subset DEF ClosedIndexes, LeaseIndex
<1>3. Cardinality(S) \in Nat
  BY <1>2, FS_CardinalityType
<1>4. DeadTail(ls) \in Nat
  BY <1>3 DEF DeadTail
<1> QED  BY <1>4 DEF DeadStreak

\* Closing a lease row keeps the lease table well typed.
LEMMA ClosedType ==
  ASSUME NEW ls \in [LeaseIndex -> Lease], NEW i, NEW n \in Nat, NEW c \in Class
  PROVE  Closed(ls, i, n, c) \in [LeaseIndex -> Lease]
<1>1. [state |-> "closed", calls |-> n, class |-> c] \in Lease
  BY DEF Lease
<1> QED  BY <1>1 DEF Closed

----------------------------------------------------------------------------
(* Types.                                                                  *)

\* The empty table is well typed.
LEMMA TypeInit == Init => TypeOK
  BY DEF Init, TypeOK, NoRow, Row, Status, Barrier, NoToken, NoLease, Lease,
         LeaseIndex, Class, Idle, Drive, Pc, History

\* A process that is doing nothing with a turn is well typed.
LEMMA IdleType == Idle \in Drive
  BY DEF Idle, Drive, Pc, Barrier, NoToken

\* Every update a process makes of what it holds in memory is well typed.
LEMMA DriveUpdates ==
  ASSUME NEW d \in Drive, NEW r \in Row, NEW n \in Nat, NEW b \in BOOLEAN
  PROVE  /\ [d EXCEPT !.pc = "taken"] \in Drive
         /\ Loaded(d, r) \in Drive
         /\ [d EXCEPT !.pc = "opening", !.counts = b, !.resumes = n] \in Drive
         /\ [d EXCEPT !.calls = n] \in Drive
         /\ [d EXCEPT !.pc = "round", !.built = TRUE, !.counts = FALSE] \in Drive
         /\ [d EXCEPT !.pc = "opening", !.token = n] \in Drive
<1>1. Loaded(d, r) \in Drive
  BY DEF Loaded, Drive, Pc, Row
<1> QED  BY <1>1 DEF Drive, Pc

\* Every update of a row that is not one of the statements above is well typed.
LEMMA RowUpdates ==
  ASSUME NEW r \in Row, NEW d \in Drive, NEW n \in Nat, NEW i \in Nat
  PROVE  /\ [r EXCEPT !.status = "running", !.token = n,
                      !.barrier = "none", !.stale = FALSE] \in Row
         /\ [r EXCEPT !.status = "running", !.token = n, !.idx = i, !.streak = 0,
                      !.built = d.built, !.resumes = d.resumes, !.calls = 0,
                      !.author = d.author, !.stale = FALSE] \in Row
         /\ [r EXCEPT !.status = "runnable", !.stale = FALSE] \in Row
         /\ [r EXCEPT !.status = "interrupted"] \in Row
         /\ [r EXCEPT !.cooled = TRUE] \in Row
         /\ [r EXCEPT !.stale = TRUE] \in Row
<1>1. /\ d.built \in BOOLEAN /\ d.resumes \in Nat /\ d.author \in Nat
  BY DEF Drive
<1>2. [r EXCEPT !.status = "running", !.token = n, !.idx = i, !.streak = 0,
                !.built = d.built, !.resumes = d.resumes, !.calls = 0,
                !.author = d.author, !.stale = FALSE] \in Row
  BY <1>1 DEF Row, Status
<1> QED  BY <1>2 DEF Row, Status, Barrier

\* An opened lease row is a lease row.
LEMMA LeaseOpened ==
  ASSUME NEW l \in Lease
  PROVE  [l EXCEPT !.state = "open"] \in Lease
  BY DEF Lease

\* Inserting a lease row keeps the lease table well typed.
LEMMA OpenedType ==
  ASSUME lease \in [Turn -> [LeaseIndex -> Lease]], NEW t \in Turn, NEW i \in LeaseIndex
  PROVE  Opened(t, i) \in [Turn -> [LeaseIndex -> Lease]]
<1>1. lease[t][i] \in Lease
  OBVIOUS
<1> DEFINE l == [lease[t][i] EXCEPT !.state = "open"]
<1>2. l \in Lease
  BY <1>1, LeaseOpened
<1>3. Opened(t, i) = lease \/ Opened(t, i) = [lease EXCEPT ![t][i] = l]
  BY DEF Opened
<1> HIDE DEF l
<1> QED  BY <1>2, <1>3

\* Lease 0 is a lease.
LEMMA FirstLease == 0 \in LeaseIndex
  BY BoundsAreNaturals DEF LeaseIndex

\* Every step keeps the variables well typed.
LEMMA TypeStep == TypeOK /\ [Next]_vars => TypeOK'
<1> SUFFICES ASSUME TypeOK, [Next]_vars
             PROVE  TypeOK'
  OBVIOUS
<1> USE DEF TypeOK
<1>1. ASSUME NEW t \in Turn, Enqueue(t)
      PROVE  TypeOK'
  <2>1. [NoRow EXCEPT !.status = "runnable"] \in Row
    BY DEF NoRow, Row, Status, Barrier, NoToken
  <2>2. lease' \in [Turn -> [LeaseIndex -> Lease]]
    BY <1>1, FirstLease, OpenedType DEF Enqueue
  <2> QED  BY <1>1, <2>1, <2>2 DEF Enqueue, SetRow, Machine
<1>2. ASSUME NEW p \in Proc, NEW t \in Turn, RunTurn(p, t)
      PROVE  TypeOK'
  <2>1. [NoRow EXCEPT !.status = "running", !.token = next] \in Row
    BY DEF NoRow, Row, Status, Barrier, NoToken
  <2>2. [Idle EXCEPT !.pc = "opening", !.token = next] \in Drive
    BY IdleType DEF Drive, Pc
  <2>3. lease' \in [Turn -> [LeaseIndex -> Lease]]
    BY <1>2, FirstLease, OpenedType DEF RunTurn
  <2> QED  BY <1>2, <2>1, <2>2, <2>3 DEF RunTurn, Mint, SetRow, SetDrive, Machine
<1>3. ASSUME NEW p \in Proc, NEW t \in Turn, Look(p, t)
      PROVE  TypeOK'
  <2>1. row[t] \in Row
    OBVIOUS
  <2>2. [Idle EXCEPT
           !.pc = "seen",
           !.first = row[t].status = "runnable" /\ ~row[t].built,
           !.woken = row[t].status = "waiting" \/ row[t].barrier # "none",
           !.barrier = row[t].barrier] \in Drive
    BY <2>1, IdleType DEF Drive, Pc, Row
  <2> QED  BY <1>3, <2>2 DEF Look, SetDrive, Machine
<1>4. ASSUME NEW p \in Proc, NEW t \in Turn, Claim(p, t)
      PROVE  TypeOK'
  <2>0. row[t] \in Row /\ drive[p][t] \in Drive
    OBVIOUS
  <2>1. [row[t] EXCEPT !.status = "running", !.token = next,
                       !.barrier = "none", !.stale = FALSE] \in Row
    BY <2>0, RowUpdates
  <2>2. [drive[p][t] EXCEPT !.pc = "taken"] \in Drive
    BY <2>0, DriveUpdates
  <2> QED  BY <1>4, <2>1, <2>2 DEF Claim, Mint, SetRow, SetDrive, Machine
<1>5. ASSUME NEW p \in Proc, NEW t \in Turn,
             ClaimLost(p, t) \/ LoseClaim(p, t) \/ Abandon(p, t) \/ GrantLost(p, t)
      PROVE  TypeOK'
  <2>1. drive' = [drive EXCEPT ![p][t] = Idle]
    BY <1>5 DEF ClaimLost, LoseClaim, Abandon, GrantLost, SetDrive
  <2>2. UNCHANGED <<row, lease, next, minted, hist, up, scan, crashes>>
    BY <1>5 DEF ClaimLost, LoseClaim, Abandon, GrantLost, Machine
  <2> QED  BY <2>1, <2>2, IdleType
<1>6. ASSUME NEW p \in Proc, NEW t \in Turn, ReadBack(p, t)
      PROVE  TypeOK'
  <2>1. Loaded(drive[p][t], row[t]) \in Drive
    <3>1. row[t] \in Row /\ drive[p][t] \in Drive
      OBVIOUS
    <3> QED  BY <3>1, DriveUpdates
  <2> QED  BY <1>6, <2>1 DEF ReadBack, SetDrive, Machine
<1>7. ASSUME NEW p \in Proc, NEW t \in Turn, Resuspend(p, t)
      PROVE  TypeOK'
  <2>1. Suspended(row[t], drive[p][t], "approval") \in Row
    BY SuspendedRow DEF Barrier
  <2> QED  BY <1>7, <2>1, IdleType DEF Resuspend, SetRow, SetDrive, Machine
<1>8. ASSUME NEW p \in Proc, NEW t \in Turn, EndTurn(p, t)
      PROVE  TypeOK'
  <2>1. Finished(row[t], drive[p][t]) \in Row
    BY FinishedRow
  <2>2. Closed(lease[t], row[t].idx, drive[p][t].calls, "end") \in [LeaseIndex -> Lease]
    <3>1. lease[t] \in [LeaseIndex -> Lease] /\ drive[p][t] \in Drive
      OBVIOUS
    <3>2. drive[p][t].calls \in Nat /\ "end" \in Class
      BY <3>1 DEF Drive, Class
    <3> QED  BY <3>1, <3>2, ClosedType
  <2> QED  BY <1>8, <2>1, <2>2, IdleType DEF EndTurn, SetRow, SetDrive, Machine
<1>9. ASSUME NEW p \in Proc, NEW t \in Turn, Start(p, t)
      PROVE  TypeOK'
  <2> DEFINE spends == ~drive[p][t].first /\ ~drive[p][t].woken
             n == IF spends THEN drive[p][t].resumes + 1 ELSE drive[p][t].resumes
             d == [drive[p][t] EXCEPT !.pc = "opening", !.counts = spends,
                                      !.resumes = n]
  <2>1. n \in Nat /\ spends \in BOOLEAN
    BY DEF Drive
  <2>2. d \in Drive
    <3> HIDE DEF n, spends
    <3>1. drive[p][t] \in Drive
      OBVIOUS
    <3> QED  BY <2>1, <3>1, DriveUpdates
  <2>3. drive' = [drive EXCEPT ![p][t] = d]
    BY <1>9 DEF Start, SetDrive
  <2>4. hist' \in History
    <3>1. hist.tried[t] + 1 \in Nat
      BY DEF History
    <3> DEFINE m == [hist.tried EXCEPT ![t] = @ + 1]
    <3>2. m \in [Turn -> Nat]
      BY <3>1 DEF History
    <3>3. hist' = hist \/ hist' = [hist EXCEPT !.tried = m]
      BY <1>9 DEF Start, History
    <3> HIDE DEF m
    <3> QED  BY <3>2, <3>3 DEF History
  <2> HIDE DEF d
  <2> QED  BY <1>9, <2>2, <2>3, <2>4 DEF Start, Machine
<1>10. ASSUME NEW p \in Proc, NEW t \in Turn, ToolCall(p, t)
       PROVE  TypeOK'
  <2>1. drive[p][t].calls + 1 \in Nat
    BY DEF Drive
  <2> DEFINE n == drive[p][t].calls + 1
             d == [drive[p][t] EXCEPT !.calls = n]
  <2>2. d \in Drive
    <3>1. n \in Nat /\ drive[p][t] \in Drive
      BY <2>1
    <3> HIDE DEF n
    <3> QED  BY <3>1, DriveUpdates
  <2>3. drive' = [drive EXCEPT ![p][t] = d]
    BY <1>10 DEF ToolCall, SetDrive
  <2> HIDE DEF d
  <2> QED  BY <1>10, <2>2, <2>3 DEF ToolCall, Machine
<1>11. ASSUME NEW p \in Proc, NEW t \in Turn, Checkpoint(p, t)
       PROVE  TypeOK'
  <2> DEFINE d == [drive[p][t] EXCEPT !.pc = "round", !.built = TRUE, !.counts = FALSE]
  <2>1. d \in Drive
    <3>1. drive[p][t] \in Drive
      OBVIOUS
    <3> QED  BY <3>1, DriveUpdates
  <2>2. row' = [row EXCEPT ![t] = Saved(row[t], d)] /\ drive' = [drive EXCEPT ![p][t] = d]
    BY <1>11 DEF Checkpoint, SetRow, SetDrive
  <2>3. hist' \in History
    <3>1. hist.booked[t] + 1 \in Nat
      BY DEF History
    <3> DEFINE m == [hist.booked EXCEPT ![t] = @ + 1]
    <3>2. m \in [Turn -> Nat]
      BY <3>1 DEF History
    <3>3. hist' = hist \/ hist' = [hist EXCEPT !.booked = m]
      BY <1>11 DEF Checkpoint, History
    <3> HIDE DEF m
    <3> QED  BY <3>2, <3>3 DEF History
  <2> HIDE DEF d
  <2>4. Saved(row[t], d) \in Row
    BY <2>1, SavedRow
  <2> QED  BY <1>11, <2>1, <2>2, <2>3, <2>4 DEF Checkpoint, Machine
<1>12. ASSUME NEW p \in Proc, NEW t \in Turn, NEW b \in {"event", "approval"},
              Suspend(p, t, b)
       PROVE  TypeOK'
  <2>1. Suspended(row[t], drive[p][t], b) \in Row
    BY SuspendedRow DEF Barrier
  <2> QED  BY <1>12, <2>1, IdleType DEF Suspend, SetRow, SetDrive, Machine
<1>13. ASSUME NEW p \in Proc, NEW t \in Turn, NEW c \in {"dead", "other"},
              Release(p, t, c)
       PROVE  TypeOK'
  <2> DEFINE n == DeadStreak(lease[t], c, drive[p][t].calls)
  <2>1. n \in Nat
    BY DeadStreakNat DEF Drive
  <2>2. row' = [row EXCEPT ![t] = Released(row[t], drive[p][t], n)]
    BY <1>13 DEF Release, SetRow
  <2> HIDE DEF n
  <2>3. Released(row[t], drive[p][t], n) \in Row
    BY <2>1, ReleasedRow
  <2>4. Closed(lease[t], row[t].idx, drive[p][t].calls, c) \in [LeaseIndex -> Lease]
    <3>1. lease[t] \in [LeaseIndex -> Lease] /\ drive[p][t] \in Drive
      OBVIOUS
    <3>2. drive[p][t].calls \in Nat /\ c \in Class
      BY <3>1 DEF Drive, Class
    <3> QED  BY <3>1, <3>2, ClosedType
  <2> QED  BY <1>13, <2>2, <2>3, <2>4, IdleType DEF Release, SetDrive, Machine
<1>14. ASSUME NEW p \in Proc, NEW t \in Turn, LookContinue(p, t)
       PROVE  TypeOK'
  <2>1. [Idle EXCEPT !.pc = "renewing", !.built = TRUE,
                     !.idx = row[t].idx, !.resumes = row[t].resumes,
                     !.author = row[t].author] \in Drive
    BY IdleType DEF Drive, Pc, Row
  <2> QED  BY <1>14, <2>1 DEF LookContinue, SetDrive, Machine
<1>15. ASSUME NEW p \in Proc, NEW t \in Turn, Grant(p, t)
       PROVE  TypeOK'
  <2> DEFINE d == drive[p][t]
             i == row[t].idx + 1
             r == [row[t] EXCEPT
                     !.status = "running", !.token = next, !.idx = i, !.streak = 0,
                     !.built = d.built, !.resumes = d.resumes, !.calls = 0,
                     !.author = d.author, !.stale = FALSE]
             e == [d EXCEPT !.pc = "opening", !.token = next]
  <2>0. row[t] \in Row /\ d \in Drive
    OBVIOUS
  <2>1. i \in Nat
    BY <2>0 DEF Row
  <2>2. r \in Row
    <3> HIDE DEF i, d
    <3> QED  BY <2>0, <2>1, RowUpdates
  <2>3. e \in Drive
    <3> HIDE DEF d
    <3> QED  BY <2>0, DriveUpdates
  <2>4. row' = [row EXCEPT ![t] = r] /\ drive' = [drive EXCEPT ![p][t] = e]
    BY <1>15 DEF Grant, SetRow, SetDrive
  <2>5. lease' \in [Turn -> [LeaseIndex -> Lease]]
    <3>1. i \in LeaseIndex
      BY <1>15, <2>1 DEF Grant, LeaseIndex
    <3>2. lease' = Opened(t, i)
      BY <1>15 DEF Grant
    <3> HIDE DEF i
    <3> QED  BY <3>1, <3>2, OpenedType
  <2>6. hist' \in History
    BY <1>15 DEF Grant, History
  <2> HIDE DEF r, e
  <2> QED  BY <1>15, <2>2, <2>3, <2>4, <2>5, <2>6 DEF Grant, Mint, Machine
<1>16. ASSUME NEW t \in Turn, Wake(t) \/ Cool(t) \/ Age(t)
       PROVE  TypeOK'
  <2>1. /\ [row[t] EXCEPT !.status = "runnable", !.stale = FALSE] \in Row
        /\ [row[t] EXCEPT !.cooled = TRUE] \in Row
        /\ [row[t] EXCEPT !.stale = TRUE] \in Row
    <3>1. row[t] \in Row
      OBVIOUS
    <3> QED  BY <3>1, RowUpdates, IdleType
  <2> QED  BY <1>16, <2>1 DEF Wake, Cool, Age, SetRow, Machine
<1>17. ASSUME NEW p \in Proc, Crash(p)
       PROVE  TypeOK'
  <2>1. [t \in Turn |-> Idle] \in [Turn -> Drive]
    BY IdleType
  <2> QED  BY <1>17, <2>1 DEF Crash
<1>18. ASSUME NEW p \in Proc, Boot(p)
       PROVE  TypeOK'
  <2>1. {[turn |-> t, token |-> row[t].token, stale |-> row[t].stale] : t \in Running}
          \in SUBSET Candidate
    BY DEF Candidate, Running, Row
  <2> QED  BY <1>18, <2>1 DEF Boot
<1>19. ASSUME NEW p \in Proc, NEW c \in scan[p], ReclaimRow(p, c)
       PROVE  TypeOK'
  <2>1. c \in Candidate
    OBVIOUS
  <2>2. c.turn \in Turn /\ c.token \in Nat
    BY <2>1 DEF Candidate
  <2>3. [Unclaimed(row[c.turn]) EXCEPT !.status = "interrupted"] \in Row
    <3>1. Unclaimed(row[c.turn]) \in Row
      BY <2>2, UnclaimedRow
    <3> QED  BY <3>1 DEF Row, Status
  <2>4. hist' \in History
    <3> DEFINE stolen == IF Alive(row[c.turn].token)
                         THEN hist.stolen \cup {c.turn} ELSE hist.stolen
    <3>1. stolen \in SUBSET Turn
      BY <2>2 DEF History
    <3>2. hist' = [hist EXCEPT !.stolen = stolen]
      BY <1>19 DEF ReclaimRow, History
    <3> HIDE DEF stolen
    <3> QED  BY <3>1, <3>2 DEF History
  <2>5. scan' \in [Proc -> SUBSET Candidate]
    BY <1>19 DEF ReclaimRow
  <2> QED  BY <1>19, <2>2, <2>3, <2>4, <2>5 DEF ReclaimRow, SetRow
<1>20. ASSUME NEW p \in Proc, NEW c \in scan[p], SkipRow(p, c)
       PROVE  TypeOK'
  BY <1>20 DEF SkipRow
<1>21. CASE UNCHANGED vars
  BY <1>21 DEF vars
<1> QED
  BY <1>1, <1>2, <1>3, <1>4, <1>5, <1>6, <1>7, <1>8, <1>9, <1>10, <1>11, <1>12,
     <1>13, <1>14, <1>15, <1>16, <1>17, <1>18, <1>19, <1>20, <1>21
  DEF Next, Resume, Run, Renew, World, Process, Reclaim, Refuse, Exhausted, Finish

\* Every state of every behaviour is well typed.
THEOREM TypeCorrect == Spec => []TypeOK
<1>1. Init => TypeOK
  BY TypeInit
<1>2. TypeOK /\ [Next]_vars => TypeOK'
  BY TypeStep
<1> QED  BY <1>1, <1>2, PTL DEF Spec

----------------------------------------------------------------------------
(* A row is claimed exactly while it is running.                           *)

(***************************************************************************)
(* The statements that land are the same in every one of the steps below:  *)
(* what a step of a process does to the row of a turn, as far as its       *)
(* status, its token, its author and its lease index are concerned.        *)
(***************************************************************************)
SetsRow(t, status, token, author, idx) ==
  \E r \in Row :
    /\ row' = [row EXCEPT ![t] = r]
    /\ r.status = status /\ r.token = token /\ r.author = author /\ r.idx = idx

\* Steps that write no row, or only note the time of a running or yielded one.
QuietStep ==
  /\ next' = next
  /\ \A t \in Turn :
       /\ row'[t] = row[t] \/ row[t].status \in {"running", "continuable"}
       /\ row'[t].status = row[t].status /\ row'[t].token = row[t].token
       /\ row'[t].author = row[t].author /\ row'[t].idx = row[t].idx

EnqueueStep(t) ==
  /\ next' = next
  /\ row[t].status = "absent"
  /\ SetsRow(t, "runnable", NoToken, NoToken, 0)

RunStep(t) ==
  /\ next' = next + 1
  /\ row[t].status = "absent"
  /\ SetsRow(t, "running", next, NoToken, 0)

ClaimStep(t) ==
  /\ next' = next + 1
  /\ row[t].status \in Claimable
  /\ SetsRow(t, "running", next, row[t].author, row[t].idx)

WakeStep(t) ==
  /\ next' = next
  /\ row[t].status = "waiting"
  /\ SetsRow(t, "runnable", row[t].token, row[t].author, row[t].idx)

SaveStep(t) ==
  /\ next' = next
  /\ row[t].token # NoToken
  /\ SetsRow(t, row[t].status, row[t].token, row[t].token, row[t].idx)

SettleStep(t, status) ==
  /\ next' = next
  /\ row[t].token # NoToken
  /\ status = "waiting" => row[t].status = "running"
  /\ SetsRow(t, status, NoToken, row[t].token, row[t].idx)

GrantStep(t, author) ==
  /\ next' = next + 1
  /\ row[t].status = "continuable"
  /\ SetsRow(t, "running", next, author, row[t].idx + 1)

RevokeStep(t) ==
  /\ next' = next
  /\ row[t].status = "running"
  /\ SetsRow(t, "interrupted", NoToken, row[t].author, row[t].idx)

RowStep ==
  \/ QuietStep
  \/ \E t \in Turn :
       \/ EnqueueStep(t) \/ RunStep(t) \/ ClaimStep(t) \/ WakeStep(t)
       \/ SaveStep(t) \/ RevokeStep(t)
       \/ \E status \in {"waiting", "done", "continuable"} : SettleStep(t, status)
       \/ \E p \in Proc :
            /\ drive[p][t].pc = "renewing"
            /\ drive[p][t].idx # row[t].idx => t \in hist'.rewound
            /\ GrantStep(t, drive[p][t].author)

\* Every step of the specification is one of them.
LEMMA EveryStepIsARowStep == TypeOK /\ [Next]_vars => RowStep
<1> SUFFICES ASSUME TypeOK, [Next]_vars
             PROVE  RowStep
  OBVIOUS
<1>0. /\ \A t \in Turn : row[t] \in Row
      /\ \A p \in Proc, t \in Turn : drive[p][t] \in Drive
      /\ row \in [Turn -> Row] /\ lease \in [Turn -> [LeaseIndex -> Lease]]
      /\ scan \in [Proc -> SUBSET Candidate]
  BY DEF TypeOK
<1>1. ASSUME NEW t \in Turn, Enqueue(t)
      PROVE  RowStep
  <2> DEFINE r == [NoRow EXCEPT !.status = "runnable"]
  <2>1. /\ r \in Row /\ r.status = "runnable" /\ r.token = NoToken
        /\ r.author = NoToken /\ r.idx = 0
    BY DEF NoRow, Row, Status, Barrier, NoToken
  <2>2. row' = [row EXCEPT ![t] = r]
    BY <1>1 DEF Enqueue, SetRow
  <2> HIDE DEF r
  <2>3. SetsRow(t, "runnable", NoToken, NoToken, 0)
    BY <2>1, <2>2 DEF SetsRow
  <2>4. EnqueueStep(t)
    BY <1>1, <2>3 DEF Enqueue, EnqueueStep
  <2> QED  BY <2>4 DEF RowStep
<1>2. ASSUME NEW p \in Proc, NEW t \in Turn, RunTurn(p, t)
      PROVE  RowStep
  <2> DEFINE r == [NoRow EXCEPT !.status = "running", !.token = next]
  <2>1. /\ r \in Row /\ r.status = "running" /\ r.token = next
        /\ r.author = NoToken /\ r.idx = 0
    BY DEF TypeOK, NoRow, Row, Status, Barrier, NoToken
  <2>2. row' = [row EXCEPT ![t] = r]
    BY <1>2 DEF RunTurn, SetRow
  <2> HIDE DEF r
  <2>3. SetsRow(t, "running", next, NoToken, 0)
    BY <2>1, <2>2 DEF SetsRow
  <2>4. RunStep(t)
    BY <1>2, <2>3 DEF RunTurn, Mint, RunStep
  <2> QED  BY <2>4 DEF RowStep
<1>3. ASSUME NEW p \in Proc, NEW t \in Turn, Claim(p, t)
      PROVE  RowStep
  <2> DEFINE r == [row[t] EXCEPT !.status = "running", !.token = next,
                                 !.barrier = "none", !.stale = FALSE]
  <2>1. r \in Row
    BY <1>0, RowUpdates, IdleType DEF TypeOK
  <2>2. /\ r.status = "running" /\ r.token = next
        /\ r.author = row[t].author /\ r.idx = row[t].idx
    BY <1>0 DEF Row
  <2>3. row' = [row EXCEPT ![t] = r]
    BY <1>3 DEF Claim, SetRow
  <2> HIDE DEF r
  <2>4. SetsRow(t, "running", next, row[t].author, row[t].idx)
    BY <2>1, <2>2, <2>3 DEF SetsRow
  <2>5. ClaimStep(t)
    BY <1>3, <2>4 DEF Claim, Mint, ClaimStep
  <2> QED  BY <2>5 DEF RowStep
<1>4. ASSUME UNCHANGED <<row, next>>
      PROVE  RowStep
  BY <1>4 DEF RowStep, QuietStep
<1>5. ASSUME NEW p \in Proc, NEW t \in Turn, NEW b \in Barrier, NEW d,
             d = drive[p][t], row[t].status = "running", Fenced(p, t),
             row' = [row EXCEPT ![t] = Suspended(row[t], d, b)], next' = next
      PROVE  RowStep
  <2>1. row[t] \in Row /\ d \in Drive /\ d.token = row[t].token /\ row[t].token # NoToken
    BY <1>0, <1>5 DEF Fenced
  <2>2. SetsRow(t, "waiting", NoToken, row[t].token, row[t].idx)
    <3> DEFINE r == Suspended(row[t], d, b)
    <3>1. /\ r \in Row /\ r.status = "waiting" /\ r.token = NoToken
          /\ r.author = row[t].token /\ r.idx = row[t].idx
      BY <2>1, SuspendedRow
    <3>2. row' = [row EXCEPT ![t] = r]
      BY <1>5
    <3> HIDE DEF r
    <3> QED  BY <3>1, <3>2 DEF SetsRow
  <2>3. SettleStep(t, "waiting")
    BY <1>5, <2>1, <2>2 DEF SettleStep
  <2> QED  BY <2>3 DEF RowStep
<1>6. ASSUME NEW p \in Proc, NEW t \in Turn, EndTurn(p, t)
      PROVE  RowStep
  <2> DEFINE d == drive[p][t]
  <2>1. row[t] \in Row /\ d \in Drive /\ d.token = row[t].token /\ row[t].token # NoToken
    BY <1>0, <1>6 DEF EndTurn, Fenced
  <2>2. row' = [row EXCEPT ![t] = Finished(row[t], d)] /\ next' = next
    BY <1>6 DEF EndTurn, SetRow
  <2> HIDE DEF d
  <2>3. SetsRow(t, "done", NoToken, row[t].token, row[t].idx)
    <3> DEFINE r == Finished(row[t], d)
    <3>1. /\ r \in Row /\ r.status = "done" /\ r.token = NoToken
          /\ r.author = row[t].token /\ r.idx = row[t].idx
      BY <2>1, FinishedRow
    <3>2. row' = [row EXCEPT ![t] = r]
      BY <2>2
    <3> HIDE DEF r
    <3> QED  BY <3>1, <3>2 DEF SetsRow
  <2>4. SettleStep(t, "done")
    BY <2>1, <2>2, <2>3 DEF SettleStep
  <2> QED  BY <2>4 DEF RowStep
<1>7. ASSUME NEW p \in Proc, NEW t \in Turn, Checkpoint(p, t)
      PROVE  RowStep
  <2> DEFINE d == [drive[p][t] EXCEPT !.pc = "round", !.built = TRUE, !.counts = FALSE]
  <2>1. d \in Drive
    BY <1>0, DriveUpdates
  <2>2. d.token = row[t].token /\ row[t].token # NoToken
    BY <1>0, <1>7 DEF Checkpoint, Fenced, Drive
  <2>3. row' = [row EXCEPT ![t] = Saved(row[t], d)] /\ next' = next
    BY <1>7 DEF Checkpoint, SetRow
  <2> HIDE DEF d
  <2>4. SetsRow(t, row[t].status, row[t].token, row[t].token, row[t].idx)
    <3> DEFINE r == Saved(row[t], d)
    <3>1. /\ r \in Row /\ r.status = row[t].status /\ r.token = row[t].token
          /\ r.author = row[t].token /\ r.idx = row[t].idx
      BY <1>0, <2>1, <2>2, SavedRow
    <3>2. row' = [row EXCEPT ![t] = r]
      BY <2>3
    <3> HIDE DEF r
    <3> QED  BY <3>1, <3>2 DEF SetsRow
  <2>5. SaveStep(t)
    BY <2>2, <2>3, <2>4 DEF SaveStep
  <2> QED  BY <2>5 DEF RowStep
<1>8. ASSUME NEW p \in Proc, NEW t \in Turn, NEW c \in {"dead", "other"},
             Release(p, t, c)
      PROVE  RowStep
  <2> DEFINE d == drive[p][t]
             n == DeadStreak(lease[t], c, d.calls)
  <2>1. row[t] \in Row /\ d \in Drive /\ d.token = row[t].token /\ row[t].token # NoToken
    BY <1>0, <1>8 DEF Release, Fenced
  <2>2. n \in Nat
    BY <1>0, <2>1, DeadStreakNat DEF Drive
  <2>3. row' = [row EXCEPT ![t] = Released(row[t], d, n)] /\ next' = next
    BY <1>8 DEF Release, SetRow
  <2> HIDE DEF d, n
  <2>4. SetsRow(t, "continuable", NoToken, row[t].token, row[t].idx)
    <3> DEFINE r == Released(row[t], d, n)
    <3>1. /\ r \in Row /\ r.status = "continuable" /\ r.token = NoToken
          /\ r.author = row[t].token /\ r.idx = row[t].idx
      BY <2>1, <2>2, ReleasedRow
    <3>2. row' = [row EXCEPT ![t] = r]
      BY <2>3
    <3> HIDE DEF r
    <3> QED  BY <3>1, <3>2 DEF SetsRow
  <2>5. SettleStep(t, "continuable")
    BY <2>1, <2>3, <2>4 DEF SettleStep
  <2> QED  BY <2>5 DEF RowStep
<1>9. ASSUME NEW p \in Proc, NEW t \in Turn, Grant(p, t)
      PROVE  RowStep
  <2> DEFINE d == drive[p][t]
             i == row[t].idx + 1
             r == [row[t] EXCEPT
                     !.status = "running", !.token = next, !.idx = i, !.streak = 0,
                     !.built = d.built, !.resumes = d.resumes, !.calls = 0,
                     !.author = d.author, !.stale = FALSE]
  <2>1. row[t] \in Row /\ d \in Drive /\ next \in Nat
    BY <1>0 DEF TypeOK
  <2>2. i \in Nat
    BY <2>1 DEF Row
  <2>3. r \in Row /\ r.status = "running" /\ r.token = next /\ r.author = d.author /\ r.idx = i
    <3> HIDE DEF d, i
    <3>1. r \in Row
      BY <2>1, <2>2, RowUpdates
    <3> QED  BY <2>1, <3>1 DEF Row
  <2>4. row' = [row EXCEPT ![t] = r] /\ next' = next + 1 /\ d.pc = "renewing"
        /\ row[t].status = "continuable"
    BY <1>9 DEF Grant, SetRow, Mint
  <2>7. d.idx # row[t].idx => t \in hist'.rewound
    <3>1. hist \in History
      BY DEF TypeOK
    <3>2. d.idx # row[t].idx => hist' = [hist EXCEPT !.rewound = @ \cup {t}]
      BY <1>9 DEF Grant
    <3> QED  BY <3>1, <3>2 DEF History
  <2> HIDE DEF r
  <2>5. SetsRow(t, "running", next, d.author, i)
    BY <2>3, <2>4 DEF SetsRow
  <2>6. GrantStep(t, d.author)
    BY <2>4, <2>5 DEF GrantStep
  <2> QED  BY <2>4, <2>6, <2>7 DEF RowStep
<1>10. ASSUME NEW t \in Turn, Wake(t)
       PROVE  RowStep
  <2> DEFINE r == [row[t] EXCEPT !.status = "runnable", !.stale = FALSE]
  <2>1. r \in Row /\ r.status = "runnable" /\ r.token = row[t].token
        /\ r.author = row[t].author /\ r.idx = row[t].idx
    <3>1. row[t] \in Row
      BY <1>0
    <3>2. r \in Row
      BY <3>1, RowUpdates, IdleType
    <3> QED  BY <3>1, <3>2 DEF Row
  <2>2. row' = [row EXCEPT ![t] = r] /\ next' = next /\ row[t].status = "waiting"
    BY <1>10 DEF Wake, SetRow
  <2> HIDE DEF r
  <2>3. SetsRow(t, "runnable", row[t].token, row[t].author, row[t].idx)
    BY <2>1, <2>2 DEF SetsRow
  <2>4. WakeStep(t)
    BY <2>2, <2>3 DEF WakeStep
  <2> QED  BY <2>4 DEF RowStep
<1>11. ASSUME NEW t \in Turn, Cool(t) \/ Age(t)
       PROVE  RowStep
  <2>1. QuietStep
    <3>1. row[t] \in Row
      BY <1>0
    <3>2. PICK r : /\ row' = [row EXCEPT ![t] = r]
                   /\ r = [row[t] EXCEPT !.cooled = TRUE] \/ r = [row[t] EXCEPT !.stale = TRUE]
      BY <1>11 DEF Cool, Age, SetRow
    <3>3. /\ r.status = row[t].status /\ r.token = row[t].token
          /\ r.author = row[t].author /\ r.idx = row[t].idx
      BY <3>1, <3>2 DEF Row
    <3>4. row' = [row EXCEPT ![t] = r]
      BY <3>2
    <3>5. next' = next /\ row[t].status \in {"running", "continuable"}
      BY <1>11 DEF Cool, Age
    <3> QED  BY <1>0, <3>3, <3>4, <3>5 DEF QuietStep
  <2> QED  BY <2>1 DEF RowStep
<1>12. ASSUME NEW p \in Proc, NEW c \in scan[p], ReclaimRow(p, c)
       PROVE  RowStep
  <2> DEFINE t == c.turn
             u == Unclaimed(row[t])
             r == [u EXCEPT !.status = "interrupted"]
  <2>1. t \in Turn
    BY <1>0 DEF Candidate
  <2>2. u \in Row /\ u.token = NoToken /\ u.author = row[t].author /\ u.idx = row[t].idx
    BY <1>0, <2>1, UnclaimedRow
  <2>3. /\ row' = [row EXCEPT ![t] = r] /\ next' = next /\ row[t].status = "running"
    BY <1>12 DEF ReclaimRow, SetRow
  <2> HIDE DEF u, t
  <2>4. r \in Row /\ r.status = "interrupted" /\ r.token = NoToken
        /\ r.author = row[t].author /\ r.idx = row[t].idx
    BY <2>2 DEF Row, Status
  <2> HIDE DEF r
  <2>5. SetsRow(t, "interrupted", NoToken, row[t].author, row[t].idx)
    BY <2>3, <2>4 DEF SetsRow
  <2>6. RevokeStep(t)
    BY <2>3, <2>5 DEF RevokeStep
  <2> QED  BY <2>1, <2>6 DEF RowStep
<1> QED
  <2>1. ASSUME NEW p \in Proc, NEW t \in Turn, Resume(p, t)
        PROVE  RowStep
    <3>1. CASE Resuspend(p, t)
      <4>1. row' = [row EXCEPT ![t] = Suspended(row[t], drive[p][t], "approval")]
        BY <3>1 DEF Resuspend, SetRow
      <4> QED  BY <3>1, <4>1, <1>5 DEF Resuspend, Barrier
    <3>2. CASE Refuse(p, t) \/ Exhausted(p, t)
      BY <3>2, <1>6 DEF Refuse, Exhausted
    <3>3. CASE Claim(p, t)
      BY <3>3, <1>3
    <3>4. CASE Look(p, t) \/ ClaimLost(p, t) \/ ReadBack(p, t) \/ Start(p, t)
      BY <3>4, <1>4 DEF Look, ClaimLost, ReadBack, Start
    <3> QED  BY <2>1, <3>1, <3>2, <3>3, <3>4 DEF Resume
  <2>2. ASSUME NEW p \in Proc, NEW t \in Turn, Run(p, t)
        PROVE  RowStep
    <3>1. ASSUME NEW b \in {"event", "approval"}, Suspend(p, t, b)
          PROVE  RowStep
      <4>1. row' = [row EXCEPT ![t] = Suspended(row[t], drive[p][t], b)] /\ b \in Barrier
        BY <3>1 DEF Suspend, SetRow, Barrier
      <4> QED  BY <3>1, <4>1, <1>5 DEF Suspend
    <3>2. CASE ToolCall(p, t) \/ LoseClaim(p, t) \/ Abandon(p, t)
      BY <3>2, <1>4 DEF ToolCall, LoseClaim, Abandon
    <3>3. CASE Finish(p, t)
      BY <3>3, <1>6 DEF Finish
    <3> QED  BY <2>2, <3>1, <3>2, <3>3, <1>2, <1>7, <1>8 DEF Run
  <2>3. ASSUME NEW p \in Proc, NEW t \in Turn, Renew(p, t)
        PROVE  RowStep
    <3>1. CASE LookContinue(p, t) \/ GrantLost(p, t)
      BY <3>1, <1>4 DEF LookContinue, GrantLost
    <3> QED  BY <2>3, <3>1, <1>9 DEF Renew
  <2>4. ASSUME NEW t \in Turn, World(t)
        PROVE  RowStep
    BY <2>4, <1>1, <1>10, <1>11 DEF World
  <2>5. ASSUME NEW p \in Proc, Process(p)
        PROVE  RowStep
    <3>1. CASE Crash(p) \/ Boot(p)
      BY <3>1, <1>4 DEF Crash, Boot
    <3>2. ASSUME NEW c \in scan[p], SkipRow(p, c)
          PROVE  RowStep
      BY <3>2, <1>4 DEF SkipRow
    <3> QED  BY <2>5, <3>1, <3>2, <1>12 DEF Process, Reclaim
  <2>6. CASE UNCHANGED vars
    BY <2>6, <1>4 DEF vars
  <2> QED  BY <2>1, <2>2, <2>3, <2>4, <2>5, <2>6 DEF Next

\* The inductive invariant: tokens come from next, and fence running rows only.
Claimed ==
  /\ next # 0
  /\ OnlyRunningRowsAreClaimed
  /\ \A t \in Turn : row[t].token < next

\* No row is claimed at first.
LEMMA ClaimedInit == Init => Claimed
  BY DEF Init, Claimed, OnlyRunningRowsAreClaimed, NoRow, NoToken

\* Every kind of row step keeps a token exactly on the running rows.
LEMMA ClaimedStep == TypeOK /\ Claimed /\ [Next]_vars => Claimed'
<1> SUFFICES ASSUME TypeOK, Claimed, RowStep
             PROVE  Claimed'
  BY EveryStepIsARowStep
<1>0. /\ next \in Nat /\ row \in [Turn -> Row]
      /\ \A t \in Turn : row[t].token \in Nat /\ row[t].status \in Status
  BY DEF TypeOK, Row
<1>a. NoToken \in Nat /\ NoToken < next /\ NoToken < next + 1 /\ next < next + 1
  BY <1>0 DEF Claimed, NoToken
<1>1. CASE QuietStep
  BY <1>0, <1>1 DEF QuietStep, Claimed, OnlyRunningRowsAreClaimed
<1>2. ASSUME NEW t \in Turn, NEW status, NEW token \in Nat, NEW author, NEW idx,
             SetsRow(t, status, token, author, idx),
             next' = next \/ next' = next + 1,
             token # NoToken <=> status = "running",
             token < next'
      PROVE  Claimed'
  <2>1. PICK r \in Row : /\ row' = [row EXCEPT ![t] = r]
                         /\ r.status = status /\ r.token = token
    BY <1>2 DEF SetsRow
  <2>2. \A u \in Turn : row'[u] = IF u = t THEN r ELSE row[u]
    BY <1>0, <2>1
  <2> QED  BY <1>0, <1>2, <2>1, <2>2 DEF Claimed, OnlyRunningRowsAreClaimed
<1>3. ASSUME NEW t \in Turn, EnqueueStep(t)
      PROVE  Claimed'
  <2>1. SetsRow(t, "runnable", NoToken, NoToken, 0) /\ next' = next
    BY <1>3 DEF EnqueueStep
  <2> QED  BY <1>a, <1>2, <2>1
<1>4. ASSUME NEW t \in Turn, RunStep(t) \/ ClaimStep(t)
      PROVE  Claimed'
  <2>1. /\ next' = next + 1
        /\ \E author, idx : SetsRow(t, "running", next, author, idx)
    BY <1>4 DEF RunStep, ClaimStep
  <2>2. next # NoToken
    BY DEF Claimed, NoToken
  <2> QED  BY <1>0, <1>a, <1>2, <2>1, <2>2
<1>5. ASSUME NEW t \in Turn, WakeStep(t)
      PROVE  Claimed'
  BY <1>0, <1>2, <1>5 DEF WakeStep, Claimed, OnlyRunningRowsAreClaimed
<1>6. ASSUME NEW t \in Turn, SaveStep(t)
      PROVE  Claimed'
  BY <1>0, <1>2, <1>6 DEF SaveStep, Claimed, OnlyRunningRowsAreClaimed
<1>7. ASSUME NEW t \in Turn, RevokeStep(t)
      PROVE  Claimed'
  <2>1. SetsRow(t, "interrupted", NoToken, row[t].author, row[t].idx) /\ next' = next
    BY <1>7 DEF RevokeStep
  <2> QED  BY <1>a, <1>2, <2>1
<1>8. ASSUME NEW t \in Turn, NEW status \in {"waiting", "done", "continuable"},
             SettleStep(t, status)
      PROVE  Claimed'
  <2>1. SetsRow(t, status, NoToken, row[t].token, row[t].idx) /\ next' = next
    BY <1>8 DEF SettleStep
  <2>2. status # "running"
    BY <1>8
  <2> QED  BY <1>a, <1>2, <2>1, <2>2
<1>9. ASSUME NEW t \in Turn, NEW author, GrantStep(t, author)
      PROVE  Claimed'
  <2>1. SetsRow(t, "running", next, author, row[t].idx + 1) /\ next' = next + 1
    BY <1>9 DEF GrantStep
  <2>2. next # NoToken
    BY DEF Claimed, NoToken
  <2> QED  BY <1>0, <1>a, <1>2, <2>1, <2>2
<1> QED
  BY <1>1, <1>3, <1>4, <1>5, <1>6, <1>7, <1>8, <1>9 DEF RowStep

\* The claim invariant holds in every state of every behaviour.
LEMMA ClaimedAlways == Spec => [](TypeOK /\ Claimed)
<1>1. Init => TypeOK /\ Claimed
  BY TypeInit, ClaimedInit
<1>2. (TypeOK /\ Claimed) /\ [Next]_vars => (TypeOK /\ Claimed)'
  BY TypeStep, ClaimedStep
<1> QED  BY <1>1, <1>2, PTL DEF Spec

\* The token fence is sound: a row carries a token exactly while it is running,
\* so a write fenced on the token alone cannot land on a row that is not.
THEOREM FenceCorrect == Spec => []OnlyRunningRowsAreClaimed
<1>1. TypeOK /\ Claimed => OnlyRunningRowsAreClaimed
  BY DEF Claimed
<1> QED  BY <1>1, ClaimedAlways, PTL

\* No late finish, checkpoint, release or reclaim ever rewrites a finished turn.
THEOREM DoneCorrect == Spec => DoneIsFinal
<1>1. TypeOK /\ Claimed /\ [Next]_vars
        => [\A t \in Turn : row[t].status = "done" => row'[t] = row[t]]_row
  <2> SUFFICES ASSUME TypeOK, Claimed, RowStep, NEW t \in Turn, row[t].status = "done"
               PROVE  row'[t] = row[t]
    BY EveryStepIsARowStep
  <2>0. row \in [Turn -> Row]
    BY DEF TypeOK
  <2>1. CASE QuietStep
    BY <2>1 DEF QuietStep
  <2>2. ASSUME NEW u \in Turn, NEW status, NEW token, NEW author, NEW idx,
               SetsRow(u, status, token, author, idx), row[u].status # "done"
        PROVE  row'[t] = row[t]
    BY <2>0, <2>2 DEF SetsRow
  <2>3. ASSUME NEW u \in Turn,
               EnqueueStep(u) \/ RunStep(u) \/ ClaimStep(u) \/ WakeStep(u) \/ RevokeStep(u)
        PROVE  row'[t] = row[t]
    BY <2>2, <2>3 DEF EnqueueStep, RunStep, ClaimStep, WakeStep, RevokeStep, Claimable
  <2>4. ASSUME NEW u \in Turn, NEW status \in {"waiting", "done", "continuable"},
               SaveStep(u) \/ SettleStep(u, status)
        PROVE  row'[t] = row[t]
    <3>1. row[u].status = "running"
      BY <2>4 DEF SaveStep, SettleStep, Claimed, OnlyRunningRowsAreClaimed
    <3> QED  BY <2>2, <2>4, <3>1 DEF SaveStep, SettleStep
  <2>5. ASSUME NEW u \in Turn, NEW author, GrantStep(u, author)
        PROVE  row'[t] = row[t]
    BY <2>2, <2>5 DEF GrantStep
  <2> QED  BY <2>1, <2>3, <2>4, <2>5 DEF RowStep
<1> QED  BY <1>1, ClaimedAlways, PTL DEF Spec, DoneIsFinal

----------------------------------------------------------------------------
(* At most one driver, unless a live process has been stolen from.         *)

(***************************************************************************)
(* Processes mint different tokens, and whoever drives a turn that was     *)
(* never stolen is the one who minted the token on its row.                *)
(***************************************************************************)
Drivers ==
  /\ \A p \in Proc : \A x \in minted[p] : x # NoToken /\ x < next
  /\ \A p, q \in Proc : p # q => minted[p] \cap minted[q] = {}
  /\ \A t \in Turn : t \notin hist.stolen =>
       \A p \in Proc : drive[p][t].pc \in Driving => row[t].token \in minted[p]

\* Nobody drives anything at first.
LEMMA DriversInit == Init => Drivers
  BY DEF Init, Drivers, Idle, Driving

\* Every step keeps the token of a driven, unstolen row with its driver.
LEMMA DriversStep == TypeOK /\ Claimed /\ Drivers /\ [Next]_vars => Drivers'
<1> SUFFICES ASSUME TypeOK, Claimed, Drivers, [Next]_vars
             PROVE  Drivers'
  OBVIOUS
<1>0. /\ next \in Nat /\ row \in [Turn -> Row] /\ drive \in [Proc -> [Turn -> Drive]]
      /\ minted \in [Proc -> SUBSET Nat] /\ hist \in History
      /\ \A t \in Turn : row[t] \in Row
      /\ \A p \in Proc, t \in Turn : drive[p][t] \in Drive
      /\ scan \in [Proc -> SUBSET Candidate]
  BY DEF TypeOK
\* A step that mints nothing, moves no token and starts no driver.
<1>1. ASSUME UNCHANGED <<next, minted>>, hist'.stolen = hist.stolen,
             \A t \in Turn : row'[t].token = row[t].token,
             \A p \in Proc, t \in Turn :
               drive'[p][t].pc \in Driving => drive[p][t].pc \in Driving
      PROVE  Drivers'
  BY <1>1 DEF Drivers
\* A step of p that mints the token it puts on a row nobody had claimed.
<1>2. ASSUME NEW p \in Proc, NEW t \in Turn, NEW r, NEW d, Mint(p),
             row[t].token = NoToken, hist'.stolen = hist.stolen,
             row' = [row EXCEPT ![t] = r], r.token = next,
             drive' = [drive EXCEPT ![p][t] = d]
      PROVE  Drivers'
  <2>1. /\ next' = next + 1
        /\ \A q \in Proc : minted'[q] = IF q = p THEN minted[p] \cup {next} ELSE minted[q]
    BY <1>0, <1>2 DEF Mint
  <2>2. \A q \in Proc : \A x \in minted'[q] : x # NoToken /\ x < next'
    <3>1. ASSUME NEW q \in Proc, NEW x \in minted[q]
          PROVE  x # NoToken /\ x < next + 1
      BY <1>0, <3>1 DEF Drivers
    <3>2. next # NoToken /\ next < next + 1
      BY <1>0 DEF Claimed, NoToken
    <3> QED  BY <2>1, <3>1, <3>2
  <2>3. \A q \in Proc : next \notin minted[q]
    BY <1>0 DEF Drivers
  <2>4. \A q, s \in Proc : q # s => minted'[q] \cap minted'[s] = {}
    BY <2>1, <2>3 DEF Drivers
  <2>5. ASSUME NEW u \in Turn, u \notin hist'.stolen, NEW q \in Proc,
               drive'[q][u].pc \in Driving
        PROVE  row'[u].token \in minted'[q]
    <3>1. CASE u = t /\ q = p
      BY <1>0, <1>2, <2>1, <3>1
    <3>2. CASE u = t /\ q # p
      <4>1. drive[q][t].pc \in Driving
        BY <1>0, <1>2, <2>5, <3>2
      <4>2. row[t].token \in minted[q]
        BY <1>2, <2>5, <3>2, <4>1 DEF Drivers
      <4> QED  BY <1>2, <4>2 DEF Drivers
    <3>3. CASE u # t
      <4>1. drive'[q][u] = drive[q][u] /\ row'[u] = row[u]
        BY <1>0, <1>2, <3>3
      <4> QED  BY <1>2, <2>1, <2>5, <4>1 DEF Drivers
    <3> QED  BY <3>1, <3>2, <3>3
  <2> QED  BY <2>2, <2>4, <2>5 DEF Drivers
\* A fenced step of a driver p that clears the token and lets the turn go.
<1>3. ASSUME NEW p \in Proc, NEW t \in Turn, NEW r, UNCHANGED <<next, minted, hist>>,
             drive[p][t].pc \in Driving,
             row' = [row EXCEPT ![t] = r], drive' = [drive EXCEPT ![p][t] = Idle]
      PROVE  Drivers'
  <2>1. ASSUME NEW u \in Turn, u \notin hist.stolen, NEW q \in Proc,
               drive'[q][u].pc \in Driving
        PROVE  row'[u].token \in minted[q]
    <3>1. CASE u = t /\ q = p
      BY <1>0, <1>3, <2>1, <3>1 DEF Idle, Driving
    <3>2. CASE u = t /\ q # p
      <4>1. drive[q][t].pc \in Driving
        BY <1>0, <1>3, <2>1, <3>2
      <4>2. row[t].token \in minted[q] /\ row[t].token \in minted[p]
        BY <1>3, <2>1, <3>2, <4>1 DEF Drivers
      <4> QED  BY <3>2, <4>2 DEF Drivers
    <3>3. CASE u # t
      <4>1. drive'[q][u] = drive[q][u] /\ row'[u] = row[u]
        BY <1>0, <1>3, <3>3
      <4> QED  BY <2>1, <4>1 DEF Drivers
    <3> QED  BY <3>1, <3>2, <3>3
  <2> QED  BY <1>3, <2>1 DEF Drivers
<1>4. ASSUME NEW p \in Proc, NEW t \in Turn, RunTurn(p, t)
      PROVE  Drivers'
  <2>1. row[t].token = NoToken
    BY <1>4 DEF RunTurn, Claimed, OnlyRunningRowsAreClaimed
  <2>2. [NoRow EXCEPT !.status = "running", !.token = next].token = next
    BY DEF NoRow
  <2> QED  BY <1>2, <1>4, <2>1, <2>2 DEF RunTurn, SetRow, SetDrive
<1>5. ASSUME NEW p \in Proc, NEW t \in Turn, Claim(p, t)
      PROVE  Drivers'
  <2> DEFINE r == [row[t] EXCEPT !.status = "running", !.token = next,
                                 !.barrier = "none", !.stale = FALSE]
  <2>1. row[t].token = NoToken
    BY <1>5 DEF Claim, Claimable, Claimed, OnlyRunningRowsAreClaimed
  <2>2. r.token = next
    BY <1>0 DEF Row
  <2>3. /\ row' = [row EXCEPT ![t] = r] /\ Mint(p) /\ hist' = hist
        /\ drive' = [drive EXCEPT ![p][t] = [drive[p][t] EXCEPT !.pc = "taken"]]
    BY <1>5 DEF Claim, SetRow, SetDrive
  <2> HIDE DEF r
  <2> QED  BY <1>2, <2>1, <2>2, <2>3
<1>6. ASSUME NEW p \in Proc, NEW t \in Turn, Grant(p, t)
      PROVE  Drivers'
  <2> DEFINE d == drive[p][t]
             i == row[t].idx + 1
             r == [row[t] EXCEPT
                     !.status = "running", !.token = next, !.idx = i, !.streak = 0,
                     !.built = d.built, !.resumes = d.resumes, !.calls = 0,
                     !.author = d.author, !.stale = FALSE]
             e == [d EXCEPT !.pc = "opening", !.token = next]
  <2>1. row[t].token = NoToken
    BY <1>6 DEF Grant, Claimed, OnlyRunningRowsAreClaimed
  <2>2. r.token = next
    <3> HIDE DEF d, i
    <3> QED  BY <1>0 DEF Row
  <2>3. /\ row' = [row EXCEPT ![t] = r] /\ Mint(p)
        /\ drive' = [drive EXCEPT ![p][t] = e]
    BY <1>6 DEF Grant, SetRow, SetDrive
  <2>4. hist'.stolen = hist.stolen
    BY <1>0, <1>6 DEF Grant, History
  <2> HIDE DEF r, e
  <2> QED  BY <1>2, <2>1, <2>2, <2>3, <2>4
<1>7. ASSUME NEW p \in Proc, NEW t \in Turn,
             EndTurn(p, t), drive[p][t].pc \in {"held", "round"}
      PROVE  Drivers'
  BY <1>3, <1>7 DEF EndTurn, SetRow, SetDrive, Driving
<1>8. ASSUME NEW p \in Proc, NEW t \in Turn, Resuspend(p, t)
      PROVE  Drivers'
  BY <1>3, <1>8 DEF Resuspend, SetRow, SetDrive, Driving
<1>9. ASSUME NEW p \in Proc, NEW t \in Turn, NEW b, Suspend(p, t, b)
      PROVE  Drivers'
  BY <1>3, <1>9 DEF Suspend, SetRow, SetDrive, Driving
<1>10. ASSUME NEW p \in Proc, NEW t \in Turn, NEW c, Release(p, t, c)
       PROVE  Drivers'
  BY <1>3, <1>10 DEF Release, SetRow, SetDrive, Driving
\* A step of p that writes no token, and drives t only if it already did.
<1>11. ASSUME NEW p \in Proc, NEW t \in Turn, NEW d,
              drive' = [drive EXCEPT ![p][t] = d],
              d.pc \in Driving => drive[p][t].pc \in Driving,
              UNCHANGED <<next, minted>>, hist'.stolen = hist.stolen,
              \A u \in Turn : row'[u].token = row[u].token
       PROVE  Drivers'
  <2>1. \A q \in Proc, u \in Turn :
          drive'[q][u].pc \in Driving => drive[q][u].pc \in Driving
    BY <1>0, <1>11
  <2> QED  BY <1>1, <1>11, <2>1
<1>12. ASSUME NEW p \in Proc, NEW t \in Turn, Checkpoint(p, t)
       PROVE  Drivers'
  <2> DEFINE d == [drive[p][t] EXCEPT !.pc = "round", !.built = TRUE, !.counts = FALSE]
  <2>1. d \in Drive
    BY <1>0, DriveUpdates
  <2>2. drive' = [drive EXCEPT ![p][t] = d] /\ row' = [row EXCEPT ![t] = Saved(row[t], d)]
    BY <1>12 DEF Checkpoint, SetRow, SetDrive
  <2>3. drive[p][t].pc \in Driving /\ UNCHANGED <<next, minted>>
    BY <1>12 DEF Checkpoint, Driving
  <2>4. hist'.stolen = hist.stolen
    BY <1>0, <1>12 DEF Checkpoint, History
  <2> HIDE DEF d
  <2>5. Saved(row[t], d).token = row[t].token
    BY <1>0, <2>1, SavedRow
  <2>6. \A u \in Turn : row'[u].token = row[u].token
    BY <1>0, <2>2, <2>5
  <2> QED  BY <1>11, <2>2, <2>3, <2>4, <2>6
<1>13. ASSUME NEW p \in Proc, NEW t \in Turn,
              ReadBack(p, t) \/ Start(p, t) \/ ToolCall(p, t)
       PROVE  Drivers'
  <2>1. PICK d : drive' = [drive EXCEPT ![p][t] = d]
    BY <1>13 DEF ReadBack, Start, ToolCall, SetDrive
  <2>2. drive[p][t].pc \in Driving
    BY <1>13 DEF ReadBack, Start, ToolCall, Driving
  <2>3. row' = row /\ UNCHANGED <<next, minted>>
    BY <1>13 DEF ReadBack, Start, ToolCall
  <2>4. hist'.stolen = hist.stolen
    BY <1>0, <1>13 DEF ReadBack, Start, ToolCall, History
  <2> QED  BY <1>11, <2>1, <2>2, <2>3, <2>4
<1>14. ASSUME NEW p \in Proc, NEW t \in Turn,
              \/ Look(p, t) \/ ClaimLost(p, t) \/ LoseClaim(p, t)
              \/ Abandon(p, t) \/ LookContinue(p, t) \/ GrantLost(p, t)
       PROVE  Drivers'
  <2>1. PICK d : drive' = [drive EXCEPT ![p][t] = d] /\ d.pc \notin Driving
    <3>1. Idle.pc \notin Driving
      BY DEF Idle, Driving
    <3>2. CASE Look(p, t)
      <4> DEFINE e == [Idle EXCEPT
                         !.pc = "seen",
                         !.first = row[t].status = "runnable" /\ ~row[t].built,
                         !.woken = row[t].status = "waiting" \/ row[t].barrier # "none",
                         !.barrier = row[t].barrier]
      <4>1. e.pc = "seen"
        BY DEF Idle
      <4>2. drive' = [drive EXCEPT ![p][t] = e]
        BY <3>2 DEF Look, SetDrive
      <4> HIDE DEF e
      <4> QED  BY <4>1, <4>2 DEF Driving
    <3>3. CASE LookContinue(p, t)
      <4> DEFINE e == [Idle EXCEPT !.pc = "renewing", !.built = TRUE,
                         !.idx = row[t].idx, !.resumes = row[t].resumes,
                         !.author = row[t].author]
      <4>1. e.pc = "renewing"
        BY DEF Idle
      <4>2. drive' = [drive EXCEPT ![p][t] = e]
        BY <3>3 DEF LookContinue, SetDrive
      <4> HIDE DEF e
      <4> QED  BY <4>1, <4>2 DEF Driving
    <3> QED  BY <1>14, <3>1, <3>2, <3>3 DEF ClaimLost, LoseClaim, Abandon, GrantLost, SetDrive
  <2>2. UNCHANGED <<row, next, minted, hist>>
    BY <1>14 DEF Look, ClaimLost, LoseClaim, Abandon, LookContinue, GrantLost
  <2> QED  BY <1>11, <2>1, <2>2
<1>15. ASSUME NEW t \in Turn, World(t)
       PROVE  Drivers'
  <2>1. UNCHANGED <<next, minted, drive, hist>>
    BY <1>15 DEF World, Enqueue, Wake, Cool, Age
  <2>2. PICK r : row' = [row EXCEPT ![t] = r] /\ r.token = row[t].token
    <3>1. CASE Enqueue(t)
      <4>1. row[t].token = NoToken
        BY <3>1 DEF Enqueue, Claimed, OnlyRunningRowsAreClaimed
      <4>2. [NoRow EXCEPT !.status = "runnable"].token = NoToken
        BY DEF NoRow
      <4> QED  BY <3>1, <4>1, <4>2 DEF Enqueue, SetRow
    <3>2. /\ [row[t] EXCEPT !.status = "runnable", !.stale = FALSE].token = row[t].token
          /\ [row[t] EXCEPT !.cooled = TRUE].token = row[t].token
          /\ [row[t] EXCEPT !.stale = TRUE].token = row[t].token
      <4>1. row[t] \in Row
        BY <1>0
      <4> QED  BY <4>1 DEF Row
    <3> QED  BY <1>15, <3>1, <3>2 DEF World, Wake, Cool, Age, SetRow
  <2>3. \A u \in Turn : row'[u].token = row[u].token
    BY <1>0, <2>2
  <2> QED  BY <1>1, <2>1, <2>3
<1>16. ASSUME NEW p \in Proc, Crash(p)
       PROVE  Drivers'
  <2>1. UNCHANGED <<row, next, hist>>
    BY <1>16 DEF Crash
  <2>2. \A q \in Proc : minted'[q] = IF q = p THEN {} ELSE minted[q]
    BY <1>0, <1>16 DEF Crash
  <2>3. \A q \in Proc, u \in Turn :
          drive'[q][u].pc \in Driving => q # p /\ drive[q][u].pc \in Driving
    BY <1>0, <1>16 DEF Crash, Idle, Driving
  <2> QED  BY <2>1, <2>2, <2>3 DEF Drivers
<1>17. ASSUME NEW p \in Proc, NEW c \in scan[p], ReclaimRow(p, c)
       PROVE  Drivers'
  <2> DEFINE t == c.turn
  <2>1. t \in Turn
    BY <1>0 DEF Candidate
  <2>2. UNCHANGED <<next, minted, drive>>
    BY <1>17 DEF ReclaimRow
  <2>3. \A u \in Turn : u # t => row'[u] = row[u]
    BY <1>0, <1>17 DEF ReclaimRow, SetRow
  <2>4. hist'.stolen = IF Alive(row[t].token) THEN hist.stolen \cup {t} ELSE hist.stolen
    BY <1>0, <1>17 DEF ReclaimRow, History
  <2> HIDE DEF t
  <2>5. t \notin hist'.stolen => \A q \in Proc : drive[q][t].pc \notin Driving
    BY <2>1, <2>4 DEF Drivers, Alive
  <2> QED  BY <2>2, <2>3, <2>4, <2>5 DEF Drivers
<1>18. ASSUME UNCHANGED <<row, next, minted, drive, hist>>
       PROVE  Drivers'
  BY <1>18 DEF Drivers
<1> QED
  <2>1. ASSUME NEW p \in Proc, NEW t \in Turn, Resume(p, t)
        PROVE  Drivers'
    <3>1. CASE Refuse(p, t) \/ Exhausted(p, t)
      BY <3>1, <1>7 DEF Refuse, Exhausted
    <3> QED  BY <2>1, <3>1, <1>5, <1>8, <1>13, <1>14 DEF Resume
  <2>2. ASSUME NEW p \in Proc, NEW t \in Turn, Run(p, t)
        PROVE  Drivers'
    <3>1. CASE Finish(p, t)
      BY <3>1, <1>7 DEF Finish
    <3> QED  BY <2>2, <3>1, <1>4, <1>9, <1>10, <1>12, <1>13, <1>14 DEF Run
  <2>3. ASSUME NEW p \in Proc, NEW t \in Turn, Renew(p, t)
        PROVE  Drivers'
    BY <2>3, <1>6, <1>14 DEF Renew
  <2>4. ASSUME NEW p \in Proc, Process(p)
        PROVE  Drivers'
    <3>1. CASE Boot(p)
      BY <3>1, <1>18 DEF Boot
    <3>2. ASSUME NEW c \in scan[p], SkipRow(p, c)
          PROVE  Drivers'
      BY <3>2, <1>18 DEF SkipRow
    <3> QED  BY <2>4, <3>1, <3>2, <1>16, <1>17 DEF Process, Reclaim
  <2>5. CASE UNCHANGED vars
    BY <2>5, <1>18 DEF vars
  <2> QED  BY <2>1, <2>2, <2>3, <2>4, <2>5, <1>15 DEF Next

\* At most one process drives a turn that no reclaim has taken from a live one,
\* and the row carries that process's token.
THEOREM OneDriverCorrect == Spec => []OneDriver
<1>1. Init => TypeOK /\ Claimed /\ Drivers
  BY TypeInit, ClaimedInit, DriversInit
<1>2. (TypeOK /\ Claimed /\ Drivers) /\ [Next]_vars => (TypeOK /\ Claimed /\ Drivers)'
  BY TypeStep, ClaimedStep, DriversStep
<1>3. TypeOK /\ Claimed /\ Drivers => OneDriver
  BY DEF Drivers, OneDriver
<1> QED  BY <1>1, <1>2, <1>3, PTL DEF Spec

----------------------------------------------------------------------------
(* Whose transcript a row holds, and the lifecycle the table implements.   *)

\* A transcript is older than the claim the row is under, and an absent row has none.
Authored ==
  \A t \in Turn :
    /\ row[t].author < next
    /\ row[t].status = "absent" => row[t].author = NoToken
    /\ row[t].token # NoToken => row[t].author <= row[t].token

(***************************************************************************)
(* What continueTurn read is as the row is, until another process grants   *)
(* the lease it was read for: from then on the index of the row is later,  *)
(* and so is every claim the row is put under.                             *)
(***************************************************************************)
ReadBefore(d, r, n) ==
  /\ r.status # "absent"
  /\ d.author < n
  /\ d.idx <= r.idx
  /\ d.idx = r.idx => r.status = "continuable" /\ d.author = r.author
  /\ r.token # NoToken => d.author < r.token
  /\ r.status = "continuable" => d.author <= r.author

ReadsAreOld ==
  \A p \in Proc, t \in Turn :
    drive[p][t].pc = "renewing" => ReadBefore(drive[p][t], row[t], next)

\* Only LookContinue starts a renewal, and it reads the row as it is.
LEMMA RenewalsAreRead ==
  TypeOK /\ [Next]_vars =>
    \A p \in Proc, t \in Turn : drive'[p][t].pc = "renewing" =>
      \/ drive'[p][t] = drive[p][t]
      \/ /\ UNCHANGED <<row, next>> /\ row[t].status = "continuable"
         /\ drive'[p][t].idx = row[t].idx /\ drive'[p][t].author = row[t].author
<1> SUFFICES ASSUME TypeOK, [Next]_vars, NEW p \in Proc, NEW t \in Turn,
                    drive'[p][t].pc = "renewing"
             PROVE  \/ drive'[p][t] = drive[p][t]
                    \/ /\ UNCHANGED <<row, next>> /\ row[t].status = "continuable"
                       /\ drive'[p][t].idx = row[t].idx
                       /\ drive'[p][t].author = row[t].author
  OBVIOUS
<1> DEFINE Kept == \/ drive'[p][t] = drive[p][t]
                   \/ /\ UNCHANGED <<row, next>> /\ row[t].status = "continuable"
                      /\ drive'[p][t].idx = row[t].idx
                      /\ drive'[p][t].author = row[t].author
<1>0. /\ drive \in [Proc -> [Turn -> Drive]] /\ row \in [Turn -> Row]
      /\ \A q \in Proc, u \in Turn : drive[q][u] \in Drive
  BY DEF TypeOK
<1>a. Idle.pc = "idle" BY DEF Idle
\* A step that changes what one process holds of one turn, and does not renew it.
<1>1. ASSUME NEW q \in Proc, NEW u \in Turn, NEW d, d.pc # "renewing",
             drive' = [drive EXCEPT ![q][u] = d]
      PROVE  Kept
  BY <1>0, <1>1
<1>2. ASSUME NEW q \in Proc, NEW u \in Turn, LookContinue(q, u) PROVE Kept
  <2> DEFINE d == [Idle EXCEPT !.pc = "renewing", !.built = TRUE, !.idx = row[u].idx,
                     !.resumes = row[u].resumes, !.author = row[u].author]
  <2>1. d.idx = row[u].idx /\ d.author = row[u].author BY DEF Idle
  <2>2. drive' = [drive EXCEPT ![q][u] = d] BY <1>2 DEF LookContinue, SetDrive
  <2> HIDE DEF d
  <2> QED BY <1>0, <1>2, <2>1, <2>2 DEF LookContinue
<1>3. ASSUME NEW q \in Proc, NEW u \in Turn,
             \/ ClaimLost(q, u) \/ Resuspend(q, u) \/ EndTurn(q, u) \/ LoseClaim(q, u)
             \/ Abandon(q, u) \/ GrantLost(q, u)
             \/ (\E b \in {"event", "approval"} : Suspend(q, u, b))
             \/ (\E c \in {"dead", "other"} : Release(q, u, c))
      PROVE  Kept
  <2>1. drive' = [drive EXCEPT ![q][u] = Idle]
    BY <1>3 DEF ClaimLost, Resuspend, EndTurn, LoseClaim, Abandon, GrantLost, Suspend,
                Release, SetDrive
  <2> QED BY <1>1, <1>a, <2>1
<1>4. ASSUME NEW q \in Proc, NEW u \in Turn, RunTurn(q, u) \/ Look(q, u) PROVE Kept
  <2> DEFINE a == [Idle EXCEPT !.pc = "opening", !.token = next]
             b == [Idle EXCEPT !.pc = "seen",
                     !.first = row[u].status = "runnable" /\ ~row[u].built,
                     !.woken = row[u].status = "waiting" \/ row[u].barrier # "none",
                     !.barrier = row[u].barrier]
  <2>1. a.pc # "renewing" /\ b.pc # "renewing" BY DEF Idle
  <2>2. drive' = [drive EXCEPT ![q][u] = a] \/ drive' = [drive EXCEPT ![q][u] = b]
    BY <1>4 DEF RunTurn, Look, SetDrive
  <2> HIDE DEF a, b
  <2> QED BY <1>1, <2>1, <2>2
<1>5. ASSUME NEW q \in Proc, NEW u \in Turn,
             \/ Claim(q, u) \/ ReadBack(q, u) \/ Start(q, u) \/ ToolCall(q, u)
             \/ Checkpoint(q, u) \/ Grant(q, u)
      PROVE  Kept
  <2>1. PICK d : drive' = [drive EXCEPT ![q][u] = d] /\ d.pc # "renewing"
    <3>0. drive[q][u] \in Drive BY <1>0
    <3>1. CASE Claim(q, u)
      <4>1. drive' = [drive EXCEPT ![q][u] = [drive[q][u] EXCEPT !.pc = "taken"]]
        BY <3>1 DEF Claim, SetDrive
      <4>2. [drive[q][u] EXCEPT !.pc = "taken"].pc = "taken" BY <3>0 DEF Drive
      <4> QED BY <4>1, <4>2
    <3>2. CASE ReadBack(q, u)
      <4>1. Loaded(drive[q][u], row[u]).pc = "held" BY <3>0 DEF Loaded, Drive
      <4> QED BY <3>2, <4>1 DEF ReadBack, SetDrive
    <3>3. CASE Start(q, u)
      <4> DEFINE spends == ~drive[q][u].first /\ ~drive[q][u].woken
                 n == IF spends THEN drive[q][u].resumes + 1 ELSE drive[q][u].resumes
      <4>1. drive' = [drive EXCEPT ![q][u] = [drive[q][u] EXCEPT
                        !.pc = "opening", !.counts = spends, !.resumes = n]]
        BY <3>3 DEF Start, SetDrive
      <4> HIDE DEF spends, n
      <4>2. [drive[q][u] EXCEPT !.pc = "opening", !.counts = spends, !.resumes = n].pc
              = "opening"
        BY <3>0 DEF Drive
      <4> QED BY <4>1, <4>2
    <3>4. CASE ToolCall(q, u)
      <4> DEFINE n == drive[q][u].calls + 1
      <4>1. drive' = [drive EXCEPT ![q][u] = [drive[q][u] EXCEPT !.calls = n]]
        BY <3>4 DEF ToolCall, SetDrive
      <4> HIDE DEF n
      <4>2. [drive[q][u] EXCEPT !.calls = n].pc = drive[q][u].pc BY <3>0 DEF Drive
      <4> QED BY <3>4, <4>1, <4>2 DEF ToolCall
    <3>5. CASE Checkpoint(q, u)
      <4>1. drive' = [drive EXCEPT ![q][u] = [drive[q][u] EXCEPT
                        !.pc = "round", !.built = TRUE, !.counts = FALSE]]
        BY <3>5 DEF Checkpoint, SetDrive
      <4>2. [drive[q][u] EXCEPT !.pc = "round", !.built = TRUE, !.counts = FALSE].pc
              = "round"
        BY <3>0 DEF Drive
      <4> QED BY <4>1, <4>2
    <3>6. CASE Grant(q, u)
      <4>1. drive' = [drive EXCEPT ![q][u] = [drive[q][u] EXCEPT
                        !.pc = "opening", !.token = next]]
        BY <3>6 DEF Grant, SetDrive
      <4>2. [drive[q][u] EXCEPT !.pc = "opening", !.token = next].pc = "opening"
        BY <3>0 DEF Drive
      <4> QED BY <4>1, <4>2
    <3> QED BY <1>5, <3>1, <3>2, <3>3, <3>4, <3>5, <3>6
  <2> QED BY <1>1, <2>1
<1>6. ASSUME drive' = drive PROVE Kept
  BY <1>6
<1>7. ASSUME NEW q \in Proc, Crash(q) PROVE Kept
  <2>1. drive' = [drive EXCEPT ![q] = [u \in Turn |-> Idle]] BY <1>7 DEF Crash
  <2> QED BY <1>0, <1>a, <2>1
<1> HIDE DEF Kept
<1>8. ASSUME NEW q \in Proc, NEW u \in Turn, Resume(q, u) \/ Run(q, u) \/ Renew(q, u)
      PROVE  Kept
  BY <1>8, <1>2, <1>3, <1>4, <1>5
  DEF Resume, Run, Renew, Refuse, Exhausted, Finish
<1>9. ASSUME NEW u \in Turn, World(u) PROVE Kept
  BY <1>9, <1>6 DEF World, Enqueue, Wake, Cool, Age
<1>10. ASSUME NEW q \in Proc, Process(q) PROVE Kept
  BY <1>10, <1>6, <1>7 DEF Process, Boot, Reclaim, ReclaimRow, SkipRow
<1>11. Kept
  <2>1. CASE Next BY <2>1, <1>8, <1>9, <1>10 DEF Next
  <2>2. CASE UNCHANGED vars BY <2>2, <1>6 DEF vars
  <2>3. Next \/ UNCHANGED vars OBVIOUS
  <2> QED BY <2>1, <2>2, <2>3
<1> QED BY <1>11 DEF Kept

\* Nothing is read and nothing is written at first.
LEMMA AuthoredInit == Init => Authored /\ ReadsAreOld
  BY DEF Init, Authored, ReadsAreOld, NoRow, NoToken, Idle

\* What one kind of row step does to the row of another turn: nothing; and to
\* the row it writes.
LEMMA RowsAfter ==
  ASSUME TypeOK, NEW t \in Turn, NEW status, NEW token, NEW author, NEW idx,
         SetsRow(t, status, token, author, idx)
  PROVE  /\ \A u \in Turn : u # t => row'[u] = row[u]
         /\ row'[t].status = status /\ row'[t].token = token
         /\ row'[t].author = author /\ row'[t].idx = idx
  BY DEF TypeOK, SetsRow

\* Every step keeps transcripts older than claims.
LEMMA AuthoredStep ==
  TypeOK /\ Claimed /\ Authored /\ ReadsAreOld /\ [Next]_vars => Authored'
<1> SUFFICES ASSUME TypeOK, Claimed, Authored, ReadsAreOld, RowStep
             PROVE  Authored'
  BY EveryStepIsARowStep
<1>0. /\ next \in Nat /\ NoToken < next /\ row \in [Turn -> Row]
      /\ \A t \in Turn : row[t].token \in Nat /\ row[t].author \in Nat
      /\ \A p \in Proc, t \in Turn : drive[p][t].author \in Nat
  BY DEF TypeOK, Row, Drive, Claimed, NoToken
\* A row written with a token and an author in their order.
<1>1. ASSUME NEW t \in Turn, NEW status, NEW token, NEW author \in Nat, NEW idx,
             SetsRow(t, status, token, author, idx),
             next' = next \/ next' = next + 1, author < next',
             status = "absent" => author = NoToken,
             token # NoToken => author <= token
      PROVE  Authored'
  <2>1. ASSUME NEW u \in Turn
        PROVE  /\ row'[u].author < next'
               /\ row'[u].status = "absent" => row'[u].author = NoToken
               /\ row'[u].token # NoToken => row'[u].author <= row'[u].token
    <3>1. CASE u = t BY <1>1, <3>1, RowsAfter
    <3>2. CASE u # t
      <4>1. row'[u] = row[u] BY <1>1, <3>2, RowsAfter
      <4>2. row[u].author < next' BY <1>0, <1>1 DEF Authored
      <4> QED BY <4>1, <4>2 DEF Authored
    <3> QED BY <3>1, <3>2
  <2> QED BY <2>1 DEF Authored
<1>2. CASE QuietStep
  BY <1>2 DEF QuietStep, Authored
<1>3. ASSUME NEW t \in Turn, EnqueueStep(t) \/ RunStep(t) PROVE Authored'
  <2>1. CASE EnqueueStep(t)
    <3>1. SetsRow(t, "runnable", NoToken, NoToken, 0) /\ next' = next
      BY <2>1 DEF EnqueueStep
    <3> QED BY <1>0, <1>1, <3>1 DEF NoToken
  <2>2. CASE RunStep(t)
    <3>1. SetsRow(t, "running", next, NoToken, 0) /\ next' = next + 1
      BY <2>2 DEF RunStep
    <3> QED BY <1>0, <1>1, <3>1 DEF NoToken
  <2> QED BY <1>3, <2>1, <2>2
<1>4. ASSUME NEW t \in Turn, ClaimStep(t) PROVE Authored'
  <2>1. SetsRow(t, "running", next, row[t].author, row[t].idx) /\ next' = next + 1
    BY <1>4 DEF ClaimStep
  <2>2. row[t].author < next BY DEF Authored
  <2>3. row[t].author < next + 1 /\ row[t].author <= next BY <1>0, <2>2
  <2> QED BY <1>0, <1>1, <2>1, <2>3
<1>5. ASSUME NEW t \in Turn, WakeStep(t) PROVE Authored'
  <2>1. SetsRow(t, "runnable", row[t].token, row[t].author, row[t].idx) /\ next' = next
    BY <1>5 DEF WakeStep
  <2> QED BY <1>0, <1>1, <2>1 DEF Authored
<1>6. ASSUME NEW t \in Turn, SaveStep(t) PROVE Authored'
  <2>1. /\ SetsRow(t, row[t].status, row[t].token, row[t].token, row[t].idx)
        /\ next' = next /\ row[t].status = "running"
    BY <1>6 DEF SaveStep, Claimed, OnlyRunningRowsAreClaimed
  <2>2. row[t].token < next BY DEF Claimed
  <2> QED BY <1>0, <1>1, <2>1, <2>2
<1>7. ASSUME NEW t \in Turn, NEW status \in {"waiting", "done", "continuable"},
             SettleStep(t, status)
      PROVE  Authored'
  <2>1. SetsRow(t, status, NoToken, row[t].token, row[t].idx) /\ next' = next
    BY <1>7 DEF SettleStep
  <2>2. row[t].token < next BY DEF Claimed
  <2> QED BY <1>0, <1>1, <1>7, <2>1, <2>2
<1>8. ASSUME NEW t \in Turn, NEW p \in Proc, drive[p][t].pc = "renewing",
             GrantStep(t, drive[p][t].author)
      PROVE  Authored'
  <2>1. /\ SetsRow(t, "running", next, drive[p][t].author, row[t].idx + 1)
        /\ next' = next + 1
    BY <1>8 DEF GrantStep
  <2>2. drive[p][t].author < next BY <1>8 DEF ReadsAreOld, ReadBefore
  <2>3. drive[p][t].author < next + 1 /\ drive[p][t].author <= next BY <1>0, <2>2
  <2> QED BY <1>0, <1>1, <2>1, <2>3
<1>9. ASSUME NEW t \in Turn, RevokeStep(t) PROVE Authored'
  <2>1. SetsRow(t, "interrupted", NoToken, row[t].author, row[t].idx) /\ next' = next
    BY <1>9 DEF RevokeStep
  <2> QED BY <1>0, <1>1, <2>1 DEF Authored
<1> QED BY <1>2, <1>3, <1>4, <1>5, <1>6, <1>7, <1>8, <1>9 DEF RowStep

\* What continueTurn read stays behind the row, whichever step writes the row.
LEMMA ReadStaysBehind ==
  ASSUME TypeOK, Claimed, Authored, RowStep, NEW t \in Turn, NEW d \in Drive,
         ReadBefore(d, row[t], next)
  PROVE  ReadBefore(d, row'[t], next')
<1>0. /\ next \in Nat /\ row[t] \in Row /\ row[t].token \in Nat /\ row[t].author \in Nat
      /\ row[t].idx \in Nat /\ d.author \in Nat /\ d.idx \in Nat
  BY DEF TypeOK, Row, Drive
<1> USE DEF ReadBefore
<1>1. CASE QuietStep BY <1>1 DEF QuietStep
<1>2. ASSUME NEW u \in Turn, u # t, NEW status, NEW token, NEW author, NEW idx,
             SetsRow(u, status, token, author, idx), next' = next \/ next' = next + 1
      PROVE  ReadBefore(d, row'[t], next')
  <2>1. row'[t] = row[t] BY <1>2, RowsAfter
  <2> QED BY <1>0, <1>2, <2>1
<1>3. ASSUME EnqueueStep(t) \/ RunStep(t) PROVE FALSE
  BY <1>3 DEF EnqueueStep, RunStep
<1>4. ASSUME ClaimStep(t) PROVE ReadBefore(d, row'[t], next')
  <2>1. /\ SetsRow(t, "running", next, row[t].author, row[t].idx) /\ next' = next + 1
        /\ row[t].status \in Claimable
    BY <1>4 DEF ClaimStep
  <2>2. row'[t].status = "running" /\ row'[t].token = next /\ row'[t].idx = row[t].idx
    BY <2>1, RowsAfter
  <2>3. d.idx # row[t].idx BY <2>1 DEF Claimable
  <2> QED BY <1>0, <2>1, <2>2, <2>3
<1>5. ASSUME WakeStep(t) PROVE ReadBefore(d, row'[t], next')
  <2>1. /\ SetsRow(t, "runnable", row[t].token, row[t].author, row[t].idx)
        /\ next' = next /\ row[t].status = "waiting"
    BY <1>5 DEF WakeStep
  <2>2. /\ row'[t].status = "runnable" /\ row'[t].token = row[t].token
        /\ row'[t].idx = row[t].idx
    BY <2>1, RowsAfter
  <2> QED BY <1>0, <2>1, <2>2
<1>6. ASSUME SaveStep(t) PROVE ReadBefore(d, row'[t], next')
  <2>1. /\ SetsRow(t, row[t].status, row[t].token, row[t].token, row[t].idx)
        /\ next' = next /\ row[t].status = "running"
    BY <1>6 DEF SaveStep, Claimed, OnlyRunningRowsAreClaimed
  <2>2. /\ row'[t].status = "running" /\ row'[t].token = row[t].token
        /\ row'[t].idx = row[t].idx
    BY <2>1, RowsAfter
  <2> QED BY <1>0, <2>1, <2>2
<1>7. ASSUME NEW status \in {"waiting", "done", "continuable"}, SettleStep(t, status)
      PROVE  ReadBefore(d, row'[t], next')
  <2>1. /\ SetsRow(t, status, NoToken, row[t].token, row[t].idx)
        /\ next' = next /\ row[t].status = "running" /\ row[t].token # NoToken
    BY <1>7 DEF SettleStep, Claimed, OnlyRunningRowsAreClaimed
  <2>2. /\ row'[t].status = status /\ row'[t].token = NoToken
        /\ row'[t].author = row[t].token /\ row'[t].idx = row[t].idx
    BY <2>1, RowsAfter
  <2>3. d.idx < row[t].idx /\ d.author < row[t].token BY <1>0, <2>1
  <2> QED BY <1>0, <1>7, <2>1, <2>2, <2>3
<1>8. ASSUME NEW author, GrantStep(t, author) PROVE ReadBefore(d, row'[t], next')
  <2>1. SetsRow(t, "running", next, author, row[t].idx + 1) /\ next' = next + 1
    BY <1>8 DEF GrantStep
  <2>2. row'[t].status = "running" /\ row'[t].token = next /\ row'[t].idx = row[t].idx + 1
    BY <2>1, RowsAfter
  <2> QED BY <1>0, <2>1, <2>2
<1>9. ASSUME RevokeStep(t) PROVE ReadBefore(d, row'[t], next')
  <2>1. /\ SetsRow(t, "interrupted", NoToken, row[t].author, row[t].idx)
        /\ next' = next /\ row[t].status = "running"
    BY <1>9 DEF RevokeStep
  <2>2. /\ row'[t].status = "interrupted" /\ row'[t].token = NoToken
        /\ row'[t].idx = row[t].idx
    BY <2>1, RowsAfter
  <2> QED BY <1>0, <2>1, <2>2
<1>10. ASSUME NEW u \in Turn, u # t,
              \/ EnqueueStep(u) \/ RunStep(u) \/ ClaimStep(u) \/ WakeStep(u)
              \/ SaveStep(u) \/ RevokeStep(u) \/ (\E author : GrantStep(u, author))
              \/ \E status \in {"waiting", "done", "continuable"} : SettleStep(u, status)
       PROVE  ReadBefore(d, row'[t], next')
  BY <1>10, <1>2
  DEF EnqueueStep, RunStep, ClaimStep, WakeStep, SaveStep, RevokeStep, GrantStep, SettleStep
<1> HIDE DEF ReadBefore
<1> QED BY <1>1, <1>3, <1>4, <1>5, <1>6, <1>7, <1>8, <1>9, <1>10 DEF RowStep

\* Every step keeps what the renewing processes have read behind the rows.
LEMMA ReadsStep ==
  TypeOK /\ Claimed /\ Authored /\ ReadsAreOld /\ [Next]_vars => ReadsAreOld'
<1> SUFFICES ASSUME TypeOK, Claimed, Authored, ReadsAreOld, [Next]_vars,
                    NEW p \in Proc, NEW t \in Turn, drive'[p][t].pc = "renewing"
             PROVE  ReadBefore(drive'[p][t], row'[t], next')
  BY DEF ReadsAreOld
<1>1. RowStep BY EveryStepIsARowStep
<1>2. CASE drive'[p][t] = drive[p][t]
  <2>1. drive[p][t] \in Drive /\ ReadBefore(drive[p][t], row[t], next)
    BY <1>2 DEF TypeOK, ReadsAreOld
  <2>2. ReadBefore(drive[p][t], row'[t], next') BY <1>1, <2>1, ReadStaysBehind
  <2> QED BY <1>2, <2>2
<1>3. CASE /\ UNCHANGED <<row, next>> /\ row[t].status = "continuable"
           /\ drive'[p][t].idx = row[t].idx /\ drive'[p][t].author = row[t].author
  <2>1. row[t].idx \in Nat /\ row[t].author \in Nat BY DEF TypeOK, Row
  <2>2. row[t].token = NoToken /\ row[t].author < next
    BY <1>3 DEF Claimed, OnlyRunningRowsAreClaimed, Authored
  <2> QED BY <1>3, <2>1, <2>2 DEF ReadBefore
<1> QED BY <1>2, <1>3, RenewalsAreRead
\* The invariant of the transcripts holds in every state of every behaviour.
LEMMA AuthoredAlways == Spec => [](TypeOK /\ Claimed /\ Authored /\ ReadsAreOld)
<1>1. Init => TypeOK /\ Claimed /\ Authored /\ ReadsAreOld
  BY TypeInit, ClaimedInit, AuthoredInit
<1>2. (TypeOK /\ Claimed /\ Authored /\ ReadsAreOld) /\ [Next]_vars
        => (TypeOK /\ Claimed /\ Authored /\ ReadsAreOld)'
  BY TypeStep, ClaimedStep, AuthoredStep, ReadsStep
<1> QED BY <1>1, <1>2, PTL DEF Spec

\* A transcript gives way to an older one only in a grant of a lease that another
\* process had already granted since the row was read (continueTurn).
LEMMA FencedStep ==
  ASSUME TypeOK, Claimed, Authored, ReadsAreOld, RowStep,
         NEW t \in Turn, row'[t].author < row[t].author
  PROVE  t \in hist'.rewound
<1>0. row[t].author \in Nat /\ row[t].token \in Nat BY DEF TypeOK, Row
<1>1. row'[t].author # row[t].author BY <1>0
<1>2. ~QuietStep BY <1>1 DEF QuietStep
<1>3. ASSUME NEW u \in Turn, NEW status, NEW token, NEW author, NEW idx,
             SetsRow(u, status, token, author, idx)
      PROVE  u = t /\ author < row[t].author
  BY <1>1, <1>3, RowsAfter
<1>4. ASSUME NEW u \in Turn, EnqueueStep(u) \/ RunStep(u) PROVE FALSE
  <2>1. row[u].status = "absent" /\ u = t /\ NoToken < row[t].author
    BY <1>3, <1>4 DEF EnqueueStep, RunStep
  <2> QED BY <2>1 DEF Authored, NoToken
<1>5. ASSUME NEW u \in Turn, ClaimStep(u) \/ WakeStep(u) \/ RevokeStep(u) PROVE FALSE
  BY <1>0, <1>3, <1>5 DEF ClaimStep, WakeStep, RevokeStep
<1>6. ASSUME NEW u \in Turn, NEW status \in {"waiting", "done", "continuable"},
             SaveStep(u) \/ SettleStep(u, status)
      PROVE  FALSE
  <2>1. row[u].token # NoToken /\ u = t /\ row[u].token < row[t].author
    BY <1>3, <1>6 DEF SaveStep, SettleStep
  <2> QED BY <1>0, <2>1 DEF Authored
<1>7. ASSUME NEW u \in Turn, NEW p \in Proc, drive[p][u].pc = "renewing",
             drive[p][u].idx # row[u].idx => u \in hist'.rewound,
             GrantStep(u, drive[p][u].author)
      PROVE  t \in hist'.rewound
  <2>1. u = t /\ drive[p][u].author < row[t].author BY <1>3, <1>7 DEF GrantStep
  <2>2. drive[p][t].idx # row[t].idx
    BY <1>0, <1>7, <2>1 DEF ReadsAreOld, ReadBefore
  <2> QED BY <1>7, <2>1, <2>2
<1> QED BY <1>2, <1>4, <1>5, <1>6, <1>7 DEF RowStep

\* Whatever claims are stolen, lost and finished late, a later claim's transcript is
\* never replaced by an earlier one's, but by a grant that rewinds the row.
THEOREM FencedTranscriptCorrect == Spec => FencedTranscript
<1>1. TypeOK /\ Claimed /\ Authored /\ ReadsAreOld /\ [Next]_vars
        => [\A t \in Turn : row'[t].author < row[t].author => t \in hist'.rewound]_vars
  BY EveryStepIsARowStep, FencedStep
<1> QED BY <1>1, AuthoredAlways, PTL DEF Spec, FencedTranscript

----------------------------------------------------------------------------
(* The table implements the lifecycle: a step maps to a step or a stutter. *)

\* The mapped variables, as Lifecycle substitutes them.
phases == [t \in Turn |-> PhaseOf(row[t].status)]
tickets == [t \in Turn |-> row[t].token]
authors == [t \in Turn |-> row[t].author]

\* The phase of each status.
LEMMA Phases ==
  /\ PhaseOf("absent") = "absent" /\ PhaseOf("running") = "claimed"
  /\ PhaseOf("continuable") = "yielded" /\ PhaseOf("done") = "done"
  /\ \A status \in Claimable : PhaseOf(status) = "owed"
  BY DEF PhaseOf, Claimable

\* A row step changes the mapped variables of its own turn only.
LEMMA MappedAfter ==
  ASSUME TypeOK, NEW t \in Turn, NEW status, NEW token, NEW author, NEW idx,
         SetsRow(t, status, token, author, idx)
  PROVE  /\ phases' = [phases EXCEPT ![t] = PhaseOf(status)]
         /\ tickets' = [tickets EXCEPT ![t] = token]
         /\ authors' = [authors EXCEPT ![t] = author]
<1>1. \A u \in Turn : u # t => row'[u] = row[u] BY RowsAfter
<1>2. row'[t].status = status /\ row'[t].token = token /\ row'[t].author = author
  BY RowsAfter
<1> QED BY <1>1, <1>2 DEF phases, tickets, authors

\* Every kind of row step is a step of the lifecycle, or changes nothing of it.
LEMMA LifecycleStep ==
  ASSUME TypeOK, Claimed, Authored, ReadsAreOld, RowStep
  PROVE  Lifecycle!Next \/ UNCHANGED <<phases, tickets, next, authors>>
<1>0. /\ next \in Nat /\ (next + 1) - 1 = (next - 1) + 1 /\ (next + 1) - 1 = next
      /\ \A t \in Turn : row[t] \in Row
  BY DEF TypeOK
<1>1. CASE QuietStep
  BY <1>1 DEF QuietStep, phases, tickets, authors
<1>2. ASSUME NEW t \in Turn, EnqueueStep(t) PROVE Lifecycle!Submit(t)
  <2>1. /\ SetsRow(t, "runnable", NoToken, NoToken, 0) /\ next' = next
        /\ row[t].status = "absent"
    BY <1>2 DEF EnqueueStep
  <2>2. row[t].token = NoToken /\ row[t].author = NoToken
    BY <2>1 DEF Claimed, OnlyRunningRowsAreClaimed, Authored
  <2>3. phases' = [phases EXCEPT ![t] = "owed"]
    BY <2>1, MappedAfter, Phases DEF Claimable
  <2>4. tickets' = tickets /\ authors' = authors
    <3>1. tickets' = [tickets EXCEPT ![t] = NoToken]
          /\ authors' = [authors EXCEPT ![t] = NoToken]
      BY <2>1, MappedAfter
    <3> QED BY <2>2, <3>1 DEF tickets, authors
  <2> QED BY <2>1, <2>3, <2>4, Phases DEF Lifecycle!Submit, phases, tickets, authors
<1>3. ASSUME NEW t \in Turn, RunStep(t) PROVE Lifecycle!Take(t)
  <2>1. /\ SetsRow(t, "running", next, NoToken, 0) /\ next' = next + 1
        /\ row[t].status = "absent"
    BY <1>3 DEF RunStep
  <2>2. row[t].author = NoToken BY <2>1 DEF Authored
  <2>3. phases' = [phases EXCEPT ![t] = "claimed"] /\ tickets' = [tickets EXCEPT ![t] = next]
    BY <2>1, MappedAfter, Phases
  <2>4. authors' = authors
    <3>1. authors' = [authors EXCEPT ![t] = NoToken] BY <2>1, MappedAfter
    <3> QED BY <2>2, <3>1 DEF authors
  <2> QED BY <1>0, <2>1, <2>3, <2>4, Phases DEF Lifecycle!Take, phases, tickets, authors
<1>4. ASSUME NEW t \in Turn, ClaimStep(t) PROVE Lifecycle!Take(t)
  <2>1. /\ SetsRow(t, "running", next, row[t].author, row[t].idx) /\ next' = next + 1
        /\ row[t].status \in Claimable
    BY <1>4 DEF ClaimStep
  <2>2. phases' = [phases EXCEPT ![t] = "claimed"] /\ tickets' = [tickets EXCEPT ![t] = next]
    BY <2>1, MappedAfter, Phases
  <2>3. authors' = authors
    <3>1. authors' = [authors EXCEPT ![t] = row[t].author] BY <2>1, MappedAfter
    <3> QED BY <3>1 DEF authors
  <2> QED BY <1>0, <2>1, <2>2, <2>3, Phases DEF Lifecycle!Take, phases, tickets, authors
<1>5. ASSUME NEW t \in Turn, WakeStep(t) PROVE UNCHANGED <<phases, tickets, next, authors>>
  <2>1. /\ SetsRow(t, "runnable", row[t].token, row[t].author, row[t].idx)
        /\ next' = next /\ row[t].status = "waiting"
    BY <1>5 DEF WakeStep
  <2>2. /\ phases' = [phases EXCEPT ![t] = "owed"]
        /\ tickets' = [tickets EXCEPT ![t] = row[t].token]
        /\ authors' = [authors EXCEPT ![t] = row[t].author]
    BY <2>1, MappedAfter, Phases DEF Claimable
  <2>3. PhaseOf(row[t].status) = "owed" BY <2>1, Phases DEF Claimable
  <2> QED BY <2>1, <2>2, <2>3 DEF phases, tickets, authors
<1>6. ASSUME NEW t \in Turn, SaveStep(t) PROVE Lifecycle!Write(t)
  <2>1. /\ SetsRow(t, row[t].status, row[t].token, row[t].token, row[t].idx)
        /\ next' = next /\ row[t].status = "running"
    BY <1>6 DEF SaveStep, Claimed, OnlyRunningRowsAreClaimed
  <2>2. /\ phases' = [phases EXCEPT ![t] = PhaseOf(row[t].status)]
        /\ tickets' = [tickets EXCEPT ![t] = row[t].token]
        /\ authors' = [authors EXCEPT ![t] = row[t].token]
    BY <2>1, MappedAfter
  <2>3. phases' = phases /\ tickets' = tickets BY <2>2 DEF phases, tickets
  <2> QED BY <2>1, <2>2, <2>3, Phases DEF Lifecycle!Write, phases, tickets, authors
<1>7. ASSUME NEW t \in Turn, NEW status \in {"waiting", "done", "continuable"},
             SettleStep(t, status)
      PROVE  \E to \in {"owed", "yielded", "done"} : Lifecycle!Settle(t, to)
  <2>1. /\ SetsRow(t, status, NoToken, row[t].token, row[t].idx)
        /\ next' = next /\ row[t].status = "running"
    BY <1>7 DEF SettleStep, Claimed, OnlyRunningRowsAreClaimed
  <2>2. /\ phases' = [phases EXCEPT ![t] = PhaseOf(status)]
        /\ tickets' = [tickets EXCEPT ![t] = 0]
        /\ authors' = [authors EXCEPT ![t] = row[t].token]
    BY <2>1, MappedAfter DEF NoToken
  <2>3. PhaseOf(status) \in {"owed", "yielded", "done"} BY <1>7, Phases DEF Claimable
  <2>4. Lifecycle!Settle(t, PhaseOf(status))
    BY <2>1, <2>2, Phases DEF Lifecycle!Settle, phases, tickets, authors
  <2> QED BY <2>3, <2>4
<1>8. ASSUME NEW t \in Turn, NEW p \in Proc, drive[p][t].pc = "renewing",
             GrantStep(t, drive[p][t].author)
      PROVE  Lifecycle!Renew(t)
  <2> DEFINE a == drive[p][t].author
  <2>1. /\ SetsRow(t, "running", next, a, row[t].idx + 1) /\ next' = next + 1
        /\ row[t].status = "continuable"
    BY <1>8 DEF GrantStep
  <2>2. a \in 0 .. row[t].author
    <3>1. a \in Nat /\ row[t].author \in Nat BY <1>0 DEF TypeOK, Drive, Row
    <3>2. a <= row[t].author BY <1>8, <2>1 DEF ReadsAreOld, ReadBefore
    <3> QED BY <3>1, <3>2
  <2> HIDE DEF a
  <2>3. /\ phases' = [phases EXCEPT ![t] = "claimed"]
        /\ tickets' = [tickets EXCEPT ![t] = next]
        /\ authors' = [authors EXCEPT ![t] = a]
    BY <2>1, MappedAfter, Phases
  <2> QED BY <1>0, <2>1, <2>2, <2>3, Phases DEF Lifecycle!Renew, phases, tickets, authors
<1>9. ASSUME NEW t \in Turn, RevokeStep(t) PROVE Lifecycle!Revoke(t)
  <2>1. /\ SetsRow(t, "interrupted", NoToken, row[t].author, row[t].idx)
        /\ next' = next /\ row[t].status = "running"
    BY <1>9 DEF RevokeStep
  <2>2. /\ phases' = [phases EXCEPT ![t] = "owed"]
        /\ tickets' = [tickets EXCEPT ![t] = 0]
        /\ authors' = [authors EXCEPT ![t] = row[t].author]
    BY <2>1, MappedAfter, Phases DEF Claimable, NoToken
  <2>3. authors' = authors BY <2>2 DEF authors
  <2> QED BY <2>1, <2>2, <2>3, Phases DEF Lifecycle!Revoke, phases, tickets, authors
<1> QED
  BY <1>1, <1>2, <1>3, <1>4, <1>5, <1>6, <1>7, <1>8, <1>9 DEF RowStep, Lifecycle!Next

\* The turn table implements TurnLifecycle: through any crash, stolen claim, late
\* write and stale grant the record as a whole moves only as the lifecycle allows.
THEOREM LifecycleImplemented == Spec => ImplementsLifecycle
<1>1. Init => Lifecycle!Init
  BY Phases DEF Init, Lifecycle!Init, NoRow, NoToken
<1>2. TypeOK /\ Claimed /\ Authored /\ ReadsAreOld /\ [Next]_vars
        => [Lifecycle!Next]_(Lifecycle!vars)
  BY EveryStepIsARowStep, LifecycleStep DEF Lifecycle!vars, phases, tickets, authors
<1> QED
  BY <1>1, <1>2, AuthoredAlways, PTL DEF Spec, ImplementsLifecycle, Lifecycle!Spec

----------------------------------------------------------------------------
(* The books: the rollup, the dead streak and the recoveries of a row.     *)

\* The figures of a row that its lease rows account for.
Figures(r) == <<r.leases, r.lifeCalls, r.streak>>

\* A checkpoint writes the recoveries its driver counts, and no other figure.
LEMMA SavedBooks ==
  ASSUME NEW r \in Row, NEW d \in Drive
  PROVE  Figures(Saved(r, d)) = Figures(r) /\ Saved(r, d).resumes = d.resumes
  BY DEF Saved, Row, Drive, Figures

\* Folding a lease adds one, and its calls.
LEMMA FoldedBooks ==
  ASSUME NEW r \in Row, NEW n \in Nat
  PROVE  Figures(Folded(r, n)) = <<r.leases + 1, r.lifeCalls + n, r.streak>>
  BY DEF Folded, Row, Figures

\* Neither letting go of the claim nor a later status writes a figure.
LEMMA UnclaimedBooks ==
  ASSUME NEW r \in Row
  PROVE  Figures(Unclaimed(r)) = Figures(r) /\ Unclaimed(r).resumes = r.resumes
  BY DEF Unclaimed, Row, Figures

\* A suspension writes what a checkpoint does.
LEMMA SuspendedBooks ==
  ASSUME NEW r \in Row, NEW d \in Drive, NEW b \in Barrier
  PROVE  Figures(Suspended(r, d, b)) = Figures(r) /\ Suspended(r, d, b).resumes = d.resumes
<1> DEFINE v == Saved(r, d)
           u == Unclaimed(v)
<1>1. v \in Row /\ Figures(v) = Figures(r) /\ v.resumes = d.resumes
  BY SavedRow, SavedBooks
<1>2. Suspended(r, d, b) = [u EXCEPT !.status = "waiting", !.barrier = b]
  BY DEF Suspended
<1> HIDE DEF v
<1>3. u \in Row /\ Figures(u) = Figures(r) /\ u.resumes = d.resumes
  BY <1>1, UnclaimedRow, UnclaimedBooks
<1> HIDE DEF u
<1> QED  BY <1>2, <1>3 DEF Row, Figures

\* A finish folds the lease that has begun.
LEMMA FinishedBooks ==
  ASSUME NEW r \in Row, NEW d \in Drive
  PROVE  /\ d.built => Figures(Finished(r, d)) =
                         <<r.leases + 1, r.lifeCalls + d.calls, r.streak>>
         /\ ~d.built => Figures(Finished(r, d)) = Figures(r)
         /\ Finished(r, d).resumes = d.resumes
<1> DEFINE f == IF d.built THEN Folded(r, d.calls) ELSE r
           v == Saved(f, d)
           u == Unclaimed(v)
<1>0. d.calls \in Nat
  BY DEF Drive
<1>1. /\ f \in Row
      /\ d.built => Figures(f) = <<r.leases + 1, r.lifeCalls + d.calls, r.streak>>
      /\ ~d.built => Figures(f) = Figures(r)
  BY <1>0, FoldedRow, FoldedBooks
<1>2. Finished(r, d) = [u EXCEPT !.status = "done"]
  BY DEF Finished
<1> HIDE DEF f
<1>3. v \in Row /\ Figures(v) = Figures(f) /\ v.resumes = d.resumes
  BY <1>1, SavedRow, SavedBooks
<1> HIDE DEF v
<1>4. u \in Row /\ Figures(u) = Figures(f) /\ u.resumes = d.resumes
  BY <1>3, UnclaimedRow, UnclaimedBooks
<1> HIDE DEF u
<1>5. Figures(Finished(r, d)) = Figures(f) /\ Finished(r, d).resumes = d.resumes
  BY <1>2, <1>4 DEF Row, Figures
<1> QED  BY <1>1, <1>5

\* A release folds the lease and writes the streak.
LEMMA ReleasedBooks ==
  ASSUME NEW r \in Row, NEW d \in Drive, NEW n \in Nat
  PROVE  /\ Figures(Released(r, d, n)) = <<r.leases + 1, r.lifeCalls + d.calls, n>>
         /\ Released(r, d, n).resumes = d.resumes
<1> DEFINE f == Folded(r, d.calls)
           v == Saved(f, d)
           u == Unclaimed(v)
<1>0. d.calls \in Nat
  BY DEF Drive
<1>1. f \in Row /\ Figures(f) = <<r.leases + 1, r.lifeCalls + d.calls, r.streak>>
  BY <1>0, FoldedRow, FoldedBooks
<1>2. Released(r, d, n) =
        [u EXCEPT !.status = "continuable", !.streak = n, !.cooled = FALSE]
  BY DEF Released
<1> HIDE DEF f
<1>3. v \in Row /\ Figures(v) = Figures(f) /\ v.resumes = d.resumes
  BY <1>1, SavedRow, SavedBooks
<1> HIDE DEF v
<1>4. u \in Row /\ Figures(u) = Figures(f) /\ u.resumes = d.resumes
  BY <1>3, UnclaimedRow, UnclaimedBooks
<1> HIDE DEF u
<1>5. /\ Released(r, d, n).leases = u.leases /\ Released(r, d, n).lifeCalls = u.lifeCalls
      /\ Released(r, d, n).streak = n /\ Released(r, d, n).resumes = u.resumes
  BY <1>2, <1>4 DEF Row
<1> QED  BY <1>1, <1>4, <1>5 DEF Figures

----------------------------------------------------------------------------
(* What a lease table adds up to.                                          *)

\* Tables that agree on what is closed add up to the same.
LEMMA SameClosed ==
  ASSUME NEW ls \in [LeaseIndex -> Lease], NEW ms \in [LeaseIndex -> Lease],
         \A i \in LeaseIndex : \/ ms[i] = ls[i]
                               \/ ls[i].state # "closed" /\ ms[i].state # "closed"
  PROVE  /\ ClosedIndexes(ms) = ClosedIndexes(ls)
         /\ CallsOf(ms) = CallsOf(ls) /\ DeadTail(ms) = DeadTail(ls)
<1>1. /\ ClosedIndexes(ms) = ClosedIndexes(ls)
      /\ \A i \in ClosedIndexes(ls) : ms[i] = ls[i]
  BY DEF ClosedIndexes
<1>2. CallsOf(ms) = CallsOf(ls)
  BY <1>1 DEF CallsOf
<1>3. {i \in ClosedIndexes(ms) : \A j \in ClosedIndexes(ms) : j >= i => IsDead(ms[j])}
        = {i \in ClosedIndexes(ls) : \A j \in ClosedIndexes(ls) : j >= i => IsDead(ls[j])}
  BY <1>1
<1> QED  BY <1>1, <1>2, <1>3 DEF DeadTail

\* There are finitely many closed leases, with finitely many calls.
LEMMA BooksAreFinite ==
  ASSUME NEW ls \in [LeaseIndex -> Lease]
  PROVE  /\ IsFiniteSet(ClosedIndexes(ls)) /\ IsFiniteSet(CallsOf(ls))
         /\ Cardinality(ClosedIndexes(ls)) \in Nat /\ Cardinality(CallsOf(ls)) \in Nat
<1>1. IsFiniteSet(ClosedIndexes(ls))
  <2>1. IsFiniteSet(LeaseIndex)
    BY FS_Interval, BoundsAreNaturals DEF LeaseIndex
  <2>2. ClosedIndexes(ls) \in SUBSET LeaseIndex
    BY DEF ClosedIndexes
  <2> QED  BY <2>1, <2>2, FS_Subset
<1>2. IsFiniteSet({{i} \X (1 .. ls[i].calls) : i \in ClosedIndexes(ls)})
  <2> DEFINE all == {{i} \X (1 .. ls[i].calls) : i \in ClosedIndexes(ls)}
             calls == [i \in ClosedIndexes(ls) |-> {i} \X (1 .. ls[i].calls)]
  <2>1. calls \in Surjection(ClosedIndexes(ls), all)
    BY DEF Surjection
  <2> HIDE DEF all, calls
  <2>2. IsFiniteSet(all)
    BY <1>1, <2>1, FS_Surjection
  <2> QED  BY <2>2 DEF all
<1>3. ASSUME NEW i \in ClosedIndexes(ls)
      PROVE  IsFiniteSet({i} \X (1 .. ls[i].calls))
  <2>1. ls[i].calls \in Nat
    BY DEF ClosedIndexes, Lease
  <2>2. IsFiniteSet(1 .. ls[i].calls)
    BY <2>1, FS_Interval
  <2>3. IsFiniteSet({i})
    BY FS_Singleton
  <2> QED  BY <2>2, <2>3, FS_Product
<1>4. IsFiniteSet(CallsOf(ls))
  BY <1>2, <1>3, FS_UNION DEF CallsOf
<1> QED  BY <1>1, <1>4, FS_CardinalityType

\* A lease closed after all the others adds one lease, its own calls, and one to
\* the dead tail or an end to it.
LEMMA ClosingAdds ==
  ASSUME NEW ls \in [LeaseIndex -> Lease], NEW i \in LeaseIndex, NEW n \in Nat,
         NEW c \in Class, \A j \in ClosedIndexes(ls) : j < i
  PROVE  LET ms == Closed(ls, i, n, c)
         IN  /\ ClosedIndexes(ms) = ClosedIndexes(ls) \cup {i}
             /\ Cardinality(ClosedIndexes(ms)) = Cardinality(ClosedIndexes(ls)) + 1
             /\ Cardinality(CallsOf(ms)) = Cardinality(CallsOf(ls)) + n
             /\ DeadTail(ms) = DeadStreak(ls, c, n)
<1> DEFINE ms == Closed(ls, i, n, c)
           old == ClosedIndexes(ls)
<1>0. i \in Nat /\ i \notin old /\ old \subseteq LeaseIndex
  BY DEF ClosedIndexes, LeaseIndex
<1>1. /\ ms[i] = [state |-> "closed", calls |-> n, class |-> c]
      /\ \A j \in LeaseIndex : j # i => ms[j] = ls[j]
  BY DEF Closed
<1>2. ClosedIndexes(ms) = old \cup {i}
  <2>1. ms[i].state = "closed"
    BY <1>1
  <2> HIDE DEF ms
  <2> QED  BY <1>1, <2>1 DEF ClosedIndexes
<1>3. Cardinality(ClosedIndexes(ms)) = Cardinality(old) + 1
  BY <1>0, <1>2, BooksAreFinite, FS_AddElement
<1>4. Cardinality(CallsOf(ms)) = Cardinality(CallsOf(ls)) + n
  <2> DEFINE mine == {i} \X (1 .. n)
  <2>1. CallsOf(ms) = CallsOf(ls) \cup mine
    <3>1. CallsOf(ms) = UNION {{j} \X (1 .. ms[j].calls) : j \in old \cup {i}}
      BY <1>2 DEF CallsOf
    <3>2. \A j \in old : ms[j].calls = ls[j].calls
      BY <1>0, <1>1
    <3>3. ms[i].calls = n
      BY <1>1
    <3> HIDE DEF ms
    <3> QED  BY <3>1, <3>2, <3>3 DEF CallsOf
  <2>2. CallsOf(ls) \cap mine = {}
    BY <1>0 DEF CallsOf
  <2>3. IsFiniteSet(mine) /\ Cardinality(mine) = n
    <3>1. IsFiniteSet(1 .. n) /\ Cardinality(1 .. n) = n
      BY FS_Interval
    <3>2. IsFiniteSet({i}) /\ Cardinality({i}) = 1
      BY FS_Singleton
    <3>3. IsFiniteSet(mine) /\ Cardinality(mine) = 1 * n
      BY <3>1, <3>2, FS_Product
    <3> QED  BY <3>3
  <2> HIDE DEF mine, ms
  <2>4. Cardinality(CallsOf(ls) \cup mine) = Cardinality(CallsOf(ls)) + n - Cardinality({})
    BY <2>2, <2>3, BooksAreFinite, FS_Union
  <2> QED  BY <2>1, <2>4, BooksAreFinite, FS_EmptySet
<1>5. DeadTail(ms) = DeadStreak(ls, c, n)
  <2> DEFINE tail == {k \in old : \A j \in old : j >= k => IsDead(ls[j])}
             after == {k \in old \cup {i} : \A j \in old \cup {i} : j >= k => IsDead(ms[j])}
  <2>1. DeadTail(ms) = Cardinality(after) /\ DeadTail(ls) = Cardinality(tail)
    BY <1>2 DEF DeadTail
  <2>2. \A j \in old : ms[j] = ls[j] /\ j < i /\ j \in Nat
    BY <1>0, <1>1 DEF LeaseIndex
  <2>3. IsDead(ms[i]) <=> c = "dead" /\ n = 0
    BY <1>1 DEF IsDead
  <2>4. IsFiniteSet(tail)
    BY BooksAreFinite, FS_Subset
  <2> HIDE DEF ms, old
  <2>5. CASE c = "dead" /\ n = 0
    <3>1. after = tail \cup {i} /\ i \notin tail
      BY <1>0, <2>2, <2>3, <2>5
    <3>2. Cardinality(after) = Cardinality(tail) + 1 /\ Cardinality(tail) \in Nat
      BY <2>4, <3>1, FS_AddElement, FS_CardinalityType
    <3> QED  BY <2>1, <2>5, <3>2 DEF DeadStreak
  <2>6. CASE ~(c = "dead" /\ n = 0)
    <3>1. \A k \in old \cup {i} : i >= k /\ ~IsDead(ms[i])
      BY <1>0, <2>2, <2>3, <2>6
    <3>2. after = {}
      BY <3>1
    <3> QED  BY <2>1, <2>6, <3>2, FS_EmptySet DEF DeadStreak
  <2> QED  BY <2>5, <2>6
<1> QED  BY <1>2, <1>3, <1>4, <1>5

----------------------------------------------------------------------------
(* The rollup and the streak.                                              *)

(***************************************************************************)
(* What is closed is not later than the lease the row is at, which is      *)
(* closed only when the row has yielded it or is done.                     *)
(***************************************************************************)
Ledger(t) ==
  /\ row[t].idx \in LeaseIndex
  /\ row[t].status = "absent" => row[t] = NoRow
  /\ \A i \in ClosedIndexes(lease[t]) :
       /\ i <= row[t].idx
       /\ i = row[t].idx => row[t].status \in {"continuable", "done"}
  /\ row[t].leases = Cardinality(ClosedIndexes(lease[t]))
  /\ row[t].lifeCalls = Cardinality(CallsOf(lease[t]))
  /\ row[t].status = "continuable" => row[t].streak = DeadTail(lease[t])

Ledgers == \A t \in Turn : Ledger(t)

\* A step leaves the rollup of a row and its closed leases alone,
KeepsLedger(t) ==
  /\ row'[t].leases = row[t].leases /\ row'[t].lifeCalls = row[t].lifeCalls
  /\ \A i \in LeaseIndex : \/ lease'[t][i] = lease[t][i]
                           \/ lease[t][i].state # "closed" /\ lease'[t][i].state # "closed"

\* within a lease,
StaysInLease(t) ==
  /\ KeepsLedger(t) /\ row'[t].idx = row[t].idx
  /\ row'[t] = row[t] \/ row'[t].status # "absent"
  /\ \/ row'[t].status = row[t].status /\ row'[t].streak = row[t].streak
     \/ row[t].status \notin {"continuable", "done"} /\ row'[t].status # "continuable"

\* or as it opens the next one,
OpensNext(t) ==
  /\ KeepsLedger(t) /\ row'[t].idx = row[t].idx + 1 /\ row'[t].idx \in LeaseIndex
  /\ row'[t].status = "running"

\* or folds the lease a running row is at into the rollup and closes it.
ClosesLease(t) ==
  \E n \in Nat, c \in Class :
    /\ row[t].status = "running" /\ row'[t].status \in {"continuable", "done"}
    /\ row'[t].idx = row[t].idx
    /\ row'[t].leases = row[t].leases + 1 /\ row'[t].lifeCalls = row[t].lifeCalls + n
    /\ lease'[t] = Closed(lease[t], row[t].idx, n, c)
    /\ row'[t].status = "continuable" => row'[t].streak = DeadStreak(lease[t], c, n)

\* Every step is one of the three for each turn.
LEMMA LedgerSteps ==
  TypeOK /\ Claimed /\ Ledgers /\ [Next]_vars =>
    \A t \in Turn : StaysInLease(t) \/ OpensNext(t) \/ ClosesLease(t)
<1> SUFFICES ASSUME TypeOK, Claimed, Ledgers, [Next]_vars
             PROVE  \A t \in Turn : StaysInLease(t) \/ OpensNext(t) \/ ClosesLease(t)
  OBVIOUS
<1> DEFINE Moved(t) == StaysInLease(t) \/ OpensNext(t) \/ ClosesLease(t)
           Kinds == \A t \in Turn : Moved(t)
<1>0. /\ \A t \in Turn : row[t] \in Row /\ lease[t] \in [LeaseIndex -> Lease]
      /\ \A p \in Proc, t \in Turn : drive[p][t] \in Drive
      /\ row \in [Turn -> Row] /\ lease \in [Turn -> [LeaseIndex -> Lease]]
      /\ scan \in [Proc -> SUBSET Candidate] /\ next \in Nat
  BY DEF TypeOK
<1>a. ASSUME NEW u \in Turn, row'[u] = row[u], lease'[u] = lease[u]
      PROVE  Moved(u)
  BY <1>a DEF StaysInLease, KeepsLedger
<1>b. ASSUME UNCHANGED <<row, lease>>
      PROVE  Kinds
  BY <1>a, <1>b
\* A step that writes the row of one turn and closes no lease.
<1>c. ASSUME NEW t \in Turn, NEW r, row' = [row EXCEPT ![t] = r],
             lease' = lease \/ (\E i : lease' = Opened(t, i)),
             r.leases = row[t].leases, r.lifeCalls = row[t].lifeCalls,
             \/ /\ r.idx = row[t].idx /\ r.status # "absent"
                /\ \/ r.status = row[t].status /\ r.streak = row[t].streak
                   \/ row[t].status \notin {"continuable", "done"} /\ r.status # "continuable"
             \/ r.idx = row[t].idx + 1 /\ r.idx \in LeaseIndex /\ r.status = "running"
      PROVE  Kinds
  <2>1. row'[t] = r /\ \A u \in Turn : u # t => row'[u] = row[u] /\ lease'[u] = lease[u]
    BY <1>0, <1>c DEF Opened
  <2>2. \A i \in LeaseIndex : \/ lease'[t][i] = lease[t][i]
                              \/ lease[t][i].state # "closed" /\ lease'[t][i].state # "closed"
    <3>1. CASE lease' = lease
      BY <3>1
    <3>2. ASSUME NEW i, lease' = [lease EXCEPT ![t][i].state = "open"],
                 lease[t][i].state = "none"
          PROVE  <2>2!:
      <4> TAKE j \in LeaseIndex
      <4>0. lease[t] \in [LeaseIndex -> Lease] /\ lease[t][j] \in Lease
        BY <1>0
      <4>1. lease'[t] = [lease[t] EXCEPT ![i].state = "open"]
        BY <1>0, <3>2
      <4>2. CASE j = i
        <5>1. lease'[t][j] = [lease[t][j] EXCEPT !.state = "open"]
          BY <4>0, <4>1, <4>2
        <5> QED  BY <3>2, <4>0, <4>2, <5>1 DEF Lease
      <4>3. CASE j # i
        BY <4>0, <4>1, <4>3
      <4> QED  BY <4>2, <4>3
    <3> QED  BY <1>c, <3>1, <3>2 DEF Opened
  <2>3. StaysInLease(t) \/ OpensNext(t)
    BY <1>c, <2>1, <2>2 DEF StaysInLease, OpensNext, KeepsLedger
  <2> QED  BY <1>a, <2>1, <2>3
\* A step that folds the lease of a running row into it.
<1>d. ASSUME NEW t \in Turn, NEW r, NEW n \in Nat, NEW c \in Class,
             row' = [row EXCEPT ![t] = r],
             lease' = [lease EXCEPT ![t] = Closed(lease[t], row[t].idx, n, c)],
             row[t].status = "running", r.status \in {"continuable", "done"},
             r.idx = row[t].idx, r.leases = row[t].leases + 1,
             r.lifeCalls = row[t].lifeCalls + n,
             r.status = "continuable" => r.streak = DeadStreak(lease[t], c, n)
      PROVE  Kinds
  <2>1. /\ row'[t] = r /\ lease'[t] = Closed(lease[t], row[t].idx, n, c)
        /\ \A u \in Turn : u # t => row'[u] = row[u] /\ lease'[u] = lease[u]
    BY <1>0, <1>d
  <2>2. ClosesLease(t)
    BY <1>d, <2>1 DEF ClosesLease
  <2> QED  BY <1>a, <2>1, <2>2
<1> HIDE DEF Moved, Kinds
<1>1. ASSUME NEW t \in Turn, Enqueue(t) \/ (\E p \in Proc : RunTurn(p, t))
      PROVE  Kinds
  <2>1. row[t] = NoRow
    BY <1>1 DEF Ledgers, Ledger, Enqueue, RunTurn
  <2> DEFINE a == [NoRow EXCEPT !.status = "runnable"]
             b == [NoRow EXCEPT !.status = "running", !.token = next]
  <2>2. PICK r : r \in {a, b} /\ row' = [row EXCEPT ![t] = r] /\ lease' = Opened(t, 0)
    BY <1>1 DEF Enqueue, RunTurn, SetRow
  <2>3. /\ r.leases = NoRow.leases /\ r.lifeCalls = NoRow.lifeCalls /\ r.idx = NoRow.idx
        /\ r.status \in {"runnable", "running"} /\ NoRow.status = "absent"
    BY <2>2 DEF NoRow
  <2> HIDE DEF a, b
  <2> QED  BY <1>c, <2>1, <2>2, <2>3
<1>2. ASSUME NEW p \in Proc, NEW t \in Turn, Claim(p, t)
      PROVE  Kinds
  <2> DEFINE r == [row[t] EXCEPT !.status = "running", !.token = next,
                                 !.barrier = "none", !.stale = FALSE]
  <2>1. /\ r.leases = row[t].leases /\ r.lifeCalls = row[t].lifeCalls
        /\ r.idx = row[t].idx /\ r.status = "running"
    BY <1>0 DEF Row
  <2>2. row' = [row EXCEPT ![t] = r] /\ lease' = lease /\ row[t].status \in Claimable
    BY <1>2 DEF Claim, SetRow
  <2> HIDE DEF r
  <2> QED  BY <1>c, <2>1, <2>2 DEF Claimable
<1>3. ASSUME NEW p \in Proc, NEW t \in Turn, NEW b \in Barrier,
             row[t].status = "running", lease' = lease,
             row' = [row EXCEPT ![t] = Suspended(row[t], drive[p][t], b)]
      PROVE  Kinds
  <2> DEFINE r == Suspended(row[t], drive[p][t], b)
  <2>1. /\ r.leases = row[t].leases /\ r.lifeCalls = row[t].lifeCalls
        /\ r.idx = row[t].idx /\ r.status = "waiting"
    BY <1>0, SuspendedRow, SuspendedBooks DEF Figures
  <2>2. row' = [row EXCEPT ![t] = r]
    BY <1>3
  <2> HIDE DEF r
  <2> QED  BY <1>3, <1>c, <2>1, <2>2
<1>4. ASSUME NEW p \in Proc, NEW t \in Turn, EndTurn(p, t)
      PROVE  Kinds
  <2> DEFINE d == drive[p][t]
             r == Finished(row[t], d)
  <2>0. d \in Drive /\ d.calls \in Nat /\ "end" \in Class
    BY <1>0 DEF Drive, Class
  <2>1. row[t].status = "running"
    BY <1>4 DEF EndTurn, Fenced, Claimed, OnlyRunningRowsAreClaimed
  <2>2. r.status = "done" /\ r.idx = row[t].idx
    BY <1>0, <2>0, FinishedRow
  <2>3. row' = [row EXCEPT ![t] = r]
    BY <1>4 DEF EndTurn, SetRow
  <2>4. CASE d.built
    <3>1. r.leases = row[t].leases + 1 /\ r.lifeCalls = row[t].lifeCalls + d.calls
      BY <1>0, <2>0, <2>4, FinishedBooks DEF Figures
    <3>2. lease' = [lease EXCEPT ![t] = Closed(lease[t], row[t].idx, d.calls, "end")]
      BY <1>4, <2>4 DEF EndTurn
    <3> HIDE DEF r, d
    <3> QED  BY <1>d, <2>0, <2>1, <2>2, <2>3, <3>1, <3>2
  <2>5. CASE ~d.built
    <3>1. r.leases = row[t].leases /\ r.lifeCalls = row[t].lifeCalls
      BY <1>0, <2>0, <2>5, FinishedBooks DEF Figures
    <3>2. lease' = lease
      BY <1>4, <2>5 DEF EndTurn
    <3> HIDE DEF r, d
    <3> QED  BY <1>c, <2>1, <2>2, <2>3, <3>1, <3>2
  <2> QED  BY <2>4, <2>5
<1>5. ASSUME NEW p \in Proc, NEW t \in Turn, Checkpoint(p, t)
      PROVE  Kinds
  <2> DEFINE d == [drive[p][t] EXCEPT !.pc = "round", !.built = TRUE, !.counts = FALSE]
             r == Saved(row[t], d)
  <2>1. d \in Drive
    BY <1>0, DriveUpdates
  <2>2. row' = [row EXCEPT ![t] = r] /\ lease' = lease
    BY <1>5 DEF Checkpoint, SetRow
  <2> HIDE DEF d
  <2>3. /\ r.leases = row[t].leases /\ r.lifeCalls = row[t].lifeCalls /\ r.idx = row[t].idx
        /\ r.status = row[t].status /\ r.streak = row[t].streak
    BY <1>0, <2>1, SavedRow, SavedBooks DEF Figures
  <2>4. row[t].status = "running"
    BY <1>5 DEF Checkpoint, Fenced, Claimed, OnlyRunningRowsAreClaimed
  <2> HIDE DEF r
  <2> QED  BY <1>c, <2>2, <2>3, <2>4
<1>6. ASSUME NEW p \in Proc, NEW t \in Turn, NEW c \in {"dead", "other"}, Release(p, t, c)
      PROVE  Kinds
  <2> DEFINE d == drive[p][t]
             s == DeadStreak(lease[t], c, d.calls)
             r == Released(row[t], d, s)
  <2>1. d \in Drive /\ d.calls \in Nat /\ c \in Class
    BY <1>0 DEF Drive, Class
  <2>2. s \in Nat
    BY <1>0, <2>1, DeadStreakNat
  <2>3. /\ row' = [row EXCEPT ![t] = r] /\ row[t].status = "running"
        /\ lease' = [lease EXCEPT ![t] = Closed(lease[t], row[t].idx, d.calls, c)]
    BY <1>6 DEF Release, SetRow
  <2>4. /\ r.leases = row[t].leases + 1 /\ r.lifeCalls = row[t].lifeCalls + d.calls
        /\ r.streak = s /\ r.status = "continuable" /\ r.idx = row[t].idx
    BY <1>0, <2>1, <2>2, ReleasedRow, ReleasedBooks DEF Figures
  <2> HIDE DEF r, d
  <2> QED  BY <1>d, <2>1, <2>3, <2>4
<1>7. ASSUME NEW p \in Proc, NEW t \in Turn, Grant(p, t)
      PROVE  Kinds
  <2> DEFINE d == drive[p][t]
             i == row[t].idx + 1
             r == [row[t] EXCEPT
                     !.status = "running", !.token = next, !.idx = i, !.streak = 0,
                     !.built = d.built, !.resumes = d.resumes, !.calls = 0,
                     !.author = d.author, !.stale = FALSE]
  <2>1. row' = [row EXCEPT ![t] = r] /\ lease' = Opened(t, i) /\ i <= MaxLease
    BY <1>7 DEF Grant, SetRow
  <2>2. i \in LeaseIndex
    BY <1>0, <2>1 DEF Row, LeaseIndex
  <2> HIDE DEF d, i
  <2>3. /\ r.leases = row[t].leases /\ r.lifeCalls = row[t].lifeCalls
        /\ r.idx = i /\ r.status = "running"
    BY <1>0 DEF Row
  <2> HIDE DEF r
  <2> QED  BY <1>c, <2>1, <2>2, <2>3 DEF i
<1>8. ASSUME NEW t \in Turn, Wake(t) \/ Cool(t) \/ Age(t)
      PROVE  Kinds
  <2>1. PICK r : /\ row' = [row EXCEPT ![t] = r] /\ lease' = lease
                 /\ \/ /\ row[t].status = "waiting"
                       /\ r = [row[t] EXCEPT !.status = "runnable", !.stale = FALSE]
                    \/ row[t].status = "continuable" /\ r = [row[t] EXCEPT !.cooled = TRUE]
                    \/ row[t].status = "running" /\ r = [row[t] EXCEPT !.stale = TRUE]
    BY <1>8 DEF Wake, Cool, Age, SetRow
  <2>2. /\ r.leases = row[t].leases /\ r.lifeCalls = row[t].lifeCalls /\ r.idx = row[t].idx
        /\ r.streak = row[t].streak /\ r.status # "absent"
        /\ r.status = row[t].status \/ (row[t].status = "waiting" /\ r.status = "runnable")
    BY <1>0, <2>1 DEF Row
  <2> QED  BY <1>c, <2>1, <2>2
<1>9. ASSUME NEW p \in Proc, NEW c \in scan[p], ReclaimRow(p, c)
      PROVE  Kinds
  <2> DEFINE t == c.turn
             u == Unclaimed(row[t])
             r == [u EXCEPT !.status = "interrupted"]
  <2>1. t \in Turn
    BY <1>0 DEF Candidate
  <2>2. u \in Row /\ Figures(u) = Figures(row[t]) /\ u.idx = row[t].idx
    BY <1>0, <2>1, UnclaimedRow, UnclaimedBooks
  <2>3. row' = [row EXCEPT ![t] = r] /\ lease' = lease /\ row[t].status = "running"
    BY <1>9 DEF ReclaimRow, SetRow
  <2> HIDE DEF u, t
  <2>4. /\ r.leases = row[t].leases /\ r.lifeCalls = row[t].lifeCalls /\ r.idx = row[t].idx
        /\ r.status = "interrupted"
    BY <2>2 DEF Row, Figures
  <2> HIDE DEF r
  <2> QED  BY <1>c, <2>1, <2>3, <2>4
<1>10. Kinds
  <2>1. ASSUME NEW p \in Proc, NEW t \in Turn, Resume(p, t)
        PROVE  Kinds
    <3>1. CASE Resuspend(p, t)
      <4>1. row' = [row EXCEPT ![t] = Suspended(row[t], drive[p][t], "approval")]
        BY <3>1 DEF Resuspend, SetRow
      <4> QED  BY <3>1, <4>1, <1>3 DEF Resuspend, Barrier
    <3>2. CASE Refuse(p, t) \/ Exhausted(p, t)
      BY <3>2, <1>4 DEF Refuse, Exhausted
    <3>3. CASE Look(p, t) \/ ClaimLost(p, t) \/ ReadBack(p, t) \/ Start(p, t)
      BY <3>3, <1>b DEF Look, ClaimLost, ReadBack, Start
    <3> QED  BY <2>1, <1>2, <3>1, <3>2, <3>3 DEF Resume
  <2>2. ASSUME NEW p \in Proc, NEW t \in Turn, Run(p, t)
        PROVE  Kinds
    <3>1. ASSUME NEW b \in {"event", "approval"}, Suspend(p, t, b)
          PROVE  Kinds
      <4>1. row' = [row EXCEPT ![t] = Suspended(row[t], drive[p][t], b)] /\ b \in Barrier
        BY <3>1 DEF Suspend, SetRow, Barrier
      <4> QED  BY <3>1, <4>1, <1>3 DEF Suspend
    <3>2. CASE ToolCall(p, t) \/ LoseClaim(p, t) \/ Abandon(p, t)
      BY <3>2, <1>b DEF ToolCall, LoseClaim, Abandon
    <3>3. CASE Finish(p, t)
      BY <3>3, <1>4 DEF Finish
    <3> QED  BY <2>2, <3>1, <3>2, <3>3, <1>1, <1>5, <1>6 DEF Run
  <2>3. ASSUME NEW p \in Proc, NEW t \in Turn, Renew(p, t)
        PROVE  Kinds
    <3>1. CASE LookContinue(p, t) \/ GrantLost(p, t)
      BY <3>1, <1>b DEF LookContinue, GrantLost
    <3> QED  BY <2>3, <3>1, <1>7 DEF Renew
  <2>4. ASSUME NEW t \in Turn, World(t)
        PROVE  Kinds
    BY <2>4, <1>1, <1>8 DEF World
  <2>5. ASSUME NEW p \in Proc, Process(p)
        PROVE  Kinds
    <3>1. CASE Crash(p) \/ Boot(p)
      BY <3>1, <1>b DEF Crash, Boot
    <3>2. ASSUME NEW c \in scan[p], SkipRow(p, c)
          PROVE  Kinds
      BY <3>2, <1>b DEF SkipRow
    <3> QED  BY <2>5, <3>1, <3>2, <1>9 DEF Process, Reclaim
  <2>6. CASE UNCHANGED vars
    BY <2>6, <1>b DEF vars
  <2> QED  BY <2>1, <2>2, <2>3, <2>4, <2>5, <2>6 DEF Next
<1> QED  BY <1>10 DEF Kinds, Moved

\* An empty table has no lease and no call.
LEMMA LedgerInit == Init => Ledgers
<1> SUFFICES ASSUME Init, NEW t \in Turn
             PROVE  Ledger(t)
  BY DEF Ledgers
<1>1. row[t] = NoRow /\ \A i \in LeaseIndex : lease[t][i] = NoLease
  BY DEF Init
<1>2. ClosedIndexes(lease[t]) = {} /\ CallsOf(lease[t]) = {}
  BY <1>1 DEF ClosedIndexes, CallsOf, NoLease
<1>3. row[t].idx \in LeaseIndex
  BY <1>1, FirstLease DEF NoRow
<1> QED  BY <1>1, <1>2, <1>3, FS_EmptySet DEF Ledger, NoRow

\* The books follow every step.
LEMMA LedgerStep ==
  TypeOK /\ TypeOK' /\ Claimed /\ Ledgers /\ [Next]_vars => Ledgers'
<1> SUFFICES ASSUME TypeOK, TypeOK', Claimed, Ledgers, [Next]_vars, NEW t \in Turn
             PROVE  Ledger(t)'
  BY DEF Ledgers
<1>0. /\ row[t] \in Row /\ row'[t] \in Row
      /\ lease[t] \in [LeaseIndex -> Lease] /\ lease'[t] \in [LeaseIndex -> Lease]
  BY DEF TypeOK
<1>1. Ledger(t)
  BY DEF Ledgers
<1> DEFINE old == ClosedIndexes(lease[t])
           new == ClosedIndexes(lease'[t])
<1>2. ASSUME KeepsLedger(t)
      PROVE  /\ new = old /\ CallsOf(lease'[t]) = CallsOf(lease[t])
             /\ DeadTail(lease'[t]) = DeadTail(lease[t])
             /\ row'[t].leases = Cardinality(new)
             /\ row'[t].lifeCalls = Cardinality(CallsOf(lease'[t]))
  BY <1>0, <1>1, <1>2, SameClosed DEF KeepsLedger, Ledger
<1>3. \A i \in old : i \in Nat
  BY DEF ClosedIndexes, LeaseIndex
<1> HIDE DEF old, new
<1>4. CASE StaysInLease(t)
  <2>1. KeepsLedger(t) /\ row'[t].idx = row[t].idx
    BY <1>4 DEF StaysInLease
  <2>2. row'[t].status = "absent" => row'[t] = NoRow
    BY <1>1, <1>4 DEF StaysInLease, Ledger
  <2>3. \A i \in new :
          i <= row'[t].idx /\ (i = row'[t].idx => row'[t].status \in {"continuable", "done"})
    BY <1>1, <1>2, <1>4, <2>1 DEF StaysInLease, Ledger, old, new
  <2>4. row'[t].status = "continuable" => row'[t].streak = DeadTail(lease'[t])
    BY <1>1, <1>2, <1>4, <2>1 DEF StaysInLease, Ledger
  <2>5. row'[t].idx \in LeaseIndex
    BY <1>1, <2>1 DEF Ledger
  <2> QED  BY <1>2, <2>1, <2>2, <2>3, <2>4, <2>5 DEF Ledger, new
<1>5. CASE OpensNext(t)
  <2>1. KeepsLedger(t) /\ row'[t].idx = row[t].idx + 1 /\ row'[t].status = "running"
        /\ row'[t].idx \in LeaseIndex
    BY <1>5 DEF OpensNext
  <2>2. \A i \in new : i < row'[t].idx
    BY <1>0, <1>1, <1>2, <1>3, <2>1 DEF Ledger, old, new, Row
  <2>3. \A i \in new : i <= row'[t].idx /\ i # row'[t].idx
    BY <1>0, <1>2, <1>3, <2>1, <2>2 DEF Row
  <2> QED  BY <1>2, <2>1, <2>3 DEF Ledger, new
<1>6. CASE ClosesLease(t)
  <2>1. PICK n \in Nat, c \in Class :
          /\ row[t].status = "running" /\ row'[t].status \in {"continuable", "done"}
          /\ row'[t].idx = row[t].idx
          /\ row'[t].leases = row[t].leases + 1 /\ row'[t].lifeCalls = row[t].lifeCalls + n
          /\ lease'[t] = Closed(lease[t], row[t].idx, n, c)
          /\ row'[t].status = "continuable" => row'[t].streak = DeadStreak(lease[t], c, n)
    BY <1>6 DEF ClosesLease
  <2>2. row[t].idx \in LeaseIndex /\ \A j \in old : j < row[t].idx
    BY <1>0, <1>1, <1>3, <2>1 DEF Ledger, old, Row
  <2>3. /\ new = old \cup {row[t].idx}
        /\ Cardinality(new) = Cardinality(old) + 1
        /\ Cardinality(CallsOf(lease'[t])) = Cardinality(CallsOf(lease[t])) + n
        /\ DeadTail(lease'[t]) = DeadStreak(lease[t], c, n)
    BY <1>0, <2>1, <2>2, ClosingAdds DEF old, new
  <2>4. \A i \in new : i <= row'[t].idx
    BY <1>0, <1>1, <1>3, <2>1, <2>2, <2>3 DEF Row
  <2>5. /\ row'[t].leases = Cardinality(new)
        /\ row'[t].lifeCalls = Cardinality(CallsOf(lease'[t]))
    BY <1>1, <2>1, <2>3 DEF Ledger, old
  <2> QED  BY <2>1, <2>2, <2>3, <2>4, <2>5 DEF Ledger, new
<1> QED  BY <1>4, <1>5, <1>6, LedgerSteps

----------------------------------------------------------------------------
(* The recoveries.                                                         *)

(***************************************************************************)
(* A run holds the resumes of its row, and the one it has spent and not    *)
(* booked; a renewal holds those of the row it has read.                   *)
(***************************************************************************)
Carries(d, r) ==
  /\ d.pc \in {"held", "opening", "round"} =>
       /\ d.resumes = r.resumes + (IF d.counts THEN 1 ELSE 0)
       /\ d.resumes <= MaxResumes
  /\ d.pc = "renewing" /\ d.idx = r.idx => d.resumes = r.resumes

\* Only a run before its first checkpoint has a resume to book.
SpentWhileOpening ==
  \A p \in Proc, t \in Turn : drive[p][t].counts => drive[p][t].pc = "opening"

RowBooked(t) ==
  /\ hist.booked[t] = row[t].resumes /\ row[t].resumes <= MaxResumes
  /\ \A p \in Proc : Carries(drive[p][t], row[t])

Spoiled == hist.stolen \cup hist.rewound

Recoveries == SpentWhileOpening /\ \A t \in Turn \ Spoiled : RowBooked(t)

\* Nothing is spent at first.
LEMMA RecoveriesInit == Init => Recoveries
  BY LimitsAreNaturals
  DEF Init, Recoveries, SpentWhileOpening, RowBooked, Spoiled, Carries, Idle, NoRow

\* Every step keeps what was spent and what is booked together.
LEMMA RecoveriesStep ==
  /\ TypeOK /\ Claimed /\ Drivers /\ ReadsAreOld /\ Ledgers /\ Recoveries
  /\ [Next]_vars
  => Recoveries'
<1> SUFFICES ASSUME TypeOK, Claimed, Drivers, ReadsAreOld, Ledgers, Recoveries,
                    [Next]_vars
             PROVE  Recoveries'
  OBVIOUS
<1>0. /\ \A t \in Turn : row[t] \in Row /\ row[t].resumes \in Nat /\ row[t].idx \in Nat
      /\ \A p \in Proc, t \in Turn : drive[p][t] \in Drive /\ drive[p][t].resumes \in Nat
      /\ row \in [Turn -> Row] /\ drive \in [Proc -> [Turn -> Drive]]
      /\ hist \in History /\ scan \in [Proc -> SUBSET Candidate] /\ next \in Nat
      /\ MaxResumes \in Nat
  BY LimitsAreNaturals DEF TypeOK, Row, Drive
<1>i. /\ Idle.pc = "idle" /\ Idle.counts = FALSE
      /\ \A r : Carries(Idle, r)
  BY DEF Idle, Carries
<1>r. /\ \A t \in Turn \ Spoiled : RowBooked(t)
      /\ \A p \in Proc, t \in Turn : drive[p][t].counts => drive[p][t].pc = "opening"
  BY DEF Recoveries, SpentWhileOpening
\* A step of one process on one turn, if it books nothing.
<1>a. ASSUME NEW p \in Proc, NEW t \in Turn, NEW d,
             drive' = [drive EXCEPT ![p][t] = d], d.counts => d.pc = "opening",
             hist'.booked = hist.booked, Spoiled \subseteq Spoiled',
             \A u \in Turn \ Spoiled' :
               row'[u].resumes = row[u].resumes /\ row'[u].idx = row[u].idx,
             t \notin Spoiled' => Carries(d, row[t])
      PROVE  Recoveries'
  <2>1. \A q \in Proc, u \in Turn :
          drive'[q][u] = IF q = p /\ u = t THEN d ELSE drive[q][u]
    BY <1>0, <1>a
  <2>2. SpentWhileOpening'
    BY <1>a, <1>r, <2>1 DEF SpentWhileOpening
  <2>3. ASSUME NEW u \in Turn \ Spoiled'
        PROVE  RowBooked(u)'
    <3>1. RowBooked(u) /\ row'[u].resumes = row[u].resumes /\ row'[u].idx = row[u].idx
      BY <1>a, <1>r, <2>3
    <3>2. \A q \in Proc : Carries(drive'[q][u], row[u])
      BY <1>a, <2>1, <2>3, <3>1 DEF RowBooked
    <3>3. \A q \in Proc : Carries(drive'[q][u], row'[u])
      BY <3>1, <3>2 DEF Carries
    <3> QED  BY <1>a, <3>1, <3>3 DEF RowBooked
  <2> QED  BY <2>2, <2>3 DEF Recoveries
\* A step of the others, of the owner or the clock.
<1>b. ASSUME hist'.booked = hist.booked, Spoiled \subseteq Spoiled',
             \A u \in Turn : row'[u].resumes = row[u].resumes /\ row'[u].idx = row[u].idx,
             \A q \in Proc, u \in Turn : drive'[q][u] = drive[q][u] \/ drive'[q][u] = Idle
      PROVE  Recoveries'
  <2>1. SpentWhileOpening'
    BY <1>b, <1>i, <1>r DEF SpentWhileOpening
  <2>2. ASSUME NEW u \in Turn \ Spoiled'
        PROVE  RowBooked(u)'
    <3>1. RowBooked(u) /\ row'[u].resumes = row[u].resumes /\ row'[u].idx = row[u].idx
      BY <1>b, <1>r, <2>2
    <3>2. \A q \in Proc : Carries(drive'[q][u], row[u])
      BY <1>b, <1>i, <3>1 DEF RowBooked
    <3>3. \A q \in Proc : Carries(drive'[q][u], row'[u])
      BY <3>1, <3>2 DEF Carries
    <3> QED  BY <1>b, <3>1, <3>3 DEF RowBooked
  <2> QED  BY <2>1, <2>2 DEF Recoveries
<1>1. ASSUME NEW t \in Turn, Enqueue(t) \/ Wake(t) \/ Cool(t) \/ Age(t)
      PROVE  Recoveries'
  <2>1. PICK r : /\ row' = [row EXCEPT ![t] = r] /\ UNCHANGED <<drive, hist>>
                 /\ \/ /\ row[t].status = "absent"
                       /\ r = [NoRow EXCEPT !.status = "runnable"]
                    \/ r = [row[t] EXCEPT !.status = "runnable", !.stale = FALSE]
                    \/ r = [row[t] EXCEPT !.cooled = TRUE]
                    \/ r = [row[t] EXCEPT !.stale = TRUE]
    BY <1>1 DEF Enqueue, Wake, Cool, Age, SetRow
  <2>2. row[t].status = "absent" => row[t] = NoRow
    BY DEF Ledgers, Ledger
  <2>3. r.resumes = row[t].resumes /\ r.idx = row[t].idx
    <3>1. CASE row[t].status = "absent" /\ r = [NoRow EXCEPT !.status = "runnable"]
      BY <2>2, <3>1 DEF NoRow
    <3>2. CASE \/ r = [row[t] EXCEPT !.status = "runnable", !.stale = FALSE]
               \/ r = [row[t] EXCEPT !.cooled = TRUE]
               \/ r = [row[t] EXCEPT !.stale = TRUE]
      <4>1. row[t] \in Row
        BY <1>0
      <4> QED  BY <3>2, <4>1 DEF Row
    <3> QED  BY <2>1, <3>1, <3>2
  <2> QED  BY <1>0, <1>b, <2>1, <2>3 DEF Spoiled
<1>2. ASSUME NEW p \in Proc, NEW t \in Turn, RunTurn(p, t)
      PROVE  Recoveries'
  <2> DEFINE r == [NoRow EXCEPT !.status = "running", !.token = next]
             d == [Idle EXCEPT !.pc = "opening", !.token = next]
  <2>1. row[t] = NoRow
    BY <1>2 DEF RunTurn, Ledgers, Ledger
  <2>2. row' = [row EXCEPT ![t] = r] /\ drive' = [drive EXCEPT ![p][t] = d] /\ hist' = hist
    BY <1>2 DEF RunTurn, SetRow, SetDrive
  <2>3. r.resumes = row[t].resumes /\ r.idx = row[t].idx /\ row[t].resumes = 0
    BY <2>1 DEF NoRow
  <2>4. d.pc = "opening" /\ d.resumes = 0 /\ d.counts = FALSE
    BY DEF Idle
  <2> HIDE DEF r, d
  <2>5. Carries(d, row[t])
    BY <1>0, <2>3, <2>4 DEF Carries
  <2> QED  BY <1>0, <1>a, <2>2, <2>3, <2>4, <2>5 DEF Spoiled
<1>3. ASSUME NEW p \in Proc, NEW t \in Turn, Claim(p, t)
      PROVE  Recoveries'
  <2> DEFINE r == [row[t] EXCEPT !.status = "running", !.token = next,
                                 !.barrier = "none", !.stale = FALSE]
             d == [drive[p][t] EXCEPT !.pc = "taken"]
  <2>1. /\ row' = [row EXCEPT ![t] = r] /\ drive' = [drive EXCEPT ![p][t] = d]
        /\ hist' = hist /\ drive[p][t].pc = "seen"
    BY <1>3 DEF Claim, SetRow, SetDrive
  <2>2. r.resumes = row[t].resumes /\ r.idx = row[t].idx
    BY <1>0 DEF Row
  <2>3. d.pc = "taken" /\ d.counts = FALSE
    BY <1>0, <1>r, <2>1 DEF Drive
  <2> HIDE DEF r, d
  <2>4. Carries(d, row[t])
    BY <2>3 DEF Carries
  <2> QED  BY <1>0, <1>a, <2>1, <2>2, <2>3, <2>4 DEF Spoiled
\* A step that writes no row.
<1>4. ASSUME NEW p \in Proc, NEW t \in Turn,
             \/ Look(p, t) \/ ClaimLost(p, t) \/ ReadBack(p, t) \/ Start(p, t)
             \/ ToolCall(p, t) \/ LoseClaim(p, t) \/ Abandon(p, t)
             \/ LookContinue(p, t) \/ GrantLost(p, t)
      PROVE  Recoveries'
  <2>1. row' = row /\ hist'.booked = hist.booked /\ Spoiled \subseteq Spoiled'
    BY <1>0, <1>4
    DEF Look, ClaimLost, ReadBack, Start, ToolCall, LoseClaim, Abandon, LookContinue,
        GrantLost, Spoiled, History
  <2>2. ASSUME NEW d, drive' = [drive EXCEPT ![p][t] = d], d.counts => d.pc = "opening",
               t \notin Spoiled => Carries(d, row[t])
        PROVE  Recoveries'
    BY <1>a, <2>1, <2>2
  <2>3. CASE ClaimLost(p, t) \/ LoseClaim(p, t) \/ Abandon(p, t) \/ GrantLost(p, t)
    BY <1>i, <2>2, <2>3 DEF ClaimLost, LoseClaim, Abandon, GrantLost, SetDrive
  <2>4. CASE Look(p, t) \/ LookContinue(p, t)
    <3> DEFINE a == [Idle EXCEPT !.pc = "seen",
                       !.first = row[t].status = "runnable" /\ ~row[t].built,
                       !.woken = row[t].status = "waiting" \/ row[t].barrier # "none",
                       !.barrier = row[t].barrier]
               b == [Idle EXCEPT !.pc = "renewing", !.built = TRUE, !.idx = row[t].idx,
                       !.resumes = row[t].resumes, !.author = row[t].author]
    <3>1. /\ a.pc = "seen" /\ a.counts = FALSE
          /\ b.pc = "renewing" /\ b.counts = FALSE /\ b.resumes = row[t].resumes
      BY DEF Idle
    <3>2. drive' = [drive EXCEPT ![p][t] = a] \/ drive' = [drive EXCEPT ![p][t] = b]
      BY <2>4 DEF Look, LookContinue, SetDrive
    <3> HIDE DEF a, b
    <3>3. Carries(a, row[t]) /\ Carries(b, row[t])
      BY <3>1 DEF Carries
    <3> QED  BY <2>2, <3>1, <3>2, <3>3
  <2>5. CASE ReadBack(p, t)
    <3> DEFINE d == Loaded(drive[p][t], row[t])
    <3>1. drive' = [drive EXCEPT ![p][t] = d] /\ drive[p][t].pc = "taken"
      BY <2>5 DEF ReadBack, SetDrive
    <3>2. d.pc = "held" /\ d.resumes = row[t].resumes /\ d.counts = FALSE
      BY <1>0, <1>r, <3>1 DEF Loaded, Drive
    <3> HIDE DEF d
    <3>3. t \notin Spoiled => Carries(d, row[t])
      BY <1>0, <1>r, <3>2 DEF Carries, RowBooked
    <3> QED  BY <2>2, <3>1, <3>2, <3>3
  <2>6. CASE Start(p, t)
    <3> DEFINE spends == ~drive[p][t].first /\ ~drive[p][t].woken
               n == IF spends THEN drive[p][t].resumes + 1 ELSE drive[p][t].resumes
               d == [drive[p][t] EXCEPT !.pc = "opening", !.counts = spends, !.resumes = n]
    <3>1. /\ drive' = [drive EXCEPT ![p][t] = d] /\ drive[p][t].pc = "held"
          /\ drive[p][t].resumes < MaxResumes
      BY <2>6 DEF Start, SetDrive
    <3>2. n <= MaxResumes
      BY <1>0, <3>1
    <3>3. t \notin Spoiled => n = row[t].resumes + (IF spends THEN 1 ELSE 0)
      BY <1>0, <1>r, <3>1 DEF RowBooked, Carries
    <3>4. d.pc = "opening" /\ d.counts = spends /\ d.resumes = n
      BY <1>0 DEF Drive
    <3> HIDE DEF d, n, spends
    <3>5. t \notin Spoiled => Carries(d, row[t])
      BY <3>2, <3>3, <3>4 DEF Carries
    <3> QED  BY <2>2, <3>1, <3>4, <3>5
  <2>7. CASE ToolCall(p, t)
    <3> DEFINE n == drive[p][t].calls + 1
               d == [drive[p][t] EXCEPT !.calls = n]
    <3>1. drive' = [drive EXCEPT ![p][t] = d]
      BY <2>7 DEF ToolCall, SetDrive
    <3> HIDE DEF n
    <3>2. /\ d.pc = drive[p][t].pc /\ d.counts = drive[p][t].counts
          /\ d.resumes = drive[p][t].resumes /\ d.idx = drive[p][t].idx
      BY <1>0 DEF Drive
    <3> HIDE DEF d
    <3>3. t \notin Spoiled => Carries(d, row[t])
      BY <1>r, <3>2 DEF Carries, RowBooked
    <3> QED  BY <1>r, <2>2, <3>1, <3>2, <3>3
  <2> QED  BY <1>4, <2>3, <2>4, <2>5, <2>6, <2>7
\* The end of a run that has nothing left to book.
<1>5. ASSUME NEW p \in Proc, NEW t \in Turn, NEW r,
             row' = [row EXCEPT ![t] = r], r.resumes = drive[p][t].resumes,
             r.idx = row[t].idx, drive[p][t].pc \in {"held", "round"},
             drive' = [drive EXCEPT ![p][t] = Idle] /\ hist' = hist
      PROVE  Recoveries'
  <2>1. t \notin Spoiled => r.resumes = row[t].resumes
    <3>1. drive[p][t].counts = FALSE
      BY <1>0, <1>5, <1>r DEF Drive
    <3> QED  BY <1>0, <1>5, <1>r, <3>1 DEF RowBooked, Carries
  <2>2. Spoiled' = Spoiled
    BY <1>5 DEF Spoiled
  <2> QED  BY <1>0, <1>5, <1>a, <1>i, <2>1, <2>2
<1>6. ASSUME NEW p \in Proc, NEW t \in Turn,
             Resuspend(p, t) \/ \E b \in {"event", "approval"} : Suspend(p, t, b)
      PROVE  Recoveries'
  <2>1. PICK b \in Barrier :
          /\ row' = [row EXCEPT ![t] = Suspended(row[t], drive[p][t], b)]
          /\ drive[p][t].pc \in {"held", "round"}
    BY <1>6 DEF Resuspend, Suspend, SetRow, Barrier
  <2> DEFINE r == Suspended(row[t], drive[p][t], b)
  <2>2. r.resumes = drive[p][t].resumes /\ r.idx = row[t].idx
    BY <1>0, SuspendedRow, SuspendedBooks
  <2>3. row' = [row EXCEPT ![t] = r] /\ drive' = [drive EXCEPT ![p][t] = Idle] /\ hist' = hist
    BY <1>6, <2>1 DEF Resuspend, Suspend, SetDrive
  <2> HIDE DEF r
  <2> QED  BY <1>5, <2>1, <2>2, <2>3
<1>7. ASSUME NEW p \in Proc, NEW t \in Turn,
             Refuse(p, t) \/ Exhausted(p, t) \/ Finish(p, t)
      PROVE  Recoveries'
  <2> DEFINE r == Finished(row[t], drive[p][t])
  <2>1. r.resumes = drive[p][t].resumes /\ r.idx = row[t].idx
    BY <1>0, FinishedRow, FinishedBooks
  <2>2. row' = [row EXCEPT ![t] = r] /\ drive' = [drive EXCEPT ![p][t] = Idle] /\ hist' = hist
    BY <1>7 DEF Refuse, Exhausted, Finish, EndTurn, SetRow, SetDrive
  <2>3. drive[p][t].pc \in {"held", "round"}
    BY <1>7 DEF Refuse, Exhausted, Finish
  <2> HIDE DEF r
  <2> QED  BY <1>5, <2>1, <2>2, <2>3
<1>8. ASSUME NEW p \in Proc, NEW t \in Turn, NEW c \in {"dead", "other"}, Release(p, t, c)
      PROVE  Recoveries'
  <2> DEFINE d == drive[p][t]
             s == DeadStreak(lease[t], c, d.calls)
             r == Released(row[t], d, s)
  <2>1. s \in Nat
    BY <1>0, DeadStreakNat DEF TypeOK, Drive
  <2>2. r.resumes = d.resumes /\ r.idx = row[t].idx
    BY <1>0, <2>1, ReleasedRow, ReleasedBooks
  <2>3. /\ row' = [row EXCEPT ![t] = r] /\ hist' = hist
        /\ drive' = [drive EXCEPT ![p][t] = Idle] /\ d.pc = "round"
    BY <1>8 DEF Release, SetRow, SetDrive
  <2> HIDE DEF r
  <2> QED  BY <1>5, <2>2, <2>3
\* The first checkpoint books what was spent; nobody else runs the turn.
<1>9. ASSUME NEW p \in Proc, NEW t \in Turn, Checkpoint(p, t)
      PROVE  Recoveries'
  <2> DEFINE o == drive[p][t]
             d == [o EXCEPT !.pc = "round", !.built = TRUE, !.counts = FALSE]
             r == Saved(row[t], d)
  <2>1. /\ row' = [row EXCEPT ![t] = r] /\ drive' = [drive EXCEPT ![p][t] = d]
        /\ o.pc \in {"opening", "round"} /\ Fenced(p, t)
        /\ hist' = IF o.counts THEN [hist EXCEPT !.booked[t] = @ + 1] ELSE hist
    BY <1>9 DEF Checkpoint, SetRow, SetDrive
  <2>2. d \in Drive
    BY <1>0, DriveUpdates
  <2>3. d.pc = "round" /\ d.counts = FALSE /\ d.resumes = o.resumes
    BY <1>0 DEF Drive
  <2>4. r.resumes = o.resumes /\ r.idx = row[t].idx
    BY <1>0, <2>2, <2>3, SavedRow, SavedBooks
  <2>5. row[t].status = "running"
    BY <2>1 DEF Fenced, Claimed, OnlyRunningRowsAreClaimed
  <2> HIDE DEF r, d
  <2>6. /\ Spoiled' = Spoiled
        /\ \A u \in Turn : hist'.booked[u] =
             IF u = t /\ o.counts THEN hist.booked[t] + 1 ELSE hist.booked[u]
    BY <1>0, <2>1 DEF Spoiled, History
  <2>7. \A q \in Proc, u \in Turn :
          drive'[q][u] = IF q = p /\ u = t THEN d ELSE drive[q][u]
    BY <1>0, <2>1
  <2>8. SpentWhileOpening'
    BY <1>r, <2>3, <2>7 DEF SpentWhileOpening
  <2>9. ASSUME NEW u \in Turn \ Spoiled, u # t
        PROVE  RowBooked(u)'
    BY <1>0, <1>r, <2>1, <2>6, <2>7, <2>9 DEF RowBooked
  <2>10. ASSUME t \notin Spoiled
         PROVE  RowBooked(t)'
    <3>1. RowBooked(t)
      BY <1>r, <2>10
    <3>2. o.resumes = row[t].resumes + (IF o.counts THEN 1 ELSE 0) /\ o.resumes <= MaxResumes
      BY <2>1, <3>1 DEF RowBooked, Carries
    <3>3. row'[t] = r /\ hist'.booked[t] = o.resumes
      BY <1>0, <2>1, <2>6, <3>1, <3>2 DEF RowBooked
    <3>4. Carries(d, r)
      BY <1>0, <2>3, <2>4, <3>2 DEF Carries
    <3>5. ASSUME NEW q \in Proc, q # p
          PROVE  Carries(drive[q][t], r)
      <4>1. drive[p][t].pc \in Driving
        BY <2>1 DEF Driving
      <4>2. drive[q][t].pc \notin Driving
        BY <2>10, <3>5, <4>1 DEF Drivers, Spoiled
      <4>3. drive[q][t].pc = "renewing" => drive[q][t].idx # r.idx
        BY <2>4, <2>5 DEF ReadsAreOld, ReadBefore
      <4> QED  BY <4>2, <4>3 DEF Carries, Driving
    <3> QED  BY <2>4, <2>7, <3>2, <3>3, <3>4, <3>5 DEF RowBooked
  <2> QED  BY <2>6, <2>8, <2>9, <2>10 DEF Recoveries
\* A grant carries over what was read, or spoils the row.
<1>10. ASSUME NEW p \in Proc, NEW t \in Turn, Grant(p, t)
       PROVE  Recoveries'
  <2> DEFINE o == drive[p][t]
             i == row[t].idx + 1
             d == [o EXCEPT !.pc = "opening", !.token = next]
             r == [row[t] EXCEPT
                     !.status = "running", !.token = next, !.idx = i, !.streak = 0,
                     !.built = o.built, !.resumes = o.resumes, !.calls = 0,
                     !.author = o.author, !.stale = FALSE]
  <2>1. /\ row' = [row EXCEPT ![t] = r] /\ drive' = [drive EXCEPT ![p][t] = d]
        /\ o.pc = "renewing"
        /\ hist' = IF o.idx # row[t].idx THEN [hist EXCEPT !.rewound = @ \cup {t}] ELSE hist
    BY <1>10 DEF Grant, SetRow, SetDrive
  <2>2. o.counts = FALSE
    BY <1>0, <1>r, <2>1 DEF Drive
  <2>3. d.pc = "opening" /\ d.counts = FALSE /\ d.resumes = o.resumes
    BY <1>0, <2>2 DEF Drive
  <2>4. r.resumes = o.resumes /\ r.idx = i
    <3> HIDE DEF i, o
    <3> QED  BY <1>0 DEF Row
  <2> HIDE DEF r, d
  <2>5. /\ hist'.booked = hist.booked /\ Spoiled \subseteq Spoiled'
        /\ t \notin Spoiled' => o.idx = row[t].idx
    BY <1>0, <2>1 DEF Spoiled, History
  <2>6. \A q \in Proc, u \in Turn :
          drive'[q][u] = IF q = p /\ u = t THEN d ELSE drive[q][u]
    BY <1>0, <2>1
  <2>7. SpentWhileOpening'
    BY <1>r, <2>3, <2>6 DEF SpentWhileOpening
  <2>8. ASSUME NEW u \in Turn \ Spoiled', u # t
        PROVE  RowBooked(u)'
    <3>1. RowBooked(u) /\ row'[u] = row[u]
      BY <1>0, <1>r, <2>1, <2>5, <2>8
    <3> QED  BY <2>5, <2>6, <2>8, <3>1 DEF RowBooked
  <2>9. ASSUME t \notin Spoiled'
        PROVE  RowBooked(t)'
    <3>1. RowBooked(t) /\ o.idx = row[t].idx
      BY <1>r, <2>5, <2>9
    <3>2. o.resumes = row[t].resumes
      BY <2>1, <3>1 DEF RowBooked, Carries
    <3>3. row'[t] = r
      BY <1>0, <2>1
    <3>4. Carries(d, r)
      BY <1>0, <2>3, <2>4, <3>1, <3>2 DEF Carries, RowBooked
    <3>5. ASSUME NEW q \in Proc
          PROVE  Carries(drive[q][t], r)
      <4>1. drive[q][t].pc = "renewing" => drive[q][t].idx <= row[t].idx
        BY DEF ReadsAreOld, ReadBefore
      <4>2. drive[q][t].pc = "renewing" => drive[q][t].idx # r.idx
        BY <1>0, <2>4, <4>1 DEF Drive
      <4> QED  BY <2>4, <3>1, <3>2, <4>2 DEF RowBooked, Carries
    <3> QED  BY <2>4, <2>5, <2>6, <3>1, <3>2, <3>3, <3>4, <3>5 DEF RowBooked
  <2> QED  BY <2>7, <2>8, <2>9 DEF Recoveries
<1>11. ASSUME NEW p \in Proc, Crash(p) \/ Boot(p)
       PROVE  Recoveries'
  <2>1. /\ row' = row /\ hist' = hist
        /\ drive' = drive \/ drive' = [drive EXCEPT ![p] = [t \in Turn |-> Idle]]
    BY <1>11 DEF Crash, Boot
  <2>2. \A q \in Proc, u \in Turn : drive'[q][u] = drive[q][u] \/ drive'[q][u] = Idle
    BY <1>0, <2>1
  <2> QED  BY <1>b, <2>1, <2>2 DEF Spoiled
<1>12. ASSUME NEW p \in Proc, NEW c \in scan[p], ReclaimRow(p, c) \/ SkipRow(p, c)
       PROVE  Recoveries'
  <2> DEFINE t == c.turn
             u == Unclaimed(row[t])
             r == [u EXCEPT !.status = "interrupted"]
  <2>1. t \in Turn
    BY <1>0 DEF Candidate
  <2>2. u \in Row /\ u.resumes = row[t].resumes /\ u.idx = row[t].idx
    BY <1>0, <2>1, UnclaimedRow, UnclaimedBooks
  <2>3. /\ row' = row \/ row' = [row EXCEPT ![t] = r]
        /\ drive' = drive
        /\ hist'.booked = hist.booked /\ Spoiled \subseteq Spoiled'
    <3>1. \/ hist' = hist
          \/ hist' = [hist EXCEPT !.stolen = @ \cup {t}]
          \/ hist' = [hist EXCEPT !.stolen = @]
      BY <1>12 DEF ReclaimRow, SkipRow
    <3>2. hist'.booked = hist.booked /\ Spoiled \subseteq Spoiled'
      BY <1>0, <3>1 DEF Spoiled, History
    <3> QED  BY <1>12, <3>2 DEF ReclaimRow, SkipRow, SetRow
  <2> HIDE DEF u
  <2>4. r.resumes = row[t].resumes /\ r.idx = row[t].idx
    BY <2>2 DEF Row
  <2> HIDE DEF r, t
  <2> QED  BY <1>0, <1>b, <2>1, <2>3, <2>4
<1>13. CASE UNCHANGED vars
  BY <1>b, <1>13 DEF vars, Spoiled
<1>14. ASSUME NEW p \in Proc, NEW t \in Turn, Resume(p, t) \/ Run(p, t) \/ Renew(p, t)
       PROVE  Recoveries'
  BY <1>14, <1>2, <1>3, <1>4, <1>6, <1>7, <1>8, <1>9, <1>10 DEF Resume, Run, Renew
<1> QED
  BY <1>1, <1>11, <1>12, <1>13, <1>14 DEF Next, World, Process, Reclaim

\* Whatever crashes, is robbed or races, the rollup of a row is the fold of its
\* closed leases, its streak their dead tail, and the crash recoveries on it are
\* those that reached a checkpoint, never more than MAX_RESUMES.
THEOREM BooksCorrect == Spec => []BooksAgree
<1> DEFINE IInv == /\ TypeOK /\ Claimed /\ Drivers /\ Authored /\ ReadsAreOld
                   /\ Ledgers /\ Recoveries
<1>1. Init => IInv
  BY TypeInit, ClaimedInit, DriversInit, AuthoredInit, LedgerInit, RecoveriesInit
<1>2. IInv /\ [Next]_vars => IInv'
  <2>1. ASSUME IInv, [Next]_vars
        PROVE  TypeOK' /\ Claimed' /\ Drivers' /\ Authored' /\ ReadsAreOld'
    BY <2>1, TypeStep, ClaimedStep, DriversStep, AuthoredStep, ReadsStep
  <2>2. ASSUME IInv, [Next]_vars
        PROVE  Ledgers' /\ Recoveries'
    BY <2>1, <2>2, LedgerStep, RecoveriesStep
  <2> QED  BY <2>1, <2>2
<1>3. IInv => BooksAgree
  BY DEF BooksAgree, LifetimeIsFold, StreakIsAudited, RecoveriesAreBooked, Ledgers,
         Ledger, Recoveries, RowBooked, Spoiled
<1> QED  BY <1>1, <1>2, <1>3, PTL DEF Spec
=============================================================================
