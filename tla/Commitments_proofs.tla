------------------------ MODULE Commitments_proofs ------------------------
(***************************************************************************)
(* What Commitments promises, for any processes, promises and bounds: the  *)
(* two locks behave as DurableLock says, a promise is told once for each   *)
(* of its dates, and what was refused is not told.  Then the policy kernel *)
(* and the memo of a turn, which have no state in common with it, for      *)
(* every catalogue of declarations, every sealed file and every room.      *)
(***************************************************************************)
EXTENDS Commitments, Snapshot, TLAPS

claimLock == <<claim, up, claims, claimLate>>
sendLock == <<send, up, sends, sendLate>>

----------------------------------------------------------------------------
(* The locks.                                                              *)

\* Whatever a process does with the claim of the gateway is a step of its lock.
LEMMA ClaimStep == [Next]_vars => [GL!Next]_claimLock
<1> SUFFICES ASSUME [Next]_vars PROVE [GL!Next]_claimLock
  OBVIOUS
<1> USE DEF claimLock
<1>1. CASE UNCHANGED vars
  BY <1>1 DEF vars, lockVars
<1>2. CASE ClaimAges
  BY <1>2 DEF ClaimAges, GL!Next
<1>3. CASE SendAges
  BY <1>3 DEF SendAges, claimVars, SL!Age
<1>4. CASE Clock
  BY <1>4 DEF Clock, World, lockVars
<1>5. ASSUME NEW p \in Gateway,
             \/ Claim(p) \/ Stopped(p) \/ Withdraws(p) \/ LetGo(p) \/ Close(p)
             \/ Ends(p) \/ Killed(p) \/ Start(p)
      PROVE  [GL!Next]_claimLock
  <2> p \in Process
    BY DEF Process
  <2> QED
    BY <1>5 DEF Claim, Stopped, Withdraws, Leave, LetGo, Close, Ends, Killed, Dies, Start,
                lockVars, GL!Next
<1>6. ASSUME NEW p \in Gateway, Loop(p) PROVE [GL!Next]_claimLock
  BY <1>6 DEF Loop, Refuse, NotDelivered, Deliver, Fired, EndPass, lockVars, claimVars,
              sendVars, SL!Release
<1>7. ASSUME NEW p \in Gateway, NEW quiet \in BOOLEAN, Pass(p, quiet)
      PROVE  [GL!Next]_claimLock
  BY <1>7 DEF Pass, Beats, GL!Next, Process
<1>8. ASSUME NEW p \in Cli, ObserveTakes(p) \/ ObserveEnds(p) PROVE [GL!Next]_claimLock
  BY <1>8 DEF ObserveTakes, ObserveEnds, claimVars, SL!Acquire, SL!Release
<1>9. ASSUME NEW c \in Promise, Edit(c) \/ Evidence(c) PROVE [GL!Next]_claimLock
  BY <1>9 DEF Edit, Evidence, World, lockVars
<1> QED
  BY <1>1, <1>2, <1>3, <1>4, <1>5, <1>6, <1>7, <1>8, <1>9 DEF Next

\* And so is what it does with the lock of sends.
LEMMA SendStep == [Next]_vars => [SL!Next]_sendLock
<1> SUFFICES ASSUME [Next]_vars PROVE [SL!Next]_sendLock
  OBVIOUS
<1> USE DEF sendLock
<1>1. CASE UNCHANGED vars
  BY <1>1 DEF vars, lockVars
<1>2. CASE ClaimAges
  BY <1>2 DEF ClaimAges, sendVars, GL!Age
<1>3. CASE SendAges
  BY <1>3 DEF SendAges, SL!Next
<1>4. CASE Clock
  BY <1>4 DEF Clock, World, lockVars
<1>5. ASSUME NEW p \in Gateway,
             \/ Claim(p) \/ Stopped(p) \/ Withdraws(p) \/ LetGo(p) \/ Close(p)
             \/ Ends(p) \/ Killed(p) \/ Start(p)
      PROVE  [SL!Next]_sendLock
  <2> p \in Process
    BY DEF Process
  <2> QED
    BY <1>5 DEF Claim, Stopped, Withdraws, Leave, LetGo, Close, Ends, Killed, Dies, Start,
                lockVars, sendVars, GL!Acquire, GL!Release, SL!Next
<1>6. ASSUME NEW p \in Gateway, Loop(p) PROVE [SL!Next]_sendLock
  BY <1>6 DEF Loop, Refuse, NotDelivered, Deliver, Fired, EndPass, lockVars, sendVars,
              SL!Next, Process
<1>7. ASSUME NEW p \in Gateway, NEW quiet \in BOOLEAN, Pass(p, quiet)
      PROVE  [SL!Next]_sendLock
  BY <1>7 DEF Pass, TakesSendLock, SL!Next, Process
<1>8. ASSUME NEW p \in Cli, ObserveTakes(p) \/ ObserveEnds(p) PROVE [SL!Next]_sendLock
  BY <1>8 DEF ObserveTakes, ObserveEnds, SL!Next, Process
<1>9. ASSUME NEW c \in Promise, Edit(c) \/ Evidence(c) PROVE [SL!Next]_sendLock
  BY <1>9 DEF Edit, Evidence, World, lockVars
<1> QED
  BY <1>1, <1>2, <1>3, <1>4, <1>5, <1>6, <1>7, <1>8, <1>9 DEF Next

\* Commitments implements DurableLock twice: the claim on the home and the lock of
\* sends keep its rules whatever a pass, a handover, a stop or a death does to both.
THEOREM LocksImplemented == Spec => LocksAreDurable
<1>1. Init => GL!Init /\ SL!Init
  BY DEF Init
<1>2. [Next]_vars => [GL!Next]_(GL!vars)
  BY ClaimStep DEF claimLock, GL!vars
<1>3. [Next]_vars => [SL!Next]_(SL!vars)
  BY SendStep DEF sendLock, SL!vars
<1> QED
  BY <1>1, <1>2, <1>3, PTL DEF Spec, LocksAreDurable, GL!Spec, SL!Spec
----------------------------------------------------------------------------
(* The lock of sends.                                                      *)

\* Types, and what makes the lock exclusive: a claim past the horizon is that of a
\* process counted as late, and a holder that is not late is on the row.
SendLock ==
  /\ SL!TypeOK
  /\ send.by \in Process => send.by \in up
  /\ send.old /\ send.by \in Process => send.by \in sendLate
  /\ SL!PunctualKeeps

LEMMA Names ==
  /\ SL!NoPid \notin Pid /\ SL!Gone \notin Process
  /\ \A p \in Process : PidOf[p] \in Pid
  /\ \A p, q \in Process : p # q => PidOf[p] # PidOf[q]
<1>1. SL!NoPid \notin Pid /\ SL!Gone \notin Process
  BY Processes, Zenon DEF SL!NoPid, SL!Gone, Process
<1>2. \A p \in Process : PidOf[p] \in Pid
  BY Processes, Zenon DEF Process
<1>3. \A p, q \in Process : p # q => PidOf[p] # PidOf[q]
  BY Processes, Zenon DEF Process
<1> QED
  BY <1>1, <1>2, <1>3

LEMMA SendInit == Init => SendLock
BY Names DEF Init, SL!Init, SendLock, SL!TypeOK, SL!PunctualKeeps, SL!FreeRow, SL!Row

LEMMA SendLockStep == SendLock /\ [SL!Next]_sendLock => SendLock'
<1> SUFFICES ASSUME SendLock, [SL!Next]_sendLock PROVE SendLock'
  OBVIOUS
<1> USE Names DEF SendLock, SL!TypeOK, SL!PunctualKeeps, SL!Row, SL!Current
<1>1. CASE UNCHANGED sendLock
  BY <1>1 DEF sendLock
<1>2. CASE SL!Age
  BY <1>2 DEF SL!Age
<1>3. ASSUME NEW p \in Process, SL!Acquire(p) PROVE SendLock'
  <2>1. ~SL!Held /\ p \in up /\ up' = up /\ sends' = sends \cup {p}
    BY <1>3 DEF SL!Acquire
  <2> QED
    BY <1>3 DEF SL!Acquire, SL!Held, SL!Claimed
<1>4. ASSUME NEW p \in Process, SL!Refresh(p) PROVE SendLock'
  BY <1>4 DEF SL!Refresh, SL!Refreshable
<1>5. ASSUME NEW p \in Process, SL!Release(p) PROVE SendLock'
  BY <1>5 DEF SL!Release, SL!Released, SL!FreeRow
<1>6. ASSUME NEW p \in Process, SL!Die(p) PROVE SendLock'
  BY <1>6 DEF SL!Die
<1>7. ASSUME NEW p \in Process, SL!Start(p) PROVE SendLock'
  BY <1>7 DEF SL!Start
<1> QED
  BY <1>1, <1>2, <1>3, <1>4, <1>5, <1>6, <1>7 DEF SL!Next

\* A punctual holder keeps everybody else out.
LEMMA PunctualExcludes ==
  ASSUME SendLock, NEW p \in sends \ sendLate
  PROVE  /\ SL!Held
         /\ \A q \in sends : q # p => q \in sendLate
<1> USE DEF SendLock, SL!TypeOK, SL!PunctualKeeps, SL!Current
<1>1. p \in up /\ p \in Process /\ send.by = p /\ send.pid = PidOf[p]
  OBVIOUS
<1>2. send.pid # SL!NoPid
  BY <1>1, Names
<1>3. ~send.old
  BY <1>1
<1>4. ASSUME NEW q \in sends, q \notin sendLate PROVE q = p
  BY <1>1, <1>4
<1> QED
  BY <1>1, <1>2, <1>3, <1>4 DEF SL!Held
----------------------------------------------------------------------------
(* The pass.                                                               *)

Effect == {"allow", "deny"}

\* What a process that has not outlived the lock of sends has read still holds:
\* nothing it may tell was told, or refused, behind its back.
Fresh(a) == (a \in told => a \in lost) /\ (fires[a] = "deny" => a \in overdue)

\* Of an observation it is at, once it has told it, nothing more is asked.
Ahead(p) == IF phase[p] = "told" THEN todo[p] \ First(p) ELSE todo[p]

\* A telling on its way to the record, by a process whose lock stands.
OnItsWay(a) ==
  \E q \in Gateway : phase[q] = "told" /\ a \in At(q) /\ q \notin sendLate

Types ==
  /\ date \in [Promise -> Date]
  /\ phase \in [Gateway -> {"idle", "loop", "told"}]
  /\ todo \in [Gateway -> SUBSET (Anchor \X Effect)]
  /\ fires \in [Anchor -> {"none", "allow", "deny"}]

Holds == \A p \in Gateway : phase[p] # "idle" => p \in sends
ToldIsTold == \A p \in Gateway : phase[p] = "told" => At(p) \subseteq told
InTheLog ==
  \A a \in Anchor : a \in told => a \in lost \/ fires[a] # "none" \/ OnItsWay(a)
Readings ==
  \A p \in Gateway : phase[p] # "idle" /\ p \notin sendLate =>
    \A o \in Ahead(p) : o[2] = "allow" => Fresh(o[1])

\* The inductive invariant.
Told == Types /\ SendLock /\ LogAgrees /\ Holds /\ ToldIsTold /\ InTheLog /\ Readings

\* The pass is at one observation, and what is behind it in the list has another
\* anchor.
LEMMA OneFirst ==
  ASSUME Types, NEW p \in Gateway, NEW o \in First(p)
  PROVE  /\ First(p) = {o} /\ At(p) = {o[1]}
         /\ o \in Anchor \X Effect
         /\ \A r \in todo[p] \ First(p) : r[1] # o[1]
<1>1. todo[p] \subseteq Anchor \X Effect
  BY DEF Types
<1>2. ASSUME NEW a \in Anchor PROVE a[1] \in Nat /\ a[2] \in Nat
  <2>1. a[1] \in Promise /\ a[2] \in Date
    BY DEF Anchor
  <2>2. Promise \subseteq Nat /\ Date \subseteq Nat
    BY Promises DEF Date
  <2> QED
    BY <2>1, <2>2
<1>3. \A r \in todo[p] \ {o} : Before(o[1], r[1])
  BY DEF First
<1>4. o \in todo[p]
  BY DEF First
<1>5. ASSUME NEW r \in First(p) PROVE r = o
  <2>1. SUFFICES ASSUME r # o PROVE FALSE
    OBVIOUS
  <2>2. r \in todo[p] /\ Before(o[1], r[1]) /\ Before(r[1], o[1])
    BY <1>3, <1>4, <2>1 DEF First
  <2>3. o[1] \in Anchor /\ r[1] \in Anchor
    BY <1>1, <1>4, <2>2
  <2> QED
    BY <1>2, <2>2, <2>3 DEF Before
<1>6. ASSUME NEW r \in todo[p] \ First(p), r[1] = o[1] PROVE FALSE
  <2>1. Before(o[1], o[1])
    BY <1>3, <1>6
  <2>2. o[1] \in Anchor
    BY <1>1, <1>4
  <2> QED
    BY <1>2, <2>1, <2>2 DEF Before
<1> QED
  BY <1>1, <1>4, <1>5, <1>6 DEF At

LEMMA SameFirst ==
  ASSUME NEW q, todo'[q] = todo[q]
  PROVE  /\ First(q)' = First(q) /\ At(q)' = At(q)
         /\ phase'[q] = phase[q] => Ahead(q)' = Ahead(q)
BY DEF First, At, Ahead

\* What a pass reads has not been decided yet.
LEMMA ReadNow ==
  ASSUME Types, NEW quiet \in BOOLEAN, NEW o \in Observations(quiet)
  PROVE  o \in Anchor \X Effect /\ fires[o[1]] = "none"
<1>1. PICK c \in Due : /\ Observed(c, quiet) \in {"allow", "deny"}
                       /\ o = <<AnchorOf(c), Observed(c, quiet)>>
  BY DEF Observations
<1>2. AnchorOf(c) \in Anchor
  BY DEF AnchorOf, Anchor, Due, Types
<1>3. fires[AnchorOf(c)] = "none"
  BY <1>1 DEF Observed
<1> QED
  BY <1>1, <1>2, <1>3 DEF Effect

LEMMA TypesStep == Types /\ [Next]_vars => Types'
<1> SUFFICES ASSUME Types, [Next]_vars PROVE Types'
  OBVIOUS
<1> USE DEF Types, passVars, planVars, World
<1>1. CASE UNCHANGED vars
  BY <1>1 DEF vars
<1>2. CASE ClaimAges \/ SendAges
  BY <1>2 DEF ClaimAges, SendAges
<1>3. CASE Clock
  BY <1>3 DEF Clock
<1>4. ASSUME NEW p \in Gateway,
             Claim(p) \/ Stopped(p) \/ Withdraws(p) \/ LetGo(p) \/ Close(p) \/ Start(p)
      PROVE  Types'
  BY <1>4 DEF Claim, Stopped, Withdraws, Leave, LetGo, Close, Start
<1>5. ASSUME NEW p \in Gateway, Ends(p) \/ Killed(p) PROVE Types'
  BY <1>5 DEF Ends, Killed, Dies, Goes
<1>6. ASSUME NEW p \in Gateway, Refuse(p) \/ NotDelivered(p) PROVE Types'
  BY <1>6 DEF Refuse, NotDelivered, Drop, Record
<1>7. ASSUME NEW p \in Gateway, Deliver(p) PROVE Types'
  BY <1>7 DEF Deliver, Goes
<1>8. ASSUME NEW p \in Gateway, Fired(p) PROVE Types'
  BY <1>8 DEF Fired, Drop, Goes, Record
<1>9. ASSUME NEW p \in Gateway, EndPass(p) PROVE Types'
  BY <1>9 DEF EndPass, Goes
<1>10. ASSUME NEW p \in Gateway, NEW quiet \in BOOLEAN, Pass(p, quiet) PROVE Types'
  <2>1. Observations(quiet) \subseteq Anchor \X Effect
    BY ReadNow
  <2> QED
    BY <1>10, <2>1 DEF Pass, Goes
<1>11. ASSUME NEW p \in Cli, ObserveTakes(p) \/ ObserveEnds(p) PROVE Types'
  BY <1>11 DEF ObserveTakes, ObserveEnds
<1>12. ASSUME NEW c \in Promise, Edit(c) \/ Evidence(c) PROVE Types'
  BY <1>12 DEF Edit, Evidence
<1> QED
  BY <1>1, <1>2, <1>3, <1>4, <1>5, <1>6, <1>7, <1>8, <1>9, <1>10, <1>11, <1>12
  DEF Next, Loop

\* A step that touches no pass, no record and no history keeps the invariant, if it
\* takes the lock of sends from no pass and no pass is late no more.
LEMMA Quiet ==
  ASSUME Told, Types', SendLock', UNCHANGED <<passVars, fires, history>>,
         \A q \in Gateway : (q \in sends => q \in sends') /\ (q \in sendLate <=> q \in sendLate')
  PROVE  Told'
<1> USE DEF Told, passVars, history
<1>1. \A q : First(q)' = First(q) /\ At(q)' = At(q) /\ Ahead(q)' = Ahead(q)
  BY SameFirst
<1>2. LogAgrees' /\ Holds' /\ ToldIsTold'
  BY <1>1 DEF LogAgrees, Holds, ToldIsTold
<1>3. InTheLog'
  BY <1>1 DEF InTheLog, OnItsWay
<1>4. Readings'
  BY <1>1 DEF Readings, Fresh
<1> QED
  BY <1>2, <1>3, <1>4

LEMMA QuietSteps ==
  ASSUME Told, Types', SendLock',
         \/ UNCHANGED vars
         \/ ClaimAges \/ Clock
         \/ \E p \in Gateway :
              Claim(p) \/ Stopped(p) \/ Withdraws(p) \/ LetGo(p) \/ Close(p) \/ Start(p)
         \/ \E p \in Cli : ObserveTakes(p) \/ ObserveEnds(p)
         \/ \E c \in Promise : Edit(c) \/ Evidence(c)
  PROVE  Told'
<1> SUFFICES /\ UNCHANGED <<passVars, fires, history>>
             /\ \A q \in Gateway : /\ q \in sends => q \in sends'
                                   /\ q \in sendLate <=> q \in sendLate'
  BY Quiet
<1> USE DEF passVars, history, sendVars, lockVars, World
<1>1. CASE UNCHANGED vars \/ ClaimAges \/ Clock
  BY <1>1 DEF vars, ClaimAges, Clock
<1>2. ASSUME NEW p \in Gateway,
             Claim(p) \/ Stopped(p) \/ Withdraws(p) \/ LetGo(p) \/ Close(p)
      PROVE  UNCHANGED <<passVars, fires, history, sendVars>>
  BY <1>2 DEF Claim, Stopped, Withdraws, Leave, LetGo, Close
<1>3. ASSUME NEW p \in Gateway, Start(p)
      PROVE  UNCHANGED <<passVars, fires, history, sendVars>>
  BY <1>3 DEF Start, SL!Start
<1>4. ASSUME NEW p \in Cli, ObserveTakes(p) \/ ObserveEnds(p)
      PROVE  /\ UNCHANGED <<passVars, fires, history>>
             /\ \A q \in Gateway : /\ q \in sends => q \in sends'
                                   /\ q \in sendLate <=> q \in sendLate'
  BY <1>4, Processes DEF ObserveTakes, ObserveEnds, SL!Acquire, SL!Release
<1>5. ASSUME NEW c \in Promise, Edit(c) \/ Evidence(c)
      PROVE  UNCHANGED <<passVars, fires, history, sendVars>>
  BY <1>5 DEF Edit, Evidence
<1> QED
  BY <1>1, <1>2, <1>3, <1>4, <1>5

\* The horizon passes over the lock of sends: what its holder has told and not
\* recorded is lost.
LEMMA AgesStep ==
  ASSUME Told, Types', SendLock', SendAges
  PROVE  Told'
<1> USE DEF Told, SendAges, passVars
<1>1. \A q : First(q)' = First(q) /\ At(q)' = At(q) /\ Ahead(q)' = Ahead(q)
  BY SameFirst
<1>2. sends' = sends /\ sendLate' = sendLate \cup ({send.by} \cap up)
  BY DEF SL!Age
<1>3. LogAgrees' /\ Holds' /\ ToldIsTold'
  BY <1>1, <1>2 DEF LogAgrees, Holds, ToldIsTold
<1>4. InTheLog'
  <2> SUFFICES ASSUME NEW a \in Anchor, a \in told, fires[a] = "none", a \notin lost'
               PROVE  OnItsWay(a)'
    BY DEF InTheLog
  <2>1. PICK q \in Gateway : phase[q] = "told" /\ a \in At(q) /\ q \notin sendLate
    BY DEF InTheLog, OnItsWay
  <2>2. q \notin {send.by} \cap up
    BY <2>1 DEF Unrecorded
  <2> QED
    BY <1>1, <1>2, <2>1, <2>2 DEF OnItsWay
<1>5. Readings'
  BY <1>1, <1>2 DEF Readings, Fresh
<1> QED
  BY <1>3, <1>4, <1>5

\* So is what a process that ends has told and not recorded.
LEMMA DiesStep ==
  ASSUME Told, Types', SendLock', NEW p \in Gateway, Dies(p)
  PROVE  Told'
<1>a. /\ todo' = [todo EXCEPT ![p] = {}] /\ phase' = [phase EXCEPT ![p] = "idle"]
      /\ lost' = lost \cup Unrecorded(p) /\ UNCHANGED <<fires, told, again, overdue>>
      /\ sends' = sends \ {p} /\ sendLate' = sendLate \ {p}
  BY DEF Dies, Goes, SL!Die
<1>b. todo \in [Gateway -> SUBSET (Anchor \X Effect)]
      /\ phase \in [Gateway -> {"idle", "loop", "told"}]
  BY DEF Told, Types
<1>1. \A q \in Gateway \ {p} : /\ todo'[q] = todo[q] /\ phase'[q] = phase[q]
                               /\ q \in sends' <=> q \in sends
                               /\ q \in sendLate' <=> q \in sendLate
  BY <1>a, <1>b
<1>2. phase'[p] = "idle" /\ lost \subseteq lost'
  BY <1>a, <1>b
<1> USE <1>a DEF Told
<1>3. \A q \in Gateway \ {p} : First(q)' = First(q) /\ At(q)' = At(q) /\ Ahead(q)' = Ahead(q)
  BY <1>1, SameFirst
<1>4. LogAgrees' /\ Holds' /\ ToldIsTold'
  BY <1>1, <1>2, <1>3 DEF LogAgrees, Holds, ToldIsTold
<1>5. InTheLog'
  <2> SUFFICES ASSUME NEW a \in Anchor, a \in told, fires[a] = "none", a \notin lost'
               PROVE  OnItsWay(a)'
    BY DEF InTheLog
  <2>1. PICK q \in Gateway : phase[q] = "told" /\ a \in At(q) /\ q \notin sendLate
    BY DEF InTheLog, OnItsWay
  <2>2. q # p
    BY <2>1 DEF Unrecorded
  <2> QED
    BY <1>1, <1>3, <2>1, <2>2 DEF OnItsWay
<1>6. Readings'
  BY <1>1, <1>2, <1>3 DEF Readings, Fresh
<1> QED
  BY <1>4, <1>5, <1>6

\* A pass begins: nobody punctual holds the lock, so nothing is on its way.
LEMMA PassStep ==
  ASSUME Told, Types', SendLock', NEW p \in Gateway, NEW quiet \in BOOLEAN, Pass(p, quiet)
  PROVE  Told'
<1>a. /\ todo' = [todo EXCEPT ![p] = Observations(quiet)]
      /\ phase' = [phase EXCEPT ![p] = "loop"] /\ phase[p] = "idle"
      /\ UNCHANGED <<fires, told, again, lost, overdue>>
      /\ ~SL!Held /\ sends' = sends \cup {p} /\ sendLate' = sendLate \ {p}
  BY DEF Pass, Goes, TakesSendLock, SL!Acquire, history
<1>b. /\ todo \in [Gateway -> SUBSET (Anchor \X Effect)]
      /\ phase \in [Gateway -> {"idle", "loop", "told"}]
  BY DEF Told, Types
<1>1. \A q \in Gateway \ {p} : /\ todo'[q] = todo[q] /\ phase'[q] = phase[q]
                               /\ (q \in sends' <=> q \in sends)
                               /\ (q \in sendLate' <=> q \in sendLate)
  BY <1>a, <1>b
<1>2. phase'[p] = "loop" /\ p \in sends' /\ todo'[p] = Observations(quiet)
  BY <1>a, <1>b
<1>3. \A q \in Gateway \ {p} : First(q)' = First(q) /\ At(q)' = At(q) /\ Ahead(q)' = Ahead(q)
  BY <1>1, SameFirst
<1>4. \A q \in sends : q \in sendLate
  BY <1>a, PunctualExcludes DEF Told
<1>5. \A a \in Anchor : ~OnItsWay(a)
  BY <1>4 DEF OnItsWay, Told, Holds
<1>6. LogAgrees' /\ Holds' /\ ToldIsTold'
  BY <1>a, <1>1, <1>2, <1>3 DEF Told, LogAgrees, Holds, ToldIsTold
<1>7. InTheLog'
  BY <1>a, <1>5 DEF Told, InTheLog
<1>8. Readings'
  <2>1. ASSUME NEW o \in Ahead(p)', o[2] = "allow" PROVE Fresh(o[1])'
    <3>1. o \in Observations(quiet)
      BY <1>2, <2>1 DEF Ahead
    <3>2. o[1] \in Anchor /\ fires[o[1]] = "none"
      BY <3>1, ReadNow DEF Told
    <3> QED
      BY <1>a, <1>5, <3>2 DEF Fresh, Told, InTheLog
  <2>2. ASSUME NEW q \in Gateway \ {p}, phase'[q] # "idle", q \notin sendLate'
        PROVE  FALSE
    BY <1>1, <1>4, <2>2 DEF Told, Holds
  <2> QED
    BY <2>1, <2>2 DEF Readings
<1> QED
  BY <1>6, <1>7, <1>8 DEF Told

\* The steps of a pass after its first: p is at work, the lock is as it was, and
\* what the others have read stays fresh if they are not late.
LEMMA RefuseStep ==
  ASSUME Told, Types', SendLock', NEW p \in Gateway, Refuse(p)
  PROVE  Told'
<1>a. /\ todo' = [todo EXCEPT ![p] = @ \ First(p)] /\ phase[p] = "loop"
      /\ fires' = [a \in Anchor |-> IF a \in At(p) /\ fires[a] = "none"
                                    THEN "deny" ELSE fires[a]]
      /\ overdue' = IF p \in sendLate THEN overdue \cup At(p) ELSE overdue
      /\ UNCHANGED <<phase, told, again, lost, sends, sendLate>>
  BY DEF Refuse, Record, Drop, lockVars
<1>b. /\ todo \in [Gateway -> SUBSET (Anchor \X Effect)]
      /\ fires \in [Anchor -> {"none", "allow", "deny"}]
  BY DEF Told, Types
<1>1. PICK o \in First(p) : o[2] = "deny"
  BY DEF Refuse, Has
<1>2. At(p) = {o[1]} /\ \A r \in todo[p] \ First(p) : r[1] # o[1]
  BY <1>1, OneFirst DEF Told
<1>3. \A q \in Gateway \ {p} : todo'[q] = todo[q]
  BY <1>a, <1>b
<1>4. \A q \in Gateway \ {p} : First(q)' = First(q) /\ At(q)' = At(q) /\ Ahead(q)' = Ahead(q)
  BY <1>a, <1>3, SameFirst
<1>5. LogAgrees' /\ Holds' /\ ToldIsTold'
  BY <1>a, <1>b, <1>4 DEF Told, LogAgrees, Holds, ToldIsTold
<1>6. InTheLog'
  <2>1. \A a \in Anchor : fires[a] # "none" => fires'[a] # "none"
    BY <1>a, <1>b
  <2>2. \A a \in Anchor : OnItsWay(a) => OnItsWay(a)'
    BY <1>a, <1>4 DEF OnItsWay
  <2> QED
    BY <1>a, <2>1, <2>2 DEF Told, InTheLog
<1>7. Readings'
  <2>1. ASSUME NEW q \in Gateway \ {p}, phase[q] # "idle", q \notin sendLate,
               NEW r \in Ahead(q), r[2] = "allow"
        PROVE  Fresh(r[1])'
    <3>1. p \in sends /\ q \in sends
      BY <1>a, <2>1 DEF Told, Holds
    <3>2. p \in sendLate
      BY <2>1, <3>1, PunctualExcludes DEF Told
    <3>3. r[1] \in Anchor
      BY <1>b, <2>1 DEF Ahead
    <3>4. Fresh(r[1])
      BY <2>1 DEF Told, Readings
    <3> QED
      BY <1>a, <3>2, <3>3, <3>4 DEF Fresh
  <2>2. ASSUME p \notin sendLate, NEW r \in Ahead(p)', r[2] = "allow" PROVE Fresh(r[1])'
    <3>1. r \in todo[p] \ First(p)
      BY <1>a, <1>b, <2>2 DEF Ahead
    <3>2. r[1] \in Anchor /\ r[1] \notin At(p)
      BY <1>b, <1>2, <3>1
    <3>3. Fresh(r[1])
      BY <1>a, <2>2, <3>1 DEF Told, Readings, Ahead
    <3> QED
      BY <1>a, <2>2, <3>2, <3>3 DEF Fresh
  <2> QED
    BY <1>a, <1>4, <2>1, <2>2 DEF Readings
<1> QED
  BY <1>5, <1>6, <1>7 DEF Told

LEMMA NotDeliveredStep ==
  ASSUME Told, Types', SendLock', NEW p \in Gateway, NotDelivered(p)
  PROVE  Told'
<1>a. /\ todo' = [todo EXCEPT ![p] = @ \ First(p)] /\ phase[p] = "loop"
      /\ UNCHANGED <<fires, phase, told, again, lost, overdue, sends, sendLate>>
  BY DEF NotDelivered, Drop, lockVars, history
<1>b. todo \in [Gateway -> SUBSET (Anchor \X Effect)]
  BY DEF Told, Types
<1>1. \A q \in Gateway \ {p} : todo'[q] = todo[q]
  BY <1>a, <1>b
<1>2. \A q \in Gateway \ {p} : First(q)' = First(q) /\ At(q)' = At(q) /\ Ahead(q)' = Ahead(q)
  BY <1>a, <1>1, SameFirst
<1>3. LogAgrees' /\ Holds' /\ ToldIsTold'
  BY <1>a, <1>2 DEF Told, LogAgrees, Holds, ToldIsTold
<1>4. InTheLog'
  BY <1>a, <1>2 DEF Told, InTheLog, OnItsWay
<1>5. Readings'
  <2>1. Ahead(p)' \subseteq Ahead(p)
    BY <1>a, <1>b DEF Ahead
  <2> QED
    BY <1>a, <1>2, <2>1 DEF Told, Readings, Fresh
<1> QED
  BY <1>3, <1>4, <1>5 DEF Told

\* What is told had not been told before, unless that is known to be lost.
LEMMA DeliverStep ==
  ASSUME Told, Types', SendLock', NEW p \in Gateway, Deliver(p)
  PROVE  Told'
<1>a. /\ phase' = [phase EXCEPT ![p] = "told"] /\ phase[p] = "loop"
      /\ told' = told \cup At(p) /\ again' = again \cup (At(p) \cap told)
      /\ lost' = IF p \in sendLate THEN lost \cup At(p) ELSE lost
      /\ UNCHANGED <<fires, todo, overdue, sends, sendLate>>
  BY DEF Deliver, Goes, lockVars
<1>b. /\ todo \in [Gateway -> SUBSET (Anchor \X Effect)]
      /\ phase \in [Gateway -> {"idle", "loop", "told"}]
  BY DEF Told, Types
<1>1. PICK o \in First(p) : o[2] = "allow"
  BY DEF Deliver, Has
<1>2. /\ At(p) = {o[1]} /\ o \in todo[p] /\ o[1] \in Anchor
      /\ \A r \in todo[p] \ First(p) : r[1] # o[1]
  BY <1>1, OneFirst DEF Told, First
<1>3. \A q \in Gateway : First(q)' = First(q) /\ At(q)' = At(q)
  BY <1>a, SameFirst
<1>4. phase'[p] = "told" /\ \A q \in Gateway \ {p} : phase'[q] = phase[q]
  BY <1>a, <1>b
<1>5. \A q \in Gateway \ {p} : Ahead(q)' = Ahead(q)
  BY <1>a, <1>4, SameFirst
<1>6. p \notin sendLate => Fresh(o[1])
  BY <1>a, <1>1, <1>2 DEF Told, Readings, Ahead
<1>7. LogAgrees'
  BY <1>a, <1>2, <1>6 DEF Told, LogAgrees, Fresh
<1>8. Holds' /\ ToldIsTold'
  BY <1>a, <1>3, <1>4 DEF Told, Holds, ToldIsTold
<1>9. InTheLog'
  <2> SUFFICES ASSUME NEW a \in Anchor, a \in told', a \notin lost', fires[a] = "none"
               PROVE  OnItsWay(a)'
    BY <1>a DEF InTheLog
  <2>1. CASE a \in At(p)
    BY <1>a, <1>3, <1>4, <2>1 DEF OnItsWay
  <2>2. CASE a \notin At(p)
    <3>1. PICK q \in Gateway : phase[q] = "told" /\ a \in At(q) /\ q \notin sendLate
      BY <1>a, <2>2 DEF Told, InTheLog, OnItsWay
    <3> QED
      BY <1>a, <1>3, <1>4, <3>1 DEF OnItsWay
  <2> QED
    BY <2>1, <2>2
<1>10. Readings'
  <2>1. ASSUME NEW q \in Gateway \ {p}, phase[q] # "idle", q \notin sendLate,
               NEW r \in Ahead(q), r[2] = "allow"
        PROVE  Fresh(r[1])'
    <3>1. p \in sends /\ q \in sends
      BY <1>a, <2>1 DEF Told, Holds
    <3>2. p \in sendLate
      BY <2>1, <3>1, PunctualExcludes DEF Told
    <3>3. Fresh(r[1])
      BY <2>1 DEF Told, Readings
    <3> QED
      BY <1>a, <3>2, <3>3 DEF Fresh
  <2>2. ASSUME p \notin sendLate, NEW r \in Ahead(p)', r[2] = "allow" PROVE Fresh(r[1])'
    <3>1. r \in todo[p] \ First(p)
      BY <1>a, <1>3, <1>4, <2>2 DEF Ahead
    <3>2. Fresh(r[1]) /\ r[1] \notin At(p)
      BY <1>a, <1>2, <2>2, <3>1 DEF Told, Readings, Ahead
    <3> QED
      BY <1>a, <2>2, <3>2 DEF Fresh
  <2> QED
    BY <1>a, <1>4, <1>5, <2>1, <2>2 DEF Readings
<1> QED
  BY <1>7, <1>8, <1>9, <1>10 DEF Told

LEMMA FiredStep ==
  ASSUME Told, Types', SendLock', NEW p \in Gateway, Fired(p)
  PROVE  Told'
<1>a. /\ todo' = [todo EXCEPT ![p] = @ \ First(p)] /\ phase[p] = "told"
      /\ phase' = [phase EXCEPT ![p] = "loop"]
      /\ \/ lost' = lost \cup At(p) /\ fires' = fires
         \/ /\ fires' = [a \in Anchor |-> IF a \in At(p) /\ fires[a] = "none"
                                          THEN "allow" ELSE fires[a]]
            /\ lost' = lost
      /\ UNCHANGED <<told, again, overdue, sends, sendLate>>
  BY DEF Fired, Record, Drop, Goes, lockVars
<1>b. /\ todo \in [Gateway -> SUBSET (Anchor \X Effect)]
      /\ phase \in [Gateway -> {"idle", "loop", "told"}]
      /\ fires \in [Anchor -> {"none", "allow", "deny"}]
  BY DEF Told, Types
<1>1. \A q \in Gateway \ {p} : todo'[q] = todo[q] /\ phase'[q] = phase[q]
  BY <1>a, <1>b
<1>2. \A q \in Gateway \ {p} : First(q)' = First(q) /\ At(q)' = At(q) /\ Ahead(q)' = Ahead(q)
  BY <1>1, SameFirst
<1>3. phase'[p] = "loop" /\ todo'[p] = todo[p] \ First(p)
  BY <1>a, <1>b
<1>4. At(p) \subseteq told
  BY <1>a DEF Told, ToldIsTold
<1>5. \A a \in Anchor : /\ fires[a] # "none" => fires'[a] = fires[a]
                        /\ fires[a] = "none" => fires'[a] \in {"none", "allow"}
                        /\ fires'[a] = "allow" => fires[a] = "allow" \/ a \in At(p)
                        /\ a \in At(p) => a \in lost' \/ fires'[a] # "none"
  BY <1>a, <1>b
<1>6. LogAgrees'
  BY <1>a, <1>4, <1>5 DEF Told, LogAgrees
<1>7. Holds' /\ ToldIsTold'
  BY <1>a, <1>1, <1>2, <1>3 DEF Told, Holds, ToldIsTold
<1>8. InTheLog'
  <2> SUFFICES ASSUME NEW a \in Anchor, a \in told, a \notin lost', fires'[a] = "none"
               PROVE  OnItsWay(a)'
    BY <1>a DEF InTheLog
  <2>1. a \notin lost /\ fires[a] = "none" /\ a \notin At(p)
    BY <1>a, <1>b, <1>5
  <2>2. PICK q \in Gateway : phase[q] = "told" /\ a \in At(q) /\ q \notin sendLate
    BY <2>1 DEF Told, InTheLog, OnItsWay
  <2> QED
    BY <1>a, <1>1, <1>2, <2>1, <2>2 DEF OnItsWay
<1>9. Readings'
  <2>1. ASSUME NEW a \in Anchor, Fresh(a) PROVE Fresh(a)'
    BY <1>a, <1>b, <1>5, <2>1 DEF Fresh
  <2>2. Ahead(p)' = Ahead(p)
    BY <1>a, <1>3 DEF Ahead
  <2>3. \A q \in Gateway : Ahead(q) \subseteq Anchor \X Effect
    BY <1>b DEF Ahead
  <2>4. \A q \in Gateway : Ahead(q)' = Ahead(q) /\ (phase'[q] # "idle" => phase[q] # "idle")
    BY <1>a, <1>1, <1>2, <2>2
  <2> QED
    BY <1>a, <2>1, <2>3, <2>4 DEF Told, Readings
<1> QED
  BY <1>6, <1>7, <1>8, <1>9 DEF Told

LEMMA EndPassStep ==
  ASSUME Told, Types', SendLock', NEW p \in Gateway, EndPass(p)
  PROVE  Told'
<1>a. /\ todo' = [todo EXCEPT ![p] = {}] /\ phase[p] = "loop"
      /\ phase' = [phase EXCEPT ![p] = "idle"]
      /\ sends' = sends \/ sends' = sends \ {p}
      /\ UNCHANGED <<fires, told, again, lost, overdue, sendLate>>
  BY DEF EndPass, Goes, SL!Release, sendVars, history
<1>b. /\ todo \in [Gateway -> SUBSET (Anchor \X Effect)]
      /\ phase \in [Gateway -> {"idle", "loop", "told"}]
  BY DEF Told, Types
<1>1. phase'[p] = "idle" /\ \A q \in Gateway \ {p} : todo'[q] = todo[q] /\ phase'[q] = phase[q]
  BY <1>a, <1>b
<1>2. \A q \in Gateway \ {p} : First(q)' = First(q) /\ At(q)' = At(q) /\ Ahead(q)' = Ahead(q)
  BY <1>1, SameFirst
<1>3. LogAgrees' /\ Holds' /\ ToldIsTold'
  BY <1>a, <1>1, <1>2 DEF Told, LogAgrees, Holds, ToldIsTold
<1>4. InTheLog'
  BY <1>a, <1>1, <1>2 DEF Told, InTheLog, OnItsWay
<1>5. Readings'
  BY <1>a, <1>1, <1>2 DEF Told, Readings, Fresh
<1> QED
  BY <1>3, <1>4, <1>5 DEF Told

LEMMA ToldInit == Init => Told
<1> SUFFICES ASSUME Init PROVE Told
  OBVIOUS
<1>1. Types
  BY Promises DEF Init, Types, Date, Undated, Anchor
<1>2. SendLock
  BY SendInit
<1> QED
  BY <1>1, <1>2 DEF Init, Told, LogAgrees, Holds, ToldIsTold, InTheLog, Readings

LEMMA ToldStep == Told /\ [Next]_vars => Told'
<1> SUFFICES ASSUME Told, [Next]_vars PROVE Told'
  OBVIOUS
<1>1. Types'
  BY TypesStep DEF Told
<1>2. SendLock'
  BY SendStep, SendLockStep DEF Told
<1>3. CASE UNCHANGED vars
  BY <1>1, <1>2, <1>3, QuietSteps
<1>4. CASE ClaimAges \/ Clock
  BY <1>1, <1>2, <1>4, QuietSteps
<1>5. CASE SendAges
  BY <1>1, <1>2, <1>5, AgesStep
<1>6. ASSUME NEW p \in Gateway,
             Claim(p) \/ Stopped(p) \/ Withdraws(p) \/ LetGo(p) \/ Close(p) \/ Start(p)
      PROVE  Told'
  BY <1>1, <1>2, <1>6, QuietSteps
<1>7. ASSUME NEW p \in Gateway, Ends(p) \/ Killed(p) PROVE Told'
  BY <1>1, <1>2, <1>7, DiesStep DEF Ends, Killed
<1>8. ASSUME NEW p \in Gateway, Loop(p) PROVE Told'
  BY <1>1, <1>2, <1>8, RefuseStep, NotDeliveredStep, DeliverStep, FiredStep, EndPassStep
  DEF Loop
<1>9. ASSUME NEW p \in Gateway, NEW quiet \in BOOLEAN, Pass(p, quiet) PROVE Told'
  BY <1>1, <1>2, <1>9, PassStep
<1>10. ASSUME NEW p \in Cli, ObserveTakes(p) \/ ObserveEnds(p) PROVE Told'
  BY <1>1, <1>2, <1>10, QuietSteps
<1>11. ASSUME NEW c \in Promise, Edit(c) \/ Evidence(c) PROVE Told'
  BY <1>1, <1>2, <1>11, QuietSteps
<1> QED
  BY <1>3, <1>4, <1>5, <1>6, <1>7, <1>8, <1>9, <1>10, <1>11 DEF Next

LEMMA ToldAlways == Spec => []Told
BY ToldInit, ToldStep, PTL DEF Spec

\* A promise is told once for each of its dates, unless a process ended or outlived
\* its lock between a telling and its record; and no anchor is burnt as spoken
\* that never was.
THEOREM LogCorrect == Spec => []LogAgrees
<1>1. Told => LogAgrees
  BY DEF Told
<1> QED
  BY <1>1, ToldAlways, PTL

\* What was refused is not told afterwards.
THEOREM RefusedCorrect == Spec => RefusedIsSilent
<1> DEFINE Silent == \A a \in Anchor :
      fires[a] = "deny" /\ a \in told' => a \in told \cup lost' \cup overdue
<1>1. Told /\ [Next]_vars => [Silent]_vars
  <2> SUFFICES ASSUME Told, Next PROVE Silent
    OBVIOUS
  <2>1. ASSUME NEW p \in Gateway, Deliver(p) PROVE Silent
    <3>1. PICK o \in First(p) : o[2] = "allow"
      BY <2>1 DEF Deliver, Has
    <3>2. At(p) = {o[1]} /\ o \in todo[p]
      BY <3>1, OneFirst DEF Told, First
    <3>3. /\ phase[p] = "loop" /\ told' = told \cup At(p)
          /\ lost' = IF p \in sendLate THEN lost \cup At(p) ELSE lost
      BY <2>1 DEF Deliver
    <3>4. p \notin sendLate => Fresh(o[1])
      BY <3>1, <3>2, <3>3 DEF Told, Readings, Ahead
    <3> QED
      BY <3>2, <3>3, <3>4 DEF Fresh
  <2>2. CASE UNCHANGED told
    BY <2>2
  <2>3. CASE \A p \in Gateway : ~Deliver(p)
    <3>1. UNCHANGED told
      BY <2>3 DEF Next, Loop, ClaimAges, SendAges, Clock, Claim, Stopped, Withdraws, Leave,
                  LetGo, Close, Ends, Killed, Dies, Start, Refuse, NotDelivered, Fired,
                  EndPass, Pass, ObserveTakes, ObserveEnds, Edit, Evidence, World, history
    <3> QED
      BY <2>2, <3>1
  <2> QED
    BY <2>1, <2>3
<1> QED
  BY <1>1, ToldAlways, PTL DEF Spec, RefusedIsSilent

----------------------------------------------------------------------------
(* The matrix that comes out of a file.                                    *)

\* The lowest of two numbers is under both.
LEMMA TighterIsUnder ==
  ASSUME NEW a \in Int, NEW b \in Int
  PROVE  Tighter(a, b) \in {a, b} /\ Tighter(a, b) <= a /\ Tighter(a, b) <= b
BY DEF Tighter

\* The floor is a matrix.
LEMMA FloorIsMatrix ==
  /\ RowFloor \in [EffectRow -> RowPolicy]
  /\ Floor.rows = RowFloor /\ Floor.params = 1 /\ Floor.search = 3
  /\ \A t \in Room : Floor.grants[t] = {}
BY DEF Floor, RowFloor, RowPolicy

\* What a file that is accepted becomes, field by field.
LEMMA MergedIsTighter ==
  ASSUME NEW f \in SealedFile
  PROVE  LET m == Merged(f)
         IN  /\ m.rows \in [EffectRow -> RowPolicy]
             /\ \A e \in EffectRow :
                  /\ RowFloor[e].asks => m.rows[e].asks
                  /\ m.rows[e].denyAbove <= RowFloor[e].denyAbove
             /\ m.params \in Tier /\ m.params <= 1
             /\ m.search \in Tier /\ m.search <= 3
             /\ Floor.never \subseteq m.never
             /\ Floor.forbidden \subseteq m.forbidden
             /\ \A t \in Room : m.grants[t] = IF t \in f.named THEN f.grants[t] ELSE {}
<1> DEFINE m == Merged(f)
<1>1. m.rows = TighterRows(f.rows) /\ m.params = Tighter(f.params, 1)
      /\ m.search = Tighter(f.search, 3)
  BY FloorIsMatrix DEF Merged
<1>2. f.rows \in [EffectRow -> RowPolicy] /\ f.params \in Tier /\ f.search \in Tier
  BY DEF SealedFile
<1>3. ASSUME NEW e \in EffectRow
      PROVE  /\ m.rows[e] \in RowPolicy
             /\ RowFloor[e].asks => m.rows[e].asks
             /\ m.rows[e].denyAbove <= RowFloor[e].denyAbove
  <2>1. m.rows[e] = [asks |-> f.rows[e].asks \/ RowFloor[e].asks,
                     denyAbove |-> Tighter(f.rows[e].denyAbove, RowFloor[e].denyAbove)]
    BY <1>1 DEF TighterRows
  <2>2. f.rows[e] \in RowPolicy /\ RowFloor[e] \in RowPolicy BY <1>2, FloorIsMatrix
  <2>3. f.rows[e].denyAbove \in -1 .. 3 /\ RowFloor[e].denyAbove \in -1 .. 3
        /\ f.rows[e].asks \in BOOLEAN /\ RowFloor[e].asks \in BOOLEAN
    BY <2>2 DEF RowPolicy
  <2>4. LET n == Tighter(f.rows[e].denyAbove, RowFloor[e].denyAbove)
        IN  n \in -1 .. 3 /\ n <= RowFloor[e].denyAbove
    BY <2>3 DEF Tighter
  <2> QED BY <2>1, <2>3, <2>4 DEF RowPolicy
<1>4. m.rows \in [EffectRow -> RowPolicy] BY <1>1, <1>3 DEF TighterRows
<1>5. m.params \in Tier /\ m.params <= 1 /\ m.search \in Tier /\ m.search <= 3
  BY <1>1, <1>2 DEF Tighter, Tier
<1>6. Floor.never \subseteq m.never /\ Floor.forbidden \subseteq m.forbidden
  BY DEF Merged
<1>7. \A t \in Room : m.grants[t] = IF t \in f.named THEN f.grants[t] ELSE {}
  BY DEF Merged
<1> QED BY <1>3, <1>4, <1>5, <1>6, <1>7

\* Under a longer list more is covered.
LEMMA CoversGrows ==
  ASSUME NEW short, NEW long, short \subseteq long, NEW id, Covers(short, id)
  PROVE  Covers(long, id)
BY DEF Covers

\* What is put in force: the floor, or what an acceptable file says.
LEMMA LoadedIsTighter ==
  ASSUME NEW f \in SealedFile
  PROVE  LET m == Load(f)
         IN  /\ m.rows \in [EffectRow -> RowPolicy]
             /\ \A e \in EffectRow :
                  /\ RowFloor[e].asks => m.rows[e].asks
                  /\ m.rows[e].denyAbove <= RowFloor[e].denyAbove
             /\ m.params \in Tier /\ m.params <= 1
             /\ m.search \in Tier /\ m.search <= 3
             /\ Floor.never \subseteq m.never
             /\ Floor.forbidden \subseteq m.forbidden
             /\ \A t \in Room : \A id \in m.grants[t] :
                  t \in f.named /\ id \in f.grants[t] /\ Grantable(id)
<1>1. CASE f.readable /\ Acceptable(f)
  <2>1. Load(f) = Merged(f) BY <1>1 DEF Load
  <2>2. \A t \in f.named : \A id \in f.grants[t] : Grantable(id) BY <1>1 DEF Acceptable
  <2> QED BY <2>1, <2>2, MergedIsTighter
<1>2. CASE ~(f.readable /\ Acceptable(f))
  <2>1. Load(f) = Floor BY <1>2 DEF Load
  <2>2. \A e \in EffectRow : RowFloor[e] \in RowPolicy BY FloorIsMatrix
  <2>3. \A e \in EffectRow : RowFloor[e].denyAbove \in Int BY <2>2 DEF RowPolicy
  <2> QED BY <2>1, <2>3, FloorIsMatrix DEF Tier
<1> QED BY <1>1, <1>2

----------------------------------------------------------------------------
(* The kernel.                                                             *)

\* The verdict of the kernel is one of its verdicts.
LEMMA VerdictType == \A c, r : Decide(c, r) \in Verdict
BY DEF Decide, AskOwner, Verdict, DenyCode

\* A member gets through to a capability of the host on a grant only.
LEMMA MemberNeedsGrant ==
  ASSUME NEW f \in SealedFile, NEW c, c.matrix = Load(f), NEW r,
         r.kind = "member", r.decl.hostOnly, Decide(c, r) \notin DenyCode
  PROVE  r.tenant \in f.named /\ r.decl.id \in f.grants[r.tenant] /\ Grantable(r.decl.id)
<1>1. ~NotForRooms(Load(f), r) BY DEF Decide, DenyCode
<1>2. r.tenant \in Room /\ r.decl.id \in Load(f).grants[r.tenant]
  BY <1>1 DEF NotForRooms, GrantedTo
<1> QED BY <1>2, LoadedIsTighter

\* The gates that a tier more does not open: what the ceilings, the allowlist and
\* the composed bytes refuse or ask about, they still refuse or ask about.
LEMMA HigherTaint ==
  ASSUME NEW c, NEW r \in Request, r.taint < 3,
         c.matrix.rows \in [EffectRow -> RowPolicy],
         c.matrix.params \in Tier, c.matrix.search \in Tier,
         NEW s, s = [r EXCEPT !.taint = @ + 1]
  PROVE  \/ Strictness(Decide(c, s)) >= Strictness(Decide(c, r))
         \/ ByOwner(s) /\ Leaves(s) /\ s.taint > Ceiling(c.matrix, s)
<1> DEFINE m == c.matrix
<1>1. /\ s.kind = r.kind /\ s.home = r.home /\ s.tenant = r.tenant
      /\ s.decl = r.decl /\ s.resource = r.resource /\ s.quoted = r.quoted
      /\ s.taint = r.taint + 1 /\ r.taint \in 0 .. 3
  BY DEF Request, Tier
<1>2. /\ Misplaced(s) <=> Misplaced(r)
      /\ NotForRooms(m, s) <=> NotForRooms(m, r)
      /\ Leaves(s) <=> Leaves(r)
      /\ Unreadable(s) <=> Unreadable(r)
      /\ OffTheList(s) <=> OffTheList(r)
      /\ Queued(s) <=> Queued(r)
      /\ Irreversible(m, s) <=> Irreversible(m, r)
      /\ ByOwner(s) <=> ByOwner(r)
  BY <1>1 DEF Misplaced, NotForRooms, Leaves, Unreadable, Addressed, OffTheList,
     Queued, Irreversible, ByOwner
<1>3. Ceiling(m, s) = Ceiling(m, r) /\ Ceiling(m, r) \in Int
  <2>1. r.decl.effect \in EffectRow /\ r.decl.ceiling \in Int
    BY DEF Request, CapabilityDecl, Tier
  <2>2. m.rows[r.decl.effect].denyAbove \in Int BY <2>1 DEF RowPolicy
  <2> QED BY <1>1, <2>1, <2>2 DEF Ceiling, Tighter
<1>4. Composed(m, r) => Composed(m, s)
  BY <1>1 DEF Composed, Addressed, ByOwner, Tier
<1>5. r.taint > Ceiling(m, r) => s.taint > Ceiling(m, s)
  BY <1>1, <1>3
<1>6. \A v \in Verdict : Strictness(v) \in 0 .. 3 BY DEF Strictness
<1>7. SUFFICES ASSUME ~(ByOwner(s) /\ Leaves(s) /\ s.taint > Ceiling(m, s))
               PROVE  Strictness(Decide(c, s)) >= Strictness(Decide(c, r))
  OBVIOUS
<1>8. CASE Strictness(Decide(c, s)) = 3 BY <1>6, <1>8, VerdictType
<1>9. CASE s.taint > Ceiling(m, s)
  <2>1. Decide(c, s) \in DenyCode
    BY <1>7, <1>9 DEF Decide, AskOwner, DenyCode
  <2> QED BY <2>1, <1>8 DEF Strictness
<1>10. CASE Decide(c, s) \notin DenyCode /\ ~(s.taint > Ceiling(m, s))
  <2>1. ~(r.taint > Ceiling(m, r)) BY <1>5, <1>10
  <2>2. Decide(c, r) \in DenyCode => FALSE
    BY <1>1, <1>2, <1>4, <1>10, <2>1 DEF Decide, AskOwner, DenyCode
  <2>3. Decide(c, r) = "ask" => Decide(c, s) = "ask"
    BY <1>1, <1>2, <1>4, <1>10, <2>1 DEF Decide, AskOwner, DenyCode
  <2>4. Decide(c, r) = "draft" => Decide(c, s) \in {"draft", "ask"}
    BY <1>1, <1>2, <1>4, <1>10, <2>1 DEF Decide, AskOwner, DenyCode
  <2> QED BY <2>2, <2>3, <2>4, VerdictType DEF Strictness, Verdict, DenyCode
<1> QED BY <1>8, <1>9, <1>10 DEF Strictness

\* A file that is accepted opens no gate of the floor but by a grant, and by the
\* owner's question above a ceiling it has lowered.
LEMMA FileOnlyTightens ==
  ASSUME NEW f \in SealedFile, NEW r \in Request, NEW c, NEW d,
         c.matrix = Load(f), d.matrix = Floor,
         c.safe = d.safe, c.exhausted = d.exhausted, c.declared = d.declared
  PROVE  \/ Strictness(Decide(c, r)) >= Strictness(Decide(d, r))
         \/ r.kind = "member" /\ GrantedTo(Load(f), r.tenant, r.decl.id)
         \/ ByOwner(r) /\ Leaves(r) /\ r.taint > Ceiling(Load(f), r)
<1> DEFINE m == Load(f)
<1>1. SUFFICES ASSUME ~(r.kind = "member" /\ GrantedTo(m, r.tenant, r.decl.id)),
                      ~(ByOwner(r) /\ Leaves(r) /\ r.taint > Ceiling(m, r))
               PROVE  Strictness(Decide(c, r)) >= Strictness(Decide(d, r))
  OBVIOUS
<1>2. Covers(Floor.never, r.decl.id) => Covers(m.never, r.decl.id)
  BY LoadedIsTighter, CoversGrows
<1>3. Covers(Floor.forbidden, r.decl.id) => Covers(m.forbidden, r.decl.id)
  BY LoadedIsTighter, CoversGrows
<1>4. NotForRooms(Floor, r) => NotForRooms(m, r)
  BY <1>1 DEF NotForRooms
<1>5. Ceiling(m, r) \in Int /\ Ceiling(Floor, r) \in Int /\ Ceiling(m, r) <= Ceiling(Floor, r)
  <2>1. r.decl.effect \in EffectRow /\ r.decl.ceiling \in Int
    BY DEF Request, CapabilityDecl, Tier
  <2>2. m.rows[r.decl.effect] \in RowPolicy /\ Floor.rows[r.decl.effect] \in RowPolicy
    BY <2>1, LoadedIsTighter, FloorIsMatrix
  <2>3. m.rows[r.decl.effect].denyAbove \in Int /\ Floor.rows[r.decl.effect].denyAbove \in Int
    BY <2>2 DEF RowPolicy
  <2>4. m.rows[r.decl.effect].denyAbove <= Floor.rows[r.decl.effect].denyAbove
    BY <2>1, LoadedIsTighter, FloorIsMatrix
  <2> QED BY <2>1, <2>3, <2>4 DEF Ceiling, Tighter
<1>6. Composed(Floor, r) => Composed(m, r)
  <2>1. m.params \in Int /\ m.params <= 1 /\ m.search \in Int /\ m.search <= 3
    BY LoadedIsTighter DEF Tier
  <2>2. r.taint \in Int BY DEF Request, Tier
  <2> QED BY <2>1, <2>2, FloorIsMatrix DEF Composed
<1>7. Irreversible(Floor, r) => Irreversible(m, r)
  <2>1. r.decl.effect \in EffectRow BY DEF Request, CapabilityDecl
  <2> QED BY <2>1, LoadedIsTighter, FloorIsMatrix DEF Irreversible
<1>8. r.taint \in Int BY DEF Request, Tier
<1>9. CASE Decide(c, r) \in DenyCode
  BY <1>9, VerdictType DEF Strictness
<1>10. CASE Decide(c, r) \notin DenyCode
  <2>1. ~(r.taint > Ceiling(m, r))
    BY <1>1, <1>10 DEF Decide, AskOwner, DenyCode
  <2>2. ~(r.taint > Ceiling(Floor, r)) BY <2>1, <1>5, <1>8
  <2>3. Decide(d, r) \notin DenyCode
    BY <1>2, <1>3, <1>4, <1>6, <1>10, <2>1, <2>2 DEF Decide, AskOwner, DenyCode
  <2>4. Decide(d, r) = "ask" => Decide(c, r) = "ask"
    BY <1>2, <1>3, <1>4, <1>6, <1>7, <1>10, <2>1, <2>2 DEF Decide, AskOwner, DenyCode
  <2>5. Decide(d, r) = "draft" => Decide(c, r) \in {"draft", "ask"}
    BY <1>2, <1>3, <1>4, <1>6, <1>7, <1>10, <2>1, <2>2 DEF Decide, AskOwner, DenyCode
  <2> QED BY <2>3, <2>4, <2>5, VerdictType DEF Strictness, Verdict, DenyCode
<1> QED BY <1>9, <1>10

----------------------------------------------------------------------------
(* The turn.                                                               *)

\* A question of this turn, with the provenance it would have or had.
AsksAs(d, resource, q) ==
  [kind |-> turn.kind, home |-> turn.home, tenant |-> turn.tenant,
   decl |-> d, resource |-> resource, taint |-> taint, quoted |-> q]

\* The memo holds, under each key, what the kernel answers to what the key says.
Remembered ==
  \A k \in DOMAIN cache :
    \E d \in Catalog, resource \in Resource, q \in BOOLEAN :
      /\ k = <<d, resource, taint, q>>
      /\ ~moved => cache[k] = Decide(Ctx, AsksAs(d, resource, q))

Inv == TypeOK /\ Remembered

\* What the turn asks the kernel about is a request of the kernel.
LEMMA AsksType ==
  ASSUME TypeOK, NEW d \in Catalog, NEW resource \in Resource
  PROVE  /\ Asks(d, resource) \in Request
         /\ Asks(d, resource).taint = taint /\ Asks(d, resource).decl = d
         /\ Asks(d, resource).kind = turn.kind /\ Asks(d, resource).tenant = turn.tenant
         /\ Asks(d, resource).quoted = Quoted(resource)
<1>1. d \in CapabilityDecl BY DeclAssumption
<1>2. turn \in [kind : PrincipalKind, home : Room \cup {Host}, tenant : Room \cup {Host}]
  BY TurnAssumption DEF TypeOK
<1> QED BY <1>1, <1>2 DEF Asks, Request, TypeOK, Quoted

\* A resource of a call, or none, is a resource.
LEMMA ReachableType == Reachable \subseteq Resource
<1>1. NoResource \in Resource BY DEF NoResource, Resource, Kind, Site
<1>2. \A c \in Call : c[2] \in Resource BY CallAssumption
<1> QED BY <1>1, <1>2 DEF Reachable

\* Everything the properties ask about is a request of the kernel.
LEMMA RequestsType == TypeOK => Requests \subseteq Request
BY AsksType, ReachableType DEF Requests

\* What a sealed file says never eases a verdict of the kernel.
LEMMA TightensAlways == TypeOK => OnlyTightens
<1> SUFFICES ASSUME TypeOK, NEW r \in Requests
             PROVE  \/ Strictness(Decide(Ctx, r)) >= Strictness(Decide(OnTheFloor, r))
                    \/ r.kind = "member" /\ GrantedTo(Load(file), r.tenant, r.decl.id)
                    \/ AskedAbove(Load(file), r)
  BY DEF OnlyTightens
<1>1. r \in Request BY RequestsType
<1>2. file \in SealedFile BY FileAssumption DEF TypeOK
<1>3. /\ Ctx.matrix = Load(file) /\ OnTheFloor.matrix = Floor
      /\ Ctx.safe = OnTheFloor.safe /\ Ctx.exhausted = OnTheFloor.exhausted
      /\ Ctx.declared = OnTheFloor.declared
  BY DEF Ctx, OnTheFloor
<1> QED BY <1>1, <1>2, <1>3, FileOnlyTightens DEF AskedAbove

\* A capability of the host is reached from a room by name only.
LEMMA RoomsAlways == TypeOK => RoomsAreClosed
<1> SUFFICES ASSUME TypeOK, NEW r \in Requests,
                    r.kind = "member", r.decl.hostOnly, Decide(Ctx, r) \notin DenyCode
             PROVE  /\ r.tenant \in file.named /\ r.decl.id \in file.grants[r.tenant]
                    /\ ~Covers(ClosedToRooms, r.decl.id)
  BY DEF RoomsAreClosed
<1>1. file \in SealedFile BY FileAssumption DEF TypeOK
<1>2. Ctx.matrix = Load(file) BY DEF Ctx
<1> QED BY <1>1, <1>2, MemberNeedsGrant DEF Grantable

\* Taint never eases a verdict.
LEMMA TaintAlways == TypeOK => TaintOnlyTightens
<1> SUFFICES ASSUME TypeOK, NEW d \in Catalog, NEW resource \in Reachable,
                    Asks(d, resource).taint < 3
             PROVE  LET r == Asks(d, resource)
                        after == [r EXCEPT !.taint = @ + 1]
                    IN  \/ Strictness(Decide(Ctx, after)) >= Strictness(Decide(Ctx, r))
                        \/ AskedAbove(Load(file), after)
  BY DEF TaintOnlyTightens, Requests
<1>1. Asks(d, resource) \in Request BY AsksType, ReachableType
<1>2. file \in SealedFile BY FileAssumption DEF TypeOK
<1>3. Ctx.matrix = Load(file) BY DEF Ctx
<1>4. /\ Ctx.matrix.rows \in [EffectRow -> RowPolicy]
      /\ Ctx.matrix.params \in Tier /\ Ctx.matrix.search \in Tier
  BY <1>2, <1>3, LoadedIsTighter
<1> QED BY <1>1, <1>3, <1>4, HigherTaint DEF AskedAbove

\* Questions put to the kernel leave a memo that is still right.
LEMMA CheckKeeps ==
  ASSUME Inv, NEW calls, calls \subseteq Catalog \X Resource, Check(calls),
         UNCHANGED <<file, safe, turn, taint, purse, moved>>
  PROVE  Remembered' /\ \A k \in DOMAIN cache' : cache'[k] \in Verdict
<1>1. DOMAIN cache' = DOMAIN cache \cup {Key(c) : c \in calls} BY DEF Check
<1>2. Ctx' = Ctx /\ \A d, resource, q : AsksAs(d, resource, q)' = AsksAs(d, resource, q)
  BY DEF Ctx, Exhausted, AsksAs
<1>3. \A k \in DOMAIN cache : cache'[k] = cache[k] BY DEF Check
<1>4. ASSUME NEW c \in calls, Key(c) \notin DOMAIN cache
      PROVE  cache'[Key(c)] = Decide(Ctx, AsksAs(c[1], c[2], Quoted(c[2])))
  <2>1. c = <<c[1], c[2]>> OBVIOUS
  <2>2. Key(c) = <<c[1], c[2], taint, Quoted(c[2])>> BY DEF Key
  <2>3. <<Key(c)[1], Key(c)[2]>> = c BY <2>1, <2>2
  <2>4. Answer(c) = Decide(Ctx, Asks(c[1], c[2])) BY <1>4 DEF Answer
  <2>5. cache'[Key(c)] = Answer(c) BY <1>4, <2>3 DEF Check
  <2> QED BY <2>4, <2>5 DEF Asks, AsksAs
<1>5. ASSUME NEW k \in DOMAIN cache'
      PROVE  /\ cache'[k] \in Verdict
             /\ \E d \in Catalog, resource \in Resource, q \in BOOLEAN :
                  /\ k = <<d, resource, taint, q>>
                  /\ ~moved => cache'[k] = Decide(Ctx, AsksAs(d, resource, q))
  <2>1. CASE k \in DOMAIN cache BY <2>1, <1>3 DEF Inv, TypeOK, Remembered
  <2>2. CASE k \notin DOMAIN cache
    <3>1. PICK c \in calls : k = Key(c) BY <2>2, <1>1, <1>5
    <3>2. cache'[k] = Decide(Ctx, AsksAs(c[1], c[2], Quoted(c[2]))) BY <3>1, <2>2, <1>4
    <3>3. k = <<c[1], c[2], taint, Quoted(c[2])>> BY <3>1 DEF Key
    <3>4. c[1] \in Catalog /\ c[2] \in Resource /\ Quoted(c[2]) \in BOOLEAN BY DEF Quoted
    <3> QED BY <3>2, <3>3, <3>4, VerdictType
  <2> QED BY <2>1, <2>2
<1> QED BY <1>2, <1>5 DEF Remembered

\* A memo that is thrown away is right.
LEMMA ForgetKeeps ==
  ASSUME cache' = <<>>
  PROVE  Remembered' /\ \A k \in DOMAIN cache' : cache'[k] \in Verdict
BY DEF Remembered

\* A memo that is left alone is right as long as what it depends on is the same.
LEMMA StillKeeps ==
  ASSUME Inv, UNCHANGED <<file, safe, turn, taint, cache>>,
         moved' \in BOOLEAN,
         ~moved' => ~moved /\ Exhausted(purse)' = Exhausted(purse)
  PROVE  Remembered' /\ \A k \in DOMAIN cache' : cache'[k] \in Verdict
<1>1. \A d, resource, q : AsksAs(d, resource, q)' = AsksAs(d, resource, q) BY DEF AsksAs
<1>2. ~moved' => Ctx' = Ctx BY DEF Ctx
<1> QED BY <1>1, <1>2 DEF Inv, TypeOK, Remembered

\* The taint rises and the memo goes, or neither changes.
LEMMA RaiseKeeps ==
  ASSUME Inv, NEW t \in Tier, Raise(t), UNCHANGED <<file, safe, turn, purse>>
  PROVE  /\ Remembered' /\ \A k \in DOMAIN cache' : cache'[k] \in Verdict
         /\ taint' \in Tier /\ moved' \in BOOLEAN
<1>1. CASE t > taint BY <1>1, ForgetKeeps DEF Raise, Forget
<1>2. CASE ~(t > taint)
  <2>1. taint' = taint /\ cache' = cache /\ moved' = moved BY <1>2 DEF Raise
  <2>2. Exhausted(purse)' = Exhausted(purse) BY DEF Exhausted
  <2> QED BY <2>1, <2>2, StillKeeps DEF Inv, TypeOK
<1>3. taint' \in Tier BY DEF Raise, Inv, TypeOK
<1> QED BY <1>1, <1>2, <1>3

\* What was spent stays under the caps.
LEMMA UpType == \A n, cap \in Nat : n \in 0 .. cap => Up(n, cap) \in 0 .. cap
BY DEF Up

\* The memo is right when the turn begins.
LEMMA InvInit == SnapInit => Inv
<1> SUFFICES ASSUME SnapInit PROVE Inv
  OBVIOUS
<1>1. taint \in Tier BY DEF SnapInit, TierOf, Tier
<1>2. purse \in Purse BY CapAssumption DEF SnapInit, Purse
<1>3. cited \in SUBSET {c[2] : c \in Call} BY DEF SnapInit
<1>4. DOMAIN cache = {} BY DEF SnapInit
<1> QED BY <1>1, <1>2, <1>3, <1>4 DEF SnapInit, Inv, TypeOK, Remembered

\* No step makes it wrong.
LEMMA InvNext == Inv /\ [SnapNext]_snapVars => Inv'
<1> SUFFICES ASSUME Inv, [SnapNext]_snapVars PROVE Inv'
  OBVIOUS
<1> USE DEF Inv
<1>1. CASE UNCHANGED snapVars
  <2>1. Exhausted(purse)' = Exhausted(purse) BY <1>1 DEF snapVars, Exhausted
  <2> QED BY <1>1, <2>1, StillKeeps DEF snapVars, TypeOK
<1>2. CASE Probe
  <2>1. NoResource \in Resource BY DEF NoResource, Resource, Kind, Site
  <2>2. {<<d, NoResource>> : d \in Catalog} \subseteq Catalog \X Resource BY <2>1
  <2> QED BY <1>2, <2>2, CheckKeeps DEF Probe, TypeOK
<1>3. CASE \E t \in Tier : Remember(t)
  <2>1. PICK t \in Tier : Remember(t) BY <1>3
  <2> QED BY <2>1, RaiseKeeps DEF Remember, TypeOK
<1>4. CASE Door
  <2>1. NoResource \in Resource BY DEF NoResource, Resource, Kind, Site
  <2>2. {<<Reply, NoResource>>} \subseteq Catalog \X Resource BY <2>1, DeclAssumption
  <2> QED BY <1>4, <2>2, CheckKeeps DEF Door, TypeOK
<1>5. CASE ModelCall
  <2>1. Remembered' /\ \A k \in DOMAIN cache' : cache'[k] \in Verdict
    BY <1>5, ForgetKeeps DEF ModelCall, Billed, Forget
  <2>2. purse' \in Purse BY <1>5, UpType, CapAssumption DEF ModelCall, TypeOK, Purse
  <2>3. moved' \in BOOLEAN BY <1>5 DEF ModelCall, Billed, Forget
  <2> QED BY <1>5, <2>1, <2>2, <2>3 DEF ModelCall, TypeOK
<1>6. CASE \E c \in Call : ToolCall(c)
  <2>1. PICK c \in Call : ToolCall(c) BY <1>6
  <2>2. {c} \subseteq Catalog \X Resource BY CallAssumption
  <2>3. Remembered' /\ \A k \in DOMAIN cache' : cache'[k] \in Verdict
    BY <2>1, <2>2, CheckKeeps DEF ToolCall
  <2> QED BY <2>1, <2>3 DEF ToolCall, TypeOK
<1>7. CASE \E t \in Tier, c \in Call : c[2].composed /\ ToolResult(t, c[2])
  <2>1. PICK t \in Tier, c \in Call : ToolResult(t, c[2]) BY <1>7
  <2>2. cited' \in SUBSET {d[2] : d \in Call}
    BY <2>1 DEF ToolResult, Recorded, TypeOK
  <2>3. Remembered' /\ (\A k \in DOMAIN cache' : cache'[k] \in Verdict)
        /\ taint' \in Tier /\ moved' \in BOOLEAN
    BY <2>1, RaiseKeeps DEF ToolResult
  <2> QED BY <2>1, <2>2, <2>3 DEF ToolResult, TypeOK
<1>8. CASE \E here \in BOOLEAN : SpentElsewhere(here)
  <2>1. PICK here \in BOOLEAN : SpentElsewhere(here) BY <1>8
  <2>2. purse' \in Purse
    BY <2>1, UpType, CapAssumption DEF SpentElsewhere, TypeOK, Purse
  <2>3. Exhausted(purse)' = Exhausted(purse') BY <2>1 DEF SpentElsewhere, Exhausted
  <2>4. moved' \in BOOLEAN /\ (~moved' => ~moved /\ Exhausted(purse)' = Exhausted(purse))
    BY <2>1, <2>3 DEF SpentElsewhere, TypeOK
  <2>5. Remembered' /\ \A k \in DOMAIN cache' : cache'[k] \in Verdict
    BY <2>1, <2>4, StillKeeps DEF SpentElsewhere
  <2> QED BY <2>1, <2>2, <2>4, <2>5 DEF SpentElsewhere, TypeOK
<1>9. CASE \E month \in {0, purse.month} : Midnight(month)
  <2>1. PICK month \in {0, purse.month} : Midnight(month) BY <1>9
  <2>2. purse' \in Purse BY <2>1, CapAssumption DEF Midnight, TypeOK, Purse
  <2>3. Exhausted(purse)' = Exhausted(purse') BY <2>1 DEF Midnight, Exhausted
  <2>4. moved' \in BOOLEAN /\ (~moved' => ~moved /\ Exhausted(purse)' = Exhausted(purse))
    BY <2>1, <2>3 DEF Midnight, TypeOK
  <2>5. Remembered' /\ \A k \in DOMAIN cache' : cache'[k] \in Verdict
    BY <2>1, <2>4, StillKeeps DEF Midnight
  <2> QED BY <2>1, <2>2, <2>4, <2>5 DEF Midnight, TypeOK
<1> QED BY <1>1, <1>2, <1>3, <1>4, <1>5, <1>6, <1>7, <1>8, <1>9 DEF SnapNext

\* The memo is right in every behaviour.
LEMMA InvAlways == SnapSpec => []Inv
BY InvInit, InvNext, PTL DEF SnapSpec

\* Every variable of the turn's permissions has its type.
THEOREM SnapshotTypeCorrect == SnapSpec => []TypeOK
<1>1. Inv => TypeOK BY DEF Inv
<1> QED BY <1>1, InvAlways, PTL

\* What check() answers from its memo is what the kernel would answer now, as long
\* as nobody else's money has moved.
THEOREM CacheIsCurrent == SnapSpec => []CachedIsCurrent
<1>1. ASSUME Inv PROVE CachedIsCurrent
  <2>1. SUFFICES ASSUME ~moved, NEW c \in Call \cup {<<Reply, NoResource>>}
                 PROVE  Answer(c) = Decide(Ctx, Asks(c[1], c[2]))
    BY DEF CachedIsCurrent
  <2>2. CASE Key(c) \notin DOMAIN cache BY <2>2 DEF Answer
  <2>3. CASE Key(c) \in DOMAIN cache
    <3>1. PICK d \in Catalog, resource \in Resource, q \in BOOLEAN :
            /\ Key(c) = <<d, resource, taint, q>>
            /\ cache[Key(c)] = Decide(Ctx, AsksAs(d, resource, q))
      BY <1>1, <2>1, <2>3 DEF Inv, Remembered
    <3>2. d = c[1] /\ resource = c[2] /\ q = Quoted(c[2]) BY <3>1 DEF Key
    <3> QED BY <2>3, <3>1, <3>2 DEF Answer, Asks, AsksAs
  <2> QED BY <2>2, <2>3
<1> QED BY <1>1, InvAlways, PTL

\* No sealed file, whatever it holds, eases a verdict of the floor but by a grant
\* and by the owner's question above a ceiling it lowered.
THEOREM FilesOnlyTighten == SnapSpec => []OnlyTightens
BY SnapshotTypeCorrect, TightensAlways, PTL

\* A member of a room reaches what was granted to that room by name, and nothing
\* else of the host.
THEOREM RoomsStayClosed == SnapSpec => []RoomsAreClosed
BY SnapshotTypeCorrect, RoomsAlways, PTL

\* No tier of taint eases a verdict, but by the owner's question above the ceiling.
THEOREM TaintNeverEases == SnapSpec => []TaintOnlyTightens
BY SnapshotTypeCorrect, TaintAlways, PTL
=============================================================================
