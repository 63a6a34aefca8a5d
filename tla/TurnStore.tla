----------------------------- MODULE TurnStore -----------------------------
(***************************************************************************)
(* The durable record of a turn: the `turns` and `turn_leases` tables of   *)
(* core/turns/store.ts, and the processes that open the home and claim,    *)
(* drive, suspend, release, renew and finish the turns recorded there      *)
(* (agent/loop/entry.ts, engine.ts and durability.ts).                     *)
(*                                                                         *)
(* The grain is SQLite's: one statement, or one transaction, is one step,  *)
(* and a step of another process may fall between any two of them.  In     *)
(* particular `resumeTurn` reads the row, then claims it with one UPDATE,  *)
(* then reads the claimed row back; `reclaim` reads every running row and  *)
(* interrupts them one UPDATE at a time; `continueTurn` reads the row and  *)
(* grants in a later transaction.                                          *)
(*                                                                         *)
(* Claim tokens are unique (mintHolderId), so they are numbered in the     *)
(* order they are minted, and 0 is SQL's NULL.  The transcript of a row is *)
(* abstracted to `author`, the token of the claim that wrote it.           *)
(***************************************************************************)
EXTENDS Naturals, FiniteSets

CONSTANTS
  Turn,        \* ids of turns
  Proc,        \* processes that open the home: the gateway, a CLI, a worker
  MaxResumes,  \* MAX_RESUMES: crash recoveries before a row is closed
  MaxDead      \* MAX_CONSECUTIVE_DEAD_LEASES: dead leases before a cooldown

CONSTANTS      \* Bounds of the model; the code has none of the four
  MaxToken,    \* claims and grants minted
  MaxLease,    \* the last lease index a grant may open
  MaxCalls,    \* tool calls of one lease
  MaxCrash     \* crashes of processes

ASSUME LimitsAreNaturals == MaxResumes \in Nat /\ MaxDead \in Nat
ASSUME BoundsAreNaturals ==
         MaxToken \in Nat /\ MaxLease \in Nat /\ MaxCalls \in Nat /\ MaxCrash \in Nat

VARIABLES
  row,       \* the `turns` row of each turn
  lease,     \* the `turn_leases` rows of each turn
  next,      \* the next claim token
  up,        \* the processes that are running
  minted,    \* the tokens minted by the current incarnation of each process
  drive,     \* what each process is doing with each turn, in its memory
  scan,      \* the rows `reclaim` has read and not yet judged, per process
  crashes,   \* crashes so far
  hist       \* history: see History

vars == <<row, lease, next, up, minted, drive, scan, crashes, hist>>

----------------------------------------------------------------------------

NoToken == 0

Status == {"absent", "runnable", "running", "waiting", "interrupted",
           "continuable", "done"}

\* What a suspended row waits for.  Only an approval changes what a resume does.
Barrier == {"none", "event", "approval"}

\* ContinuableClass, split as DEAD_LEASE_CLASSES splits it; "end" is a finish.
Class == {"none", "dead", "other", "end"}

LeaseIndex == 0 .. MaxLease

Row == [status : Status, token : Nat, barrier : Barrier, built : BOOLEAN,
        resumes : Nat, calls : Nat, idx : Nat, streak : Nat, cooled : BOOLEAN,
        leases : Nat, lifeCalls : Nat, stale : BOOLEAN, author : Nat]

NoRow == [status |-> "absent", token |-> NoToken, barrier |-> "none",
          built |-> FALSE, resumes |-> 0, calls |-> 0, idx |-> 0, streak |-> 0,
          cooled |-> FALSE, leases |-> 0, lifeCalls |-> 0, stale |-> FALSE,
          author |-> NoToken]

Lease == [state : {"none", "open", "closed"}, calls : Nat, class : Class]

NoLease == [state |-> "none", calls |-> 0, class |-> "none"]

\* pc: idle; seen (resumeTurn has read the row); taken (claimed, not read back);
\* held (read back); opening (preamble or reconcile, before the first
\* checkpoint); round (in runRounds); renewing (continueTurn has read the row).
Pc == {"idle", "seen", "taken", "held", "opening", "round", "renewing"}

Drive == [pc : Pc, token : Nat, first : BOOLEAN, woken : BOOLEAN,
          barrier : Barrier, counts : BOOLEAN, built : BOOLEAN, resumes : Nat,
          calls : Nat, idx : Nat, author : Nat]

Idle == [pc |-> "idle", token |-> NoToken, first |-> FALSE, woken |-> FALSE,
         barrier |-> "none", counts |-> FALSE, built |-> FALSE, resumes |-> 0,
         calls |-> 0, idx |-> 0, author |-> NoToken]

Candidate == [turn : Turn, token : Nat, stale : BOOLEAN]

(***************************************************************************)
(* History, read by properties only:                                       *)
(*   stolen   the turns some reclaim took from a process that was alive    *)
(*   rewound  the turns granted from a read made before an earlier grant   *)
(*   tried    crash recoveries started                                     *)
(*   booked   crash recoveries whose first checkpoint landed               *)
(***************************************************************************)
History == [stolen : SUBSET Turn, rewound : SUBSET Turn,
            tried : [Turn -> Nat], booked : [Turn -> Nat]]

----------------------------------------------------------------------------
(* Liveness of a holder (core/lock/durable.ts heldBy).                     *)

Alive(token) == \E p \in Proc : token \in minted[p]

\* The pid of the row is running and the row is not past the stale horizon.
HeldBy(token, stale) == Alive(token) /\ ~stale

\* Between reading a row and driving it, or granting its next lease, a process
\* runs synchronous code: other processes may step in, its own tasks may not.
Synchronous == {"seen", "taken", "held", "renewing"}

\* Nor does it run anything else while reclaim's synchronous loop is running.
Free(p) ==
  /\ p \in up
  /\ scan[p] = {}
  /\ \A t \in Turn : drive[p][t].pc \notin Synchronous

----------------------------------------------------------------------------
(* Statements.  Every write refreshes updated_at, hence stale |-> FALSE.   *)

\* Faults: a fence in which NULL equals NULL, and one on the status instead.
Fault_FenceMatchesNull(p, t) == row[t].token = drive[p][t].token
Fault_FenceOnStatus(p, t) == row[t].status = "running"

\* claim_token = @claimToken: in SQL, NULL equals nothing, not even NULL.
Fenced(p, t) == row[t].token # NoToken /\ row[t].token = drive[p][t].token

\* Fault: a running row can be claimed.
Fault_ClaimableRunning == {"runnable", "running", "waiting", "interrupted"}

Claimable == {"runnable", "waiting", "interrupted"}

\* The lifetime rollup with the current lease folded in (foldLifetime).
Folded(r, calls) ==
  [r EXCEPT !.leases = @ + 1, !.lifeCalls = @ + calls]

Unclaimed(r) == [r EXCEPT !.token = NoToken, !.stale = FALSE]

\* Fault: the checkpoint leaves the spent resumes out.
Fault_SavedWithoutResumes(r, d) ==
  [r EXCEPT !.author = d.token, !.built = d.built, !.calls = d.calls, !.stale = FALSE]

\* checkpointStmt: the transcript and the counters of the run.
Saved(r, d) == [r EXCEPT !.author = d.token, !.built = d.built,
                         !.resumes = d.resumes, !.calls = d.calls,
                         !.stale = FALSE]

\* suspendStmt.
Suspended(r, d, b) ==
  [Unclaimed(Saved(r, d)) EXCEPT !.status = "waiting", !.barrier = b]

\* Fault: the lease is folded even when it never started.
Fault_FinishedFoldsAlways(r, d) ==
  [Unclaimed(Saved(Folded(r, d.calls), d)) EXCEPT !.status = "done"]

\* finish: the current lease is folded only when it has started executing.
Finished(r, d) ==
  [Unclaimed(Saved(IF d.built THEN Folded(r, d.calls) ELSE r, d))
     EXCEPT !.status = "done"]

\* releaseContinuable: folds always, and records the dead streak.
Released(r, d, streak) ==
  [Unclaimed(Saved(Folded(r, d.calls), d))
     EXCEPT !.status = "continuable", !.streak = streak, !.cooled = FALSE]

Closed(ls, i, calls, class) ==
  [ls EXCEPT ![i] = [state |-> "closed", calls |-> calls, class |-> class]]

IsDead(l) == l.state = "closed" /\ l.class = "dead" /\ l.calls = 0

(***************************************************************************)
(* deadStreakForRelease: the length of the unbroken run of dead leases at  *)
(* the end of the closed leases, newest first, plus the one now ending.    *)
(***************************************************************************)
ClosedIndexes(ls) == {i \in LeaseIndex : ls[i].state = "closed"}

DeadTail(ls) ==
  Cardinality({i \in ClosedIndexes(ls) :
                 \A j \in ClosedIndexes(ls) : j >= i => IsDead(ls[j])})

\* Fault: only the lease now ending is counted.
Fault_StreakForgets(ls, class, calls) ==
  IF class = "dead" /\ calls = 0 THEN 1 ELSE 0

DeadStreak(ls, class, calls) ==
  IF class = "dead" /\ calls = 0 THEN 1 + DeadTail(ls) ELSE 0

----------------------------------------------------------------------------

Init ==
  /\ row = [t \in Turn |-> NoRow]
  /\ lease = [t \in Turn |-> [i \in LeaseIndex |-> NoLease]]
  /\ next = 1
  /\ up = Proc
  /\ minted = [p \in Proc |-> {}]
  /\ drive = [p \in Proc |-> [t \in Turn |-> Idle]]
  /\ scan = [p \in Proc |-> {}]
  /\ crashes = 0
  /\ hist = [stolen |-> {}, rewound |-> {}, tried |-> [t \in Turn |-> 0],
             booked |-> [t \in Turn |-> 0]]

Mint(p) ==
  /\ next <= MaxToken
  /\ next' = next + 1
  /\ minted' = [minted EXCEPT ![p] = @ \cup {next}]

Machine == <<up, scan, crashes>>

SetRow(t, r) == row' = [row EXCEPT ![t] = r]

\* INSERT OR IGNORE: a lease row that is already there stays as it is.
Opened(t, i) ==
  IF lease[t][i].state = "none" THEN [lease EXCEPT ![t][i].state = "open"] ELSE lease

SetDrive(p, t, d) == drive' = [drive EXCEPT ![p][t] = d]

\* What a run holds in memory after reading the row it has claimed.
Loaded(d, r) ==
  [d EXCEPT !.pc = "held", !.token = r.token, !.built = r.built,
            !.resumes = r.resumes, !.calls = r.calls]

----------------------------------------------------------------------------
(* Entering: a turn is queued, or is created already running.              *)

Enqueue(t) ==
  /\ \E p \in Proc : Free(p)
  /\ row[t].status = "absent"
  /\ SetRow(t, [NoRow EXCEPT !.status = "runnable"])
  /\ lease' = Opened(t, 0)
  /\ UNCHANGED <<next, minted, drive, hist, Machine>>

RunTurn(p, t) ==
  /\ Free(p)
  /\ row[t].status = "absent"
  /\ Mint(p)
  /\ SetRow(t, [NoRow EXCEPT !.status = "running", !.token = next])
  /\ SetDrive(p, t, [Idle EXCEPT !.pc = "opening", !.token = next])
  /\ lease' = Opened(t, 0)
  /\ UNCHANGED <<hist, Machine>>

(* resumeTurn: read, claim, read back, judge, drive.                       *)

\* firstAttempt and wasWaiting are decided on this read, before the claim.
Look(p, t) ==
  /\ Free(p)
  /\ drive[p][t].pc = "idle"
  /\ row[t].status \notin {"absent", "done", "continuable"}
  /\ SetDrive(p, t, [Idle EXCEPT
       !.pc = "seen",
       !.first = row[t].status = "runnable" /\ ~row[t].built,
       !.woken = row[t].status = "waiting" \/ row[t].barrier # "none",
       !.barrier = row[t].barrier])
  /\ UNCHANGED <<row, lease, next, minted, hist, Machine>>

Claim(p, t) ==
  /\ drive[p][t].pc = "seen"
  /\ row[t].status \in Claimable
  /\ Mint(p)
  /\ SetRow(t, [row[t] EXCEPT !.status = "running", !.token = next,
                              !.barrier = "none", !.stale = FALSE])
  /\ SetDrive(p, t, [drive[p][t] EXCEPT !.pc = "taken"])
  /\ UNCHANGED <<lease, hist, Machine>>

\* The UPDATE changed no row: another process was faster.
ClaimLost(p, t) ==
  /\ drive[p][t].pc = "seen"
  /\ row[t].status \notin Claimable
  /\ SetDrive(p, t, Idle)
  /\ UNCHANGED <<row, lease, next, minted, hist, Machine>>

\* claim() returns get(id): whatever the row says by now, its token included.
ReadBack(p, t) ==
  /\ drive[p][t].pc = "taken"
  /\ SetDrive(p, t, Loaded(drive[p][t], row[t]))
  /\ UNCHANGED <<row, lease, next, minted, hist, Machine>>

\* An approval is still open and another has been decided: suspend again.
Resuspend(p, t) ==
  /\ drive[p][t].pc = "held"
  /\ drive[p][t].barrier = "approval"
  /\ row[t].status = "running" /\ Fenced(p, t)
  /\ SetRow(t, Suspended(row[t], drive[p][t], "approval"))
  /\ SetDrive(p, t, Idle)
  /\ UNCHANGED <<lease, next, minted, hist, Machine>>

EndTurn(p, t) ==
  /\ Fenced(p, t)
  /\ SetRow(t, Finished(row[t], drive[p][t]))
  /\ lease' = IF drive[p][t].built
              THEN [lease EXCEPT ![t] = Closed(@, row[t].idx, drive[p][t].calls, "end")]
              ELSE lease
  /\ SetDrive(p, t, Idle)
  /\ UNCHANGED <<next, minted, hist, Machine>>

\* model_changed, and the rows of scripts and capped jobs no model has seen.
Refuse(p, t) ==
  /\ drive[p][t].pc = "held"
  /\ EndTurn(p, t)

Exhausted(p, t) ==
  /\ drive[p][t].pc = "held"
  /\ drive[p][t].resumes >= MaxResumes
  /\ EndTurn(p, t)

\* spendeIlBudget: a recovery spends one resume, in memory for now.
Start(p, t) ==
  LET spends == ~drive[p][t].first /\ ~drive[p][t].woken
  IN  /\ drive[p][t].pc = "held"
      /\ drive[p][t].resumes < MaxResumes
      /\ SetDrive(p, t, [drive[p][t] EXCEPT
           !.pc = "opening", !.counts = spends,
           !.resumes = IF spends THEN @ + 1 ELSE @])
      /\ hist' = IF spends THEN [hist EXCEPT !.tried[t] = @ + 1] ELSE hist
      /\ UNCHANGED <<row, lease, next, minted, Machine>>

(* drive: the preamble or the reconciliation, the rounds, the endings.     *)

ToolCall(p, t) ==
  /\ Free(p)
  /\ drive[p][t].pc \in {"opening", "round"}
  /\ drive[p][t].built
  /\ drive[p][t].calls < MaxCalls
  /\ SetDrive(p, t, [drive[p][t] EXCEPT !.calls = @ + 1])
  /\ UNCHANGED <<row, lease, next, minted, hist, Machine>>

\* The first checkpoint is the first write that carries the spent resume.
Checkpoint(p, t) ==
  LET d == [drive[p][t] EXCEPT !.pc = "round", !.built = TRUE, !.counts = FALSE]
  IN  /\ Free(p)
      /\ drive[p][t].pc \in {"opening", "round"}
      /\ Fenced(p, t)
      /\ SetRow(t, Saved(row[t], d))
      /\ SetDrive(p, t, d)
      /\ hist' = IF drive[p][t].counts
                 THEN [hist EXCEPT !.booked[t] = @ + 1] ELSE hist
      /\ UNCHANGED <<lease, next, minted, Machine>>

Suspend(p, t, b) ==
  /\ Free(p)
  /\ drive[p][t].pc = "round"
  /\ row[t].status = "running" /\ Fenced(p, t)
  /\ SetRow(t, Suspended(row[t], drive[p][t], b))
  /\ SetDrive(p, t, Idle)
  /\ UNCHANGED <<lease, next, minted, hist, Machine>>

Finish(p, t) ==
  /\ Free(p)
  /\ drive[p][t].pc = "round"
  /\ EndTurn(p, t)

Release(p, t, class) ==
  LET d == drive[p][t]
      streak == DeadStreak(lease[t], class, d.calls)
  IN  /\ Free(p)
      /\ d.pc = "round"
      /\ row[t].status = "running" /\ Fenced(p, t)
      /\ SetRow(t, Released(row[t], d, streak))
      /\ lease' = [lease EXCEPT ![t] = Closed(@, row[t].idx, d.calls, class)]
      /\ SetDrive(p, t, Idle)
      /\ UNCHANGED <<next, minted, hist, Machine>>

\* A fenced write changed no row: the claim is gone, the run stops.
LoseClaim(p, t) ==
  /\ drive[p][t].pc = "held" \/ (Free(p) /\ drive[p][t].pc \in {"opening", "round"})
  /\ ~Fenced(p, t)
  /\ SetDrive(p, t, Idle)
  /\ UNCHANGED <<row, lease, next, minted, hist, Machine>>

\* The preamble throws, or the last write does: nobody is driving the row, and
\* it stays `running` in the name of a process that lives on.
Abandon(p, t) ==
  /\ Free(p)
  /\ drive[p][t].pc \in {"opening", "round"}
  /\ SetDrive(p, t, Idle)
  /\ UNCHANGED <<row, lease, next, minted, hist, Machine>>

(* continueTurn: read the row and judge it, then grant the next lease.     *)

LookContinue(p, t) ==
  /\ Free(p)
  /\ drive[p][t].pc = "idle"
  /\ row[t].status = "continuable"
  /\ row[t].built
  /\ row[t].streak >= MaxDead => row[t].cooled
  /\ SetDrive(p, t, [Idle EXCEPT !.pc = "renewing", !.built = TRUE,
                       !.idx = row[t].idx, !.resumes = row[t].resumes,
                       !.author = row[t].author])
  /\ UNCHANGED <<row, lease, next, minted, hist, Machine>>

\* The transcript and counters granted are those the earlier read returned.
Grant(p, t) ==
  LET d == drive[p][t]
      i == row[t].idx + 1
  IN  /\ d.pc = "renewing"
      /\ row[t].status = "continuable"
      /\ i <= MaxLease
      /\ Mint(p)
      /\ SetRow(t, [row[t] EXCEPT
           !.status = "running", !.token = next, !.idx = i, !.streak = 0,
           !.built = d.built, !.resumes = d.resumes, !.calls = 0,
           !.author = d.author, !.stale = FALSE])
      /\ lease' = Opened(t, i)
      /\ SetDrive(p, t, [d EXCEPT !.pc = "opening", !.token = next])
      /\ hist' = IF d.idx # row[t].idx
                 THEN [hist EXCEPT !.rewound = @ \cup {t}] ELSE hist
      /\ UNCHANGED Machine

GrantLost(p, t) ==
  /\ drive[p][t].pc = "renewing"
  /\ row[t].status # "continuable"
  /\ SetDrive(p, t, Idle)
  /\ UNCHANGED <<row, lease, next, minted, hist, Machine>>

(* The clock, and the event a suspended turn was waiting for.              *)

Wake(t) ==
  /\ \E p \in Proc : Free(p)
  /\ row[t].status = "waiting"
  /\ SetRow(t, [row[t] EXCEPT !.status = "runnable", !.stale = FALSE])
  /\ UNCHANGED <<lease, next, minted, drive, hist, Machine>>

\* DEAD_ROUTE_COOLDOWN_MS has passed since the last release.
Cool(t) ==
  /\ row[t].status = "continuable" /\ ~row[t].cooled
  /\ SetRow(t, [row[t] EXCEPT !.cooled = TRUE])
  /\ UNCHANGED <<lease, next, minted, drive, hist, Machine>>

\* Nothing has written the row for longer than heldBy's horizon: hours, which no
\* synchronous stretch of code lasts.
Age(t) ==
  /\ row[t].status = "running" /\ ~row[t].stale
  /\ \A p \in Proc : drive[p][t].pc \notin Synchronous
  /\ SetRow(t, [row[t] EXCEPT !.stale = TRUE])
  /\ UNCHANGED <<lease, next, minted, drive, hist, Machine>>

(* Processes die and boot; every boot reclaims.                            *)

Crash(p) ==
  /\ p \in up
  /\ crashes < MaxCrash
  /\ crashes' = crashes + 1
  /\ up' = up \ {p}
  /\ minted' = [minted EXCEPT ![p] = {}]
  /\ drive' = [drive EXCEPT ![p] = [t \in Turn |-> Idle]]
  /\ scan' = [scan EXCEPT ![p] = {}]
  /\ UNCHANGED <<row, lease, next, hist>>

\* Fault: the boot looks only at rows past the stale horizon.
Fault_RunningAndStale == {t \in Turn : row[t].status = "running" /\ row[t].stale}

\* staleStmt: every running row, with its holder and the time of its last write.
Running == {t \in Turn : row[t].status = "running"}

Boot(p) ==
  /\ p \notin up
  /\ up' = up \cup {p}
  /\ scan' = [scan EXCEPT ![p] =
       {[turn |-> t, token |-> row[t].token, stale |-> row[t].stale] : t \in Running}]
  /\ UNCHANGED <<row, lease, next, minted, drive, crashes, hist>>

\* The row is judged as it was read, and interrupted as it now is.
ReclaimRow(p, c) ==
  LET t == c.turn
  IN  /\ p \in up
      /\ c \in scan[p]
      /\ ~HeldBy(c.token, c.stale)
      /\ row[t].status = "running"
      /\ SetRow(t, [Unclaimed(row[t]) EXCEPT !.status = "interrupted"])
      /\ scan' = [scan EXCEPT ![p] = @ \ {c}]
      /\ hist' = [hist EXCEPT
           !.stolen = IF Alive(row[t].token) THEN @ \cup {t} ELSE @]
      /\ UNCHANGED <<lease, next, minted, drive, up, crashes>>

SkipRow(p, c) ==
  /\ p \in up
  /\ c \in scan[p]
  /\ HeldBy(c.token, c.stale) \/ row[c.turn].status # "running"
  /\ scan' = [scan EXCEPT ![p] = @ \ {c}]
  /\ UNCHANGED <<row, lease, next, minted, drive, up, crashes, hist>>

----------------------------------------------------------------------------

Resume(p, t) ==
  \/ Look(p, t) \/ Claim(p, t) \/ ClaimLost(p, t) \/ ReadBack(p, t)
  \/ Resuspend(p, t) \/ Refuse(p, t) \/ Exhausted(p, t) \/ Start(p, t)

Run(p, t) ==
  \/ RunTurn(p, t) \/ ToolCall(p, t) \/ Checkpoint(p, t)
  \/ \E b \in {"event", "approval"} : Suspend(p, t, b)
  \/ Finish(p, t)
  \/ \E class \in {"dead", "other"} : Release(p, t, class)
  \/ LoseClaim(p, t) \/ Abandon(p, t)

Renew(p, t) == LookContinue(p, t) \/ Grant(p, t) \/ GrantLost(p, t)

World(t) == Enqueue(t) \/ Wake(t) \/ Cool(t) \/ Age(t)

Reclaim(p) == \E c \in scan[p] : ReclaimRow(p, c) \/ SkipRow(p, c)

Process(p) == Crash(p) \/ Boot(p) \/ Reclaim(p)

Next ==
  \/ \E p \in Proc, t \in Turn : Resume(p, t) \/ Run(p, t) \/ Renew(p, t)
  \/ \E t \in Turn : World(t)
  \/ \E p \in Proc : Process(p)

Spec == Init /\ [][Next]_vars

----------------------------------------------------------------------------
(* Properties.                                                             *)

\* Every variable has its type, and the numbers stay under their bounds.
TypeOK ==
  /\ row \in [Turn -> Row]
  /\ lease \in [Turn -> [LeaseIndex -> Lease]]
  /\ next \in Nat
  /\ up \in SUBSET Proc
  /\ minted \in [Proc -> SUBSET Nat]
  /\ drive \in [Proc -> [Turn -> Drive]]
  /\ scan \in [Proc -> SUBSET Candidate]
  /\ crashes \in Nat
  /\ hist \in History

\* A row has a claim token exactly while it is running: the comment on every
\* statement that releases a claim relies on it, because the checkpoint and the
\* finish are fenced on the token alone and never look at the status.
OnlyRunningRowsAreClaimed ==
  \A t \in Turn : row[t].token # NoToken <=> row[t].status = "running"

Driving == {"taken", "held", "opening", "round"}

\* Unless some reclaim has taken the turn from a live process, at most one
\* process is driving it, and the row carries that process's own token.
OneDriver ==
  \A t \in Turn : t \notin hist.stolen =>
    \A p, q \in Proc :
      drive[p][t].pc \in Driving =>
        /\ row[t].token \in minted[p]
        /\ drive[q][t].pc \in Driving => q = p

\* The calls on record, each named by its lease and its place in it.
CallsOf(ls) == UNION {{i} \X (1 .. ls[i].calls) : i \in ClosedIndexes(ls)}

\* The lifetime rollup is the fold of the closed lease rows (recomputeLifetime):
\* a fenced-out release or finish folds nothing and closes nothing.
LifetimeIsFold ==
  \A t \in Turn :
    /\ row[t].leases = Cardinality(ClosedIndexes(lease[t]))
    /\ row[t].lifeCalls = Cardinality(CallsOf(lease[t]))

\* A continuable row's streak is the dead tail of its closed leases, so that the
\* circuit breaker of continueTurn counts across grants and restarts.
StreakIsAudited ==
  \A t \in Turn : row[t].status = "continuable" => row[t].streak = DeadTail(lease[t])

\* Unless the turn has been stolen or rewound, the row has booked every crash
\* recovery that reached its first checkpoint: never more than MAX_RESUMES.
RecoveriesAreBooked ==
  \A t \in Turn : t \notin hist.stolen \cup hist.rewound =>
    hist.booked[t] = row[t].resumes /\ hist.booked[t] <= MaxResumes

\* The figures a row carries across leases, crashes and grants agree with the
\* lease rows and with what really happened: the budgets and the circuit breaker
\* of a turn are judged on them, long after the lease that wrote them.
BooksAgree == LifetimeIsFold /\ StreakIsAudited /\ RecoveriesAreBooked

\* A finished turn is never written again by whoever still believes it is his,
\* but for its delivery and taint, which are not fenced and not modelled here.
DoneIsFinal == [][\A t \in Turn : row[t].status = "done" => row'[t] = row[t]]_row

\* A later claim's transcript is replaced by an earlier one's only when a grant
\* rewinds the row: every other write is fenced.
FencedTranscript ==
  [][\A t \in Turn : row'[t].author < row[t].author => t \in hist'.rewound]_vars

----------------------------------------------------------------------------
(* The record implements the lifecycle it promises.                        *)

PhaseOf(status) ==
  CASE status = "absent" -> "absent"
    [] status \in Claimable -> "owed"
    [] status = "running" -> "claimed"
    [] status = "continuable" -> "yielded"
    [] status = "done" -> "done"

Lifecycle == INSTANCE TurnLifecycle WITH
  phase  <- [t \in Turn |-> PhaseOf(row[t].status)],
  ticket <- [t \in Turn |-> row[t].token],
  issued <- next - 1,
  author <- [t \in Turn |-> row[t].author]

\* Whatever processes crash, boot, steal and race, the table as a whole moves
\* only as the lifecycle allows.
ImplementsLifecycle == Lifecycle!Spec

----------------------------------------------------------------------------
(* A crash is recovered.                                                   *)

(***************************************************************************)
(* Fairness: a supervisor restarts the gateway (the installed service), and *)
(* reclaim is a synchronous loop that the boot runs to its end.            *)
(***************************************************************************)
FairSpec ==
  Spec /\ \A p \in Proc : WF_vars(Boot(p)) /\ WF_vars(Reclaim(p))

\* A row left running by a process that died does not stay running for ever.
CrashIsRecovered ==
  \A t \in Turn :
    (row[t].status = "running" /\ ~Alive(row[t].token)) ~> row[t].status # "running"

----------------------------------------------------------------------------
(* What the comments of the code say of it, and the code does not do: no    *)
(* run checks these, the README tells the trace that refutes each.          *)

\* types.ts on MAX_RESUMES and entry.ts on firstAttempt: a row that kills the
\* process in its preamble is not "retried by every boot for ever".
RecoveryIsBounded == \A t \in Turn : hist.tried[t] <= MaxResumes

\* durability.ts tells the owner "Il lavoro fatto fin qui e' salvato nel turno":
\* what a lease has saved is not replaced by what an earlier one had.
SavedWorkIsKept == [][\A t \in Turn : row'[t].author >= row[t].author]_row
=============================================================================
