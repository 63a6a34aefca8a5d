# Muffin: a verification project

This directory models the part of Muffin that decides whether the owner's work
survives and whether what he was asked, told and promised is true: the durable
turn and the record of its tool calls, the lanes that take turns at the model,
the scheduler and the promises, the questions and their answers, the way of a
message from the connector to its answer, the memory that is mined from it, and
the kernel that decides what a turn may do. The modules are translated from the
TypeScript source; `PROJECT.json` maps every definition to the lines it stands
for, lists what each run checks, and names for every property a mutated
definition that breaks it.

- [The system](#the-system): parts, state, interactions, what is hard
- [The modules](#the-modules): which module models what, and how
- [The runs](#the-runs): what each shows, bounds, fairness
- [The proofs](#the-proofs)
- [What the models disagree with](#what-the-models-disagree-with)
- [What is not modelled](#what-is-not-modelled)
- [Plan](#plan)

To use it: `tlc -config TurnStore.cfg MCTurnStore.tla` for a run,
`tlapm TurnStore_proofs.tla` for the proofs.

## The system

Muffin is a personal agent. One home directory holds one SQLite database. A
*gateway* process serves the connectors, the scheduler and the lane; a REPL,
one-shot commands and workers open the same database at the same time. A *turn*
is one piece of work for the owner, for a scheduled job or for a member of a
group. A connector or a job creates it, an agent loop of model calls and tool
calls drives it, and the `turns` table records it, so that a crash, a suspension
or the end of a lease does not lose it.

### Components, state and operations

| Component | State it keeps | Operations | What makes it correct | Module |
|---|---|---|---|---|
| Turn store (`core/turns/store.ts`) | `turns`, `turn_leases` | create, enqueue, claim, checkpoint, suspend, wake, release, grant, finish, reclaim | a token is on a row exactly while it runs; one driver; done is final; the books agree | `TurnStore` |
| Entry and durability (`agent/loop/entry.ts`, `durability.ts`) | the run's counters, transcript and claim, in memory | run, enqueue, resume, continue, reconcile, checkpoint, suspend, release, finish | recoveries and leases are counted; only the claim writes | `TurnStore`, `TurnExecution` |
| Tool calls (`agent/loop/tool-call.ts`, `round.ts`) | `turn_tool_calls`, the durability latch, the taint | refuse, intend, reuse, run, retry, record, repair | no effect without a durable intent; what cannot be repeated is not; the transcript says what happened | `TurnExecution` |
| Holder liveness and locks (`core/lock/`) | pid, incarnation, time of the claim | heldBy, acquire, refresh, isCurrentHolder, release | the dead are found, the living are not robbed | `DurableLock` |
| Turn lane (`core/turns/lane.ts`, `agent/turn-lane.ts`) | the run in the background | tick, claim, grant, refuse, deliver, note | due rows are taken, events wake, deliveries are honest | `TurnLane` |
| Model lane (`core/turns/model-lane.ts`) and its clients | the identity of the holder | take, release, busy | the token is neither stolen nor lost | `ModelLane` |
| Forwarding (`core/gateway/forward.ts`, `control-socket.ts`) | executions, observers, the open question; connections | run, attach, cancel, ask, answer, detach, finish, evict | a turn begins once, no outcome is false, everybody is told | `Forwarding` |
| Scheduler (`core/scheduler/`, `agent/scheduler-run.ts`) | `jobs`, `job_fires` | tick, claim, bind, resolve, run, deliver, settle, markRan | one turn per occurrence; told once per fault; nothing left behind | `Scheduler` |
| Commitments (`core/scheduler/commitments.ts`) | due promises, the fire log, the send lock | pass, gate, deliver, record, defer | a promise is told, once, and a refused one is not | `Commitments` |
| Approvals (`core/approvals/store.ts`) | `approvals`, `delegation_modes` | ask, decide, take, withdraw, sweep, delegate | an answer is used once, for its own call; open questions are those a turn waits on | `Approvals` |
| Telegram and the work stage (`connectors/telegram`, `connectors/shared/ingress/`) | offset, inbox, compositions, delivery plans | poll, accept, drain, bind, run, deliver, settle, mark, recover | no update lost, none served twice, an answer accepted once | `Inbox` |
| Memory (`core/memory/consolidator.ts`, `ingest.ts`) | episodes, beliefs, proposals, the lane lock | notify, fire, run, drain, stage, judge, decide, forget, stop | nothing forgotten; believed once, as tainted as its evidence | `Memory` |
| Policy (`core/policy/`) | none: a decision over the matrix and a sealed file | decide | a file only tightens; rooms are closed; taint only tightens | `Policy` |
| Snapshot and budget (`agent/loop/permissions.ts`, `core/budget`) | taint, quoted addresses, the memo of verdicts, money spent | check, escalate, quote, record | what the memo says is what the kernel would say now | `Snapshot` |
| Activity allowance | counters of the row | reserve, check | no more calls than allowed, across leases | - |
| Undo journal, sessions, vault, database | file pre-images; history; files; the schema | | see [What is not modelled](#what-is-not-modelled) | - |
| Providers, tools, MCP, skills, sandbox, judgment, rules, configuration, tracing | external effects | | the same | - |

### How they interact

- *Shared rows.* Gateway, REPL and commands claim turns through the same table.
  A claim is a fresh token (`mintHolderId`) written by one `UPDATE`; every later
  write of the run is fenced on it. A boot reclaims the rows whose holder is dead.
- *Shared token.* Inside a process the scheduler, the turn lane, the rooms of the
  connectors and the turns forwarded by a terminal take turns at the model. The
  scheduler's identity is its own; all the others share one.
- *One beat.* The gateway's timer calls the scheduler and then the lane,
  synchronously, and on the same beat the pass of the promises. The runs they
  start are floating promises that give the token back in a `finally`.
- *Two tellers.* The answer of a job's turn is delivered by the scheduler or,
  when the turn was suspended or recovered, by the lane; the answer of a message
  by the drain or by the lane. Both note it in one column of the row.
- *Locks.* The gateway's claim, the lock of proactive sends and the lock of the
  memory are three rows of one kind (`DurableLock`).
- *Questions.* A tool call that needs leave writes a question, suspends the turn
  on it and ends; a button, a command, a delegation or a terminal answers; the
  turn is woken, resumed by the lane, and repeats the call, which takes the answer.

### What is hard here

Statements of several processes on one row, in any order; a read made before an
await or before another process's transaction and used after it; a crash between
an effect and its record; a holder that is declared dead and comes back; an
answer, a cancellation and a closed window that cross; a delivery that succeeds
and is not noted; a list made before what is on it was served; a verdict kept
past what it was given on; a queue whose first element cannot be served; a token
that must be given back on every exit of floating promises. `PROJECT.json` lists
40 such hazards, each at its line, with the properties that guard it; one, which the
code fails, has none (`RefusalIsSent`, below).

## The modules

| Module | Models | Grain of a step |
|---|---|---|
| `TurnLifecycle` | what the record of a turn promises: owed, claimed under one ticket, yielded, done | abstract |
| `TurnStore` | rows and leases, claims, recoveries, renewals, reclaim, in any number of processes | one SQL statement or transaction |
| `TurnExecution` | one turn's batch of tool calls, the write-ahead record, repair, taint | one statement, or a handler's start or end |
| `ModelLane` | the token of one process and its four kinds of client | what runs between two awaits |
| `Forwarding` | turns a terminal forwards to the gateway, as clients of `ModelLane`, with their connections | what runs between two awaits |
| `TurnLane` | the beat of the lane, the queue, the run of a row, delivery and its note | one synchronous call, or one await |
| `Scheduler` | one occurrence of a job from due to settled, with the lane on the same beat | one statement or one await |
| `DurableLock` | one row that at most one live process holds: acquire, refresh, theft past the horizon, release by pid | one statement |
| `Commitments` | the pass of the promises over two instances of `DurableLock` | one statement or one await |
| `Approvals` | the questions of a turn, its suspension, wake, resume and end | one statement, or a handler's start |
| `Inbox` | an update from the long poll to its answer: poller, drain, lane, delivery plan | one statement or one await |
| `Memory` | consolidator, batch, proposals and forgetting, over `DurableLock` | what runs between two awaits of the batch |
| `Policy` | `decide`, the matrix and the sealed file, as operators | pure |
| `Snapshot` | the memo of a turn over `Policy`, with taint, quoted addresses and the purse | one call of the snapshot, one step of others |

Each state machine has an `MC...` module for TLC (`MCForwarding` for `ModelLane`
too, `MCCommitments` and `MCMemory` for `DurableLock`); `..._proofs` modules hold
the theorems. Two of them hold those of several modules (`Lanes_proofs`,
`Commitments_proofs`); so that these can be extended together, `TurnLane` and
`Snapshot` put a prefix to the names that others have too.

**TurnStore.** `row[t]` is the row: status, claim token, barrier, whether its
context was built, resumes, calls, lease index, dead streak, rollup, whether it
is past the stale horizon. The transcript is abstracted to `author`, the token of
the claim that wrote it: that is all the properties tell apart. `lease[t]` are
the audit rows. `drive[p][t]` is what a process holds in memory, with a `pc` for
the statements that other processes can come between: `resumeTurn` reads (`seen`),
claims (`taken`), reads back (`held`), and runs the preamble (`opening`) before
its first checkpoint (`round`); `continueTurn` reads (`renewing`) and grants.
`scan[p]` is what `reclaim` has read and not yet judged. Tokens are numbered in
the order they are minted, 0 is SQL's `NULL`, and `Fenced` follows SQL in that
`NULL` equals nothing. A process that sits in a synchronous stretch runs nothing
else (`Free`). A long silence makes a live holder's row `stale`, which lets
another boot steal it. **TurnLifecycle** is its abstract specification;
`ImplementsLifecycle` is the refinement (`phase` from the status, `ticket` from
the token, `issued` from the next token).

**TurnExecution** starts where a claim has been won. `wal[c]` is the two-phase
record, `drive[p]` the run's own transcript and taint, `runs[c]` how often the
handler of a call was started. The policy decision, the judgment lane and the loop
breakers are one nondeterministic `Refuse`; every write can fail, and then sets
the latch that stops further calls. `Expire` takes the claim from a live process.

**ModelLane.** `holder` is an identity, not a client, as in the code; `pc` is what
each client does. A room that is stopped while it waits goes on to an aborted turn
and runs the same `finally` as one that got the token.

**Forwarding** extends `ModelLane` with the terminals' side of it. `exec[t]` is
the entry of an id in the map of executions (its outcome, its observers, whether
its approval waiter is set), `rows` the ids that have a row in `turns`, `call[c]`
the connection of one call of `runViaGateway`: what it has written and the gateway
has not read, and how many questions it shows. Calls may ask for the same id: the
second one attaches, is told what is known, or finds a row that nobody executes.
Frames keep their order and are read in any interleaving with the lane's steps;
a terminal may be closed at any point, and a gateway may lose its claim or die.
Taking the token and writing the row are one step, as no await lies between them.
What the gateway writes counts as read at once, since nothing the caller does
later depends on when it reads it; what was written by a terminal that is gone may
go unread, since a write of the gateway that finds the socket closed drops it. A
socket that closes is an `unknown` to its caller.

**TurnLane.** The queue is the order of `updated_at`, kept as the relation `older`:
every write of a row moves it to the end, and a beat takes the oldest due row. A claim is one step here, since
its races are `TurnStore`'s subject. Deadlines and events make a waiting row ready
without writing it; the sweep does that.

**Scheduler.** `fire[o]` is the row of an occurrence, `turn[o][m]` the turn a
process `m` minted for it, `work[p]` the run. A beat takes the job whose time is
earliest, or the lane's row when no job is due; `Nudge` is the surface that asks
the lane alone. The turn store's claims are one step, and a turn that is not done
and not running is `owed`, whatever keeps it.

**DurableLock.** `row` names a pid and an acquisition and says whether it is past
the hard horizon; `holds` are the processes that believe they hold it, and `late`
a history of those that let the horizon pass. Release deletes by pid, as the code
does (`PidOf`; in the instances each process has its own).

**Commitments.** Two instances of `DurableLock`. A pass acquires the lock of
sends, reads what is due, asks the gate, and sends one promise after another; the
anchor of each is burnt after it has arrived. `todo` and `phase` are the pass in
memory; a gateway may be stopped with a grace, killed, replaced or wedged between
any two of its steps, and the owner may edit, close or taint a promise.

**Approvals.** One turn, the sequence of its `questions`, and what each process
does with it (`drive`). The surface is a terminal, which answers while the process
waits, or buttons, with the answer, the wake and the resume in separate steps. The
delegation answers what it finds open. `old` counts the questions past the age at
which the sweep closes them.

**Inbox.** `poller`, `drain` and `lane` are the three loops of one gateway; `todo`
is a stretch without an await. What a drain has listed and what the poller has to
serve are sets, taken in the order of their ids, which is that of the queries. `row[u]` is the update with the work of its
composition, `part` the delivery record of one turn and lease, `wire` what Telegram
has really accepted. A kind of update is one that the walk tells apart: text,
command, press, resumption, refused. A resumption that finds one turn to go on with
is its next lease (`Resume`), or is refused when the leases before it have died of
a dead route (`DeadRoute`); one that finds several goes to the newest while its
invitation is fresh, and else asks which is meant (`Asks`). `drain.on` is the turn
whose answer the drain holds, `drain.work` the turn the event is bound to, and the
plan is that of the latter.

**Memory.** One subject and predicate, where all candidates meet. `cons[p]` is the
timer and the flags of a consolidator, `work[p]` the batch or tool call that holds
the lock, `facts` the beliefs with their evidence, tier and state. A batch gives
way at its model calls only; its process may end anywhere.

**Policy and Snapshot.** A capability is the sequence of its dotted segments, a
resource its kind and what `decide` reads off it. `Policy` is `decide` with its
gates in their order, over a sealed file that is first cut down to what it may say
(`Load`, `Merged`); `Snapshot` keeps the memo of a turn (`cache`), what emptied it, and
the money others spend meanwhile. TLC checks the decisions for every declaration,
file, room and taint of the instance; the theorems are for any.

What one module assumes, another checks. `TurnLane`, `Scheduler` and `Approvals`
take a claim as one atomic step with one winner, and `TurnExecution` takes a
process as the name of its claim: that is `OneDriver` of `TurnStore`. `Scheduler`
takes a lane that takes what is due once it has the token: `DueIsTaken`.
`ModelLane` has a row become due at any moment: `TurnLane` says which.
`Commitments` and `Memory` rest on `DurableLock`, and `LocksAreDurable` shows that
what they do to the row is what the lock does. `TurnExecution` takes the verdict
on a call as given: `Policy` and `Snapshot` give it.

Operators called `Fault_...` are deliberate mistakes, each the way a plausible bug
would change the definition below it. Nothing refers to them; `PROJECT.json` says
which property each of them breaks.

## The runs

TLC explores every run of the first table to the end, in at most three to four
minutes with two workers.

| Run | States | What it shows |
|---|---|---|
| `store` | 1.38 M | two processes race, crash, reboot, steal, suspend, release and renew one turn: one driver unless a live process was robbed (`OneDriver`); the rollup is the fold of the closed leases, the dead streak the tail of the audit, and recoveries are booked (`BooksAgree`); done is final; only a rewinding grant replaces a later transcript (`FencedTranscript`); the table implements `TurnLifecycle`; a row of a dead process does not stay running (`CrashIsRecovered`) |
| `execution` | 3.0 M | two calls, one of them not rerunnable, through two crashes, a theft and failing writes: no second run of what cannot be repeated, a transcript that says what happened and replays what is on record, a taint that covers what the model was shown |
| `forwarding` | 380 k | two calls of a terminal for one id, with cancellation, a question, answers, the end of either side and a lost claim in any order, among a scheduler, a lane and a room: the token is kept (`TokenIsKept`), a turn begins once and no outcome is false (`OutcomeIsTrue`), leave is used only for a turn that is still wanted (`GrantIsWanted`), everybody is told and the token comes free (`ToldInTheEnd`) |
| `lane` | 160 k | two lanes, two rows, a restart: an unsent answer is visible, an event wakes its row whoever has the model, a due row is taken when no renewal is refused |
| `scheduler` | 466 k | two gateways, one crash, theft or failed run: one turn per occurrence, nothing begun is left behind unsettled, at most one more telling per fault, a done turn has its occurrence settled |
| `commitments` | 154 k | two gateways that are stopped, killed, replaced or late, and an `observe --send`: the log agrees with what was told, a refusal is silent to the end, the two locks behave as locks, what is owed is told |
| `approvals` | 2.03 M | two processes, two calls, two questions: an answer is spent once, on its own call; open questions are those a turn waits on, and its end withdraws them; an answered turn is woken |
| `inbox` | 850 k | three updates in three mixes through poller, drain and lane with a crash, a refusal by Telegram and an expired lease: every update is held, an answer is accepted once, what is closed was read and answered, every update is served |
| `policy` | 79 k | eleven declarations, four files, two rooms, a job: the memo answers what the kernel would, files and taint only tighten, rooms are closed |
| `memory_lane` | 1.58 M | a runtime and a `memory extract`, three episodes of which one can never be read: no turn is left behind, none is mined twice, the lane comes to rest |
| `memory_proposals` | 2.17 M | two runtimes, a proposal staged at different tiers, a fault, a refusal and a forgetting: one belief or none, with its taint, and never on forgotten evidence |

| Run that finds a disagreement | Property | What the code does |
|---|---|---|
| `inbox_commands` | `CommandsRunOnce` | a drain that began while a command was being answered carries it out again |

### Bounds

Every bound is a constant of its module and a conjunct of a guard.

- `store`: one turn, two processes, three tokens (`MaxToken`), lease indices to 2,
  one call per lease, two crashes, `MAX_RESUMES` and the dead-lease limit at 1.
  Rows do not interact in the store, so one turn is enough for the races; three
  tokens allow a claim, a theft of it and a renewal from a read older than both;
  three leases let the dead streak reach its limit and begin again.
- `execution`: two calls, a batch of one or two, one rerunnable, two runs of a
  handler, two crashes and one theft: enough for every mix in one batch of a call
  with an outcome, one with an open intent and one never begun, for a repair
  that crashes in its turn, and for a robbed driver that is still at work.
- `forwarding`: two calls that ask for one id are what attaching, asking again and
  crossing answers need; one question, one end of the gateway; calls are numbered
  in the order they are made. A room and the lane beside the terminal put every
  kind of client in competition.
- `lane`: two rows are what it takes for one to wait behind the other; one is
  renewable and addressed, one neither; one autonomous lease and one restart.
- `scheduler`: one job, recurring or once, times 0 and 1, two gateways, one fault.
  A second fault holds as well (5 minutes, not a run). Two occurrences of the job
  exist, so a schedule can move on over an unsettled one.
- `commitments`: two gateways and one command with a pid each, two promises on one
  date and the next, a pass that sends one, one change by the owner, two faults:
  a death and a handover, or a late holder and a death. With two changes and one
  promise the run holds as well (66,000 states).
- `approvals`: two processes of which one is a gateway, two calls, two questions,
  two rounds, one fault and one command of the delegation.
- `inbox`: text, resumption and press, or text, command and a message that is
  refused, or two texts and a resumption that names neither; a window of three; one
  renewed lease, and one crash and one refusal but in the last mix (`Calm`), which
  with both is too large for the liveness; its safety holds with both as well (5.7 M
  states, not a run), and is proved. The mixes
  text, resumption, text and text, text, press hold as well without the liveness
  (4.4 M states). The limit of dead leases (`MAX_CONSECUTIVE_DEAD_LEASES`) is one
  here, not three as shipped, so that every turn that has yielded may be refused.
  `inbox_commands` needs no crash and no lease.
- `policy`: eleven declarations stand for the classes of the shipped catalog that
  the gates tell apart, the four files for one that says nothing, tightens, opens
  a room, and asks for what is refused; caps of two.
- `memory_lane`: batches of one, a drain of two batches, a ceiling of two ticks:
  a page can be full, a ceiling can pass, a drain can end early. `memory_proposals`:
  two episodes that can carry the same proposal at different tiers.

`CHECK_DEADLOCK FALSE` stands where the system really stops: a turn that is done
(`TurnStore`, `TurnExecution`, `Approvals`), a clock, messages, turns or faults
that are used up (`Scheduler`, `Commitments`, `Inbox`, `Memory`). `Forwarding`,
`TurnLane` and `Snapshot` are checked for deadlock.

`SYMMETRY` is used where only safety is checked and every value of the set is
treated alike.

### Fairness

- `TurnStore`: weak fairness of `Boot` and `Reclaim`. The gateway is installed as
  a service whose supervisor restarts it, and `reclaim` is a synchronous loop that
  the boot runs to its end. No fairness of any driver.
- `Forwarding`: sockets are read, a turn ends once nobody is asked anything (its
  deadlines see to that), the poll of a waiting turn goes on. The token is asked
  for every 50 ms, far more often than the beats come, hence strong fairness of
  getting it. That the owner answers is not assumed: a turn that asks somebody who
  is there is exempt.
- `TurnLane`: the gateway's timer beats, and a run goes on to its end. The
  liveness properties that need the model say so (`Quiet`), since nobody promises
  that a beat finds it free.
- `Scheduler`: the timer beats, a run goes on, and a gateway that is gone is
  started again. `DoneIsSettled` is stated for behaviours in which a surface does
  not push the lane for ever and no live gateway is robbed.
- `Commitments`: a gateway is started, ends and hands over as the supervisor makes
  it, its loop and an `observe` go on. A pass that finds the lock free again and
  again gets it, and a promise that is sent again and again arrives (strong): a
  channel may refuse any number of times.
- `Approvals`: the beat sweeps. Nothing is assumed of the owner or of a driver.
- `Inbox`: the poller, the drain and the lane go on; faults are finitely many.
- `Memory`: a timer that is armed fires, a batch goes on.

`TurnExecution`, `Snapshot` and the run `memory_proposals` have safety properties
only.

## The proofs

TLAPS checks them for every value of the constants.

| Theorem | Statement |
|---|---|
| `TurnStore_proofs!TypeCorrect` | `TypeOK` is invariant |
| `TurnStore_proofs!FenceCorrect` | a row carries a token exactly while it is running: what makes a fence on the token alone sound |
| `TurnStore_proofs!DoneCorrect` | a finished row is never written again |
| `TurnStore_proofs!OneDriverCorrect` | one driver, with the token of the row, unless a reclaim robbed a live process |
| `TurnStore_proofs!FencedTranscriptCorrect` | an earlier claim's transcript never replaces a later one's, but by a grant that rewinds the row |
| `TurnStore_proofs!BooksCorrect` | the rollup is the fold of the closed leases, the streak their dead tail, and the recoveries of the row are those that reached a checkpoint, at most `MAX_RESUMES` |
| `TurnStore_proofs!LifecycleImplemented` | the turn table implements `TurnLifecycle` |
| `TurnExecution_proofs!TypeCorrect`, `EffectCorrect` | `TypeOK`; no handler is started without a durable intent |
| `TurnExecution_proofs!RunsOnceCorrect` | what cannot be repeated runs once |
| `TurnExecution_proofs!HonestCorrect` | the transcript says what happened |
| `TurnExecution_proofs!TaintCorrect` | the row's taint covers what its transcript shows |
| `Lanes_proofs!TypeCorrect`, `TokenKept` | the model lane alone: the token: types, the job's hold on it, and a worker behind every hold |
| `Lanes_proofs!ForwardedTokenKept` | the same through everything a forwarded turn, its terminals and the end of the gateway may do |
| `Lanes_proofs!OutcomeCorrect` | a forwarded turn begins once, and no outcome is false |
| `Lanes_proofs!GrantCorrect` | leave is used only for a turn that is observed and not cancelled |
| `Lanes_proofs!LaneTypeCorrect`, `UnsentIsVisibleCorrect` | the lane that resumes turns: `TLTypeOK`, the order of the queue included; no turn is recorded as sent whose address was told nothing of it |
| `Scheduler_proofs!TypeCorrect`, `OneTurnCorrect` | `TypeOK`; every turn of an occurrence is the one its fire is bound to |
| `Scheduler_proofs!NothingLeftCorrect` | the schedule leaves no occurrence behind that was begun and is not settled |
| `Scheduler_proofs!ToldCorrect` | an occurrence is told once, and once more per fault |
| `Approvals_proofs!TypeCorrect`, `AnswersCorrect` | `TypeOK`; an answer is spent once, on its own call, and nothing acts without one |
| `Approvals_proofs!QuestionsCorrect` | a call has one open question, and the open ones are those a turn waits on |
| `Commitments_proofs!LocksImplemented` | the claim and the lock of sends each implement `DurableLock` |
| `Commitments_proofs!LogCorrect` | the log of fires agrees with what was told |
| `Commitments_proofs!RefusedCorrect` | what was refused for good is not told afterwards |
| `Inbox_proofs!InboxTypeCorrect`, `HeldCorrect` | `TypeOK`; no update is below the offset without its row, and what is pending has its body |
| `Inbox_proofs!AnswerSentOnceCorrect` | the answer of a lease is accepted at most once |
| `Inbox_proofs!ClosedCorrect` | what is closed was read by one turn, and answered |
| `Memory_proofs!TypeCorrect`, `NothingForgottenCorrect` | `TypeOK`; a consolidator at rest has no turn left to mine |
| `Memory_proofs!MinedCorrect` | an episode is marked with its beliefs written, once but for a crash between the two |
| `Memory_proofs!BelievedCorrect` | an accepted proposal has one belief, with its taint, and any other none |
| `Memory_proofs!EvidenceCorrect` | no belief rests on evidence that was forgotten |
| `Commitments_proofs!SnapshotTypeCorrect`, `CacheIsCurrent` | `TypeOK`; the memo answers what the kernel would |
| `Commitments_proofs!FilesOnlyTighten`, `RoomsStayClosed`, `TaintNeverEases` | what a file, a room and a taint can change of a verdict |

*TurnStore.* `TypeOK` is inductive. For the rest every action is first shown to be
one of nine kinds of step on one row (`RowStep`: quiet, enqueue, run, claim, wake,
save, settle, grant, revoke), so each later argument has a case per kind rather
than per action. `FenceCorrect` needs one more fact, that tokens come from a
counter that is never `NULL` and is above every token on a row (`Claimed`).
`DoneCorrect` follows: a finished row is not running, so it carries no token, and
in SQL no fence matches `NULL`. `OneDriver` is not inductive: it does not say whose
the token of a row is. The strengthening (`Drivers`) says that the tokens a process
has minted are below the next one, that no two processes have minted the same, and
that the row of a turn that was never stolen, and that a process drives, carries a
token of that process.

`FencedTranscript` is about the author of a transcript, so the invariant says that
an author is below the next token and no later than the token of the row
(`Authored`), and that what a `renewing` process has read of a row is as the row is
until another process grants the lease it was read for, and from then on the index
of the row is later (`ReadsAreOld`): the grant's compare-and-set then fails. `LifecycleImplemented` maps each of the nine kinds of
step to one of `TurnLifecycle`'s, with the same facts.

`BooksAgree` needs to know where in the audit a row stands (`Ledger`): no closed
lease is later than the one the row is at, and that one is closed only if the row
has yielded it or is done, so that what a release or a finish closes is new and the
last. Every step stays within a lease, opens the next or closes one
(`LedgerSteps`), and a lemma says what closing the last one adds to the leases, the
calls and the dead tail (`ClosingAdds`). For the recoveries the invariant
(`Recoveries`) follows the number through memory: a run holds what its row says and
the one it has spent and not booked, and a renewal what the row said as long as no
other lease was granted; `Drivers` shows that nobody else writes in between.

*TurnExecution.* The invariant has three parts. `Typed` is types and bounds.
`Known` holds through any theft: a call at hand has its intent on record, an
outcome on record is one of a run, and each transcript, the row's and every
driver's, is covered by the taint beside it. `Solo` holds until a live process is
robbed: the row agrees with the record, and whoever drives owns the turn, alone,
and knows what the record says of the calls before the one at hand (`Sole`).

*ModelLane.* `TypeOK`, `JobKeepsItsToken` and `TokenHasAWorker` together are
inductive as they stand. Alone, `TokenHasAWorker` is not: a client that leaves
without the token must not free another identity's.

*Forwarding.* Every step is, for the lane, one of its own steps, or none, or one of
two ways to leave it that only a forwarded turn has, or a new process: so the
lane's invariant is kept (`LaneKept`). The rest (`TurnOk`) ties for each turn where
it stands in the lane to its entry and its row: one that waits has no row and one
that works has, only one at work asks, and not once it is cancelled; and who reads
frames observes (`Connected`). A step is about one turn (`OneTurn`), so each case
looks at that one.

*TurnLane.* The rows that exist are in one strict order of their last writes
(`TLTypeOK`): a write moves what it writes to the end, the sweep several rows at
once (`LaterOrders`). `UnsentIsVisible` speaks of the note that is already on the
row; the invariant (`Visible`) adds the one that is to come: who is about to note an
answer as arrived has had it arrive (`NotesAreTrue`), on a row that is there.

*Inbox.* The invariant has four parts. `Agrees`: the list a drain has made, the
update in its hand, the turns it and the lane hold and the rows say the same of
each other; a row is bound to its own turn or, if it is a resumption, to one that
had begun; the words of a text have been read exactly if its own turn has begun
(`WordsAreRead`), so no second turn can read them. `Held` is `EveryUpdateIsHeld`
with the offset no further than what has arrived. `Plans`: a part that was never
sent, or was refused, was not accepted; one that was sent was accepted once; and
who is sending has claimed its part, which two never do (`SendersClaimed`).
`Answering` speaks of the turns only the drain drives, and of one that is left to
go on with only what a refusal of its next lease leaves true (`Left`), since that
refusal is recorded on it as if it were told: each list of statements the drain
has still to write is true of the turn in hand (`ScriptIsTrue`); a delivery on
record is proven (`SentIsProven`); an event that is settled was answered, unless
its turn is suspended (`SettledIsAnswered`); what is run or about to be sent is not
given up (`NotToldYet`); and a turn that is done has been told, or has an event that
is not closed (`DoneIsTold`). Each step is first shown to move the hand, the lane,
the rows, the bodies, the parts or the turns in one of a few ways (`HandMoves`,
`LaneMoves`, `RowMoves`, ...), and each part is argued once per way.

*Scheduler.* `OneTurnPerOccurrence` speaks of rows. The strengthening
(`WorkIsBound`) speaks of memory: wherever a run has a turn to create, resume,
recover or mark, it is the one the fire of its occurrence is bound to. That is
preserved because a fire that is bound is never bound again. `NothingLeftBehind`
needs to know who moves the schedule (`InOrder`): unless a claim was stolen, only
the owner works, on the occurrence the schedule stands at, and it moves it when the
fire is settled. `ToldOncePerFault` is an account that balances (`Paid`): what was
told of an occurrence, plus the processes about to tell it (`Owing`), plus one while
a turn of it can still be found untold (`Due`), is at most one more than the faults.
Each fault pays for the telling it makes possible again.

*Approvals.* The invariant says that a turn that was not stolen is driven by its
holder alone (`OneAtWork`); that only an answer is spent and only the end withdraws
(`RowsKept`); that an effect about to run is the first on its answer, which is spent
already, and no other process has the same in hand (`Effects`); and that the
question a terminal holds is the only one of its call that is open or can be spent
(`Posed`). Lemmas about the statements on `approvals` come first, `AllAllowed`, the
order of `asked_at`, among them; then each step is shown to change the rows in one of
a few ways (`Gains`), the process (`Moved`) and the turn (`TurnMoved`) likewise, so
each part is argued once per way.

*Commitments.* The invariant (`Told`) says that a holder of the lock of sends that
is not late is on its row, and who is past the horizon is counted as late
(`SendLock`); that every pass under way has acquired it (`Holds`); that what was
told is recorded, on its way to the record, or lost (`ToldIsTold`, `Recorded`); and
that what a punctual pass has read, and has not yet come to, was neither told nor
refused behind its back (`Readings`). The refinement maps each step to a step or a
stutter of each of the two locks.

*Memory.* Every action is shown to be of one of a few kinds (`Step`: a consolidator
wakes, a batch reads, turns a page, weighs a proposal, ends, and so on), and the
invariants are proved of the kinds. Unless a horizon passed with work in hand, who
works holds the lock and works alone (`Locked`); so what it has read stays as it was:
the page is still to be mined, and what is written and not marked is of the episode
at hand (`Mining`); the evidence looked at stands (`Standing`). Two need no lock, for
they rest on the transaction that asks the row again: a proposal has a belief exactly
when it is accepted (`Single`), and the tier that was read is at most that of the
row, and before the first transaction below it only if the raise is on record
(`Tainted`). For `NothingForgotten` the invariant
(`CaughtBy`) follows each process: while nothing would make its consolidator run
again, the turns it was told of are on the page of its batch, or the page was full,
and then it gets on or has something left to read.

*Snapshot.* `CachedIsCurrent` is about the calls of now; the invariant is about the
keys of the memo, old taints included: under each key is what the kernel answers to
what the key says, while the purse has not moved (`Remembered`). The other three
are about `decide` alone, gate by gate (`MemberNeedsGrant`, `HigherTaint`,
`FileOnlyTightens`), for any declarations and any file.

The assumptions are the named ones of the modules: limits and bounds are naturals,
sets of constants are subsets of what they belong to, the clients of the model
lane are distinct, calls ask for terminals, null values are no members, gateways
are processes; the limits of a batch are positive, and episodes and proposals are
naturals, no number both; a page of the inbox holds at least one. In
`Commitments` the processes have distinct pids, and the null pid is nobody's. TLC
evaluates each of them in some run.

Every safety property a run checks is proved, but for the one that is refuted.
Model-checked only: the liveness properties (the prover has no fairness and no
`ENABLED`).
What a recursive definition computes is out of the prover's reach, and no module
with theorems uses one.

## What the models disagree with

One disagreement is a run of its own, with the sentences it contradicts in
`PROJECT.json`: **`inbox_commands`**. `controlla` holds the commands it serves in
`gestiti` and lets go of one when it is marked processed. A drain walks the list
`pending()` gave it when it began. One that began while a command was being
answered, and has a text before it on its list, comes to the command after a turn of
minutes, when it is in `gestiti` no more, and carries it out again
(`connector.ts:1820`). With `/steer` the correction enters the turn twice.

Four hazards are caught in part, because the property that guards them leaves out
the worst case by name: how often a crash in the preamble is recovered from
(`RecoveryIsBounded`, below), a call run twice after a theft of the claim (`stolen`,
below), a refused renewal that holds up the lane (`NextIsNotStarved`), and a bound
turn the lane never gets to (`BoundTurnIsTaken`). Each is a definition that the
code refutes, so no property can hold of it.

The following were met in traces of TLC. They are kept as definitions of the
modules, without a run of their own. To see a trace, name the definition in the
configuration of its module, as an INVARIANT if it speaks of states; `DenyIsFinal`
needs a second change by the owner, `FreesItsOwn` two processes with one pid (in
the specification of `DurableLock` itself).

- `BoundTurnIsTaken` (`Scheduler`). `Gateway.tick` asks the scheduler and then the
  lane in one synchronous call. A job whose bound turn is not done is still due;
  the scheduler takes the token for a run that finds the turn unfinished and
  defers, and gives it back in a later microtask. The lane, asked in the same
  call, finds the token taken: at every beat. Only a surface that asks the lane
  alone gets past it.
- `SavedWorkIsKept` (`TurnStore`). `continueTurn` reads the row, builds messages
  and counters, and then grants in a transaction that checks only that the row is
  continuable. A lease that another process ran in between is overwritten.
- `RecoveryIsBounded` (`TurnStore`). The resume that a recovery spends is in memory
  until the first checkpoint, so a preamble that kills the process is retried at
  every boot.
- `TaintOnlyRises` (`TurnExecution`). `endToolCall` raises the taint with an
  unfenced `max`; the fenced writes set it to the holder's view.
- `OneAtWork` (`ModelLane`). The `finally` of a room runs when its wait was aborted
  as well, and the guard of `release` compares identities that all rooms, the lane
  and the terminals share.
- `NextIsNotStarved` (`TurnLane`). A refused renewal writes nothing, `due()` returns
  the oldest row, and a beat takes one row.
- `UnsentIsListed` (`TurnLane`). The delivery column is not reset by a grant, and
  `undelivered()` (`store.ts:482`) lists what is pending or has failed: an answer
  whose lease never noted anything is not listed.
- `NeverSilent` (`Forwarding`). A cancellation that arrives while the forwarded turn
  waits for the lane makes `run()` delete the execution and return without
  `finish()`: no outcome is written and the socket is not closed, so the client
  that asked for the cancellation, and any other observer, waits for an end that
  does not come. The comment on `finish` (`forward.ts`, near line 384) says a
  connection that closes early is "sempre `unknown` per il client, mai un silenzio
  da interpretare". `ToldInTheEnd` exempts these callers by name (`adrift`).
- `DenyIsFinal` (`Commitments`): an anchor refused for the evidence about its text
  stays refused when that evidence is withdrawn, and a promise whose date is edited
  gets a new anchor. `FreesItsOwn` (`DurableLock`): release deletes by pid, so one
  process frees what another instance in it, or a successor with its pid, acquired.
- `RefusalIsSent` (`Inbox`). After three leases that a dead route ended, the loop
  refuses the next one while the cooldown runs, and `runAgentWork` returns that
  refusal as the answer on the continuable row (`work.ts:258-274`). No lease has
  begun, so the row's lease index is that of the lease before; the plan of delivery
  is keyed by turn and lease index (`connector.ts:1437`), and `plan()` keeps the
  parts it finds (`delivery.ts:136-165`). What it finds is the diagnostic of that
  lease, sent already: nothing is sent, the outcome is `sent`, and the event is
  settled and marked. The owner who asks to go on hears nothing, although the
  comment says "That refusal IS the answer to this "riprendi": deliver it on the
  continuable row instead of deferring into another silent wait." (`work.ts:260`).
  It happens as well with the limit at three and no crash and no refused send.
- `ClosedWasTold` without its exemption (`Inbox`), found while proving it: a turn
  yields, its answer is delivered and its event settled, and the process dies before
  the mark. A resumption from before, passed over in a pause, then resumes the turn,
  and that lease's answer is refused. `recover` takes `settledAt` for the proof of
  its delivery (`router.ts:671`) and closes the event as sent: the last answer is
  never sent. `presumed` names these turns.
- `SentIsTrue`, `ResumeRestarts` (`Inbox`): a settled intention whose process
  crashed before the mark counts as proof of delivery to `recover`
  (`router.ts:671`), although the lane then finished without delivering; and a text
  a drain had passed over when the pause ended waits for the next message
  (`connector.ts:1821`).
- `ForgottenStaysForgotten` (`Memory`): `pendingEpisodes` selects on the version of
  the extraction and not on `superseded_at` (`core/memory/store.ts:431`), so an
  episode the owner has had forgotten before it was mined is mined all the same.

Met while modelling, and excluded by name from the properties, or only noted:

- *Turns.* `reclaim` judges rows on a read made at its start, so two boots with a
  resume in between can report one crash twice (`store.ts:2322` and `2296`).
  `claim()` updates and reads back in a second statement, and can read the token
  of a process that reclaimed and claimed in between (`store.ts:1403`). After a
  theft two drivers can both run one call that is not rerunnable: each checks for
  an outcome before the other has recorded one (`tool-call.ts:779`).
- *Jobs.* A gateway that loses its claim while it awaits a delivery settles and
  moves the schedule afterwards (`scheduler.ts:576`), so the new owner's occurrence
  can be left behind; the comment calls the window "sub-millisecond", and the await
  is inside it. With the fire bound and the turn's row not yet written, a second
  process that recovers it can lose the insert and deliver a failure for a turn
  that goes on. A job's turn that stays continuable past the autonomous limit is
  neither renewed nor settled.
- *Approvals.* The answers of `decide` and `take` are not looked at
  (`tool-call.ts:469-483`, `607-618`): a process that lost the turn while it asked
  can act on nothing on record (`unasked`). A crash between the end of a turn and
  the withdrawal leaves a question open (`cut`); a process that lost its turn can
  still ask.
- *Forwarding.* Bytes that follow the first line in the same chunk are dropped at
  the hand-over (`control-socket.ts`), so an early cancellation can be lost, or
  read as the first line itself: then nothing runs, and the caller is told
  `unknown`. Answers carry no question id: with two observers a late answer to one
  question resolves the next. An observer that attaches while a question is open is
  not shown it; when the one that was asked leaves, the question, and with it the
  token of the model lane, waits for an observer that cannot answer. The shipped
  callers mint a fresh id each, and the host supports the same one. An execution
  that ended `suspended` goes on answering so from memory until a hundred later
  ones have ended (`forward.ts:211`).
- *Commitments.* A crash between a telling and its record tells it again (`lost`); a
  late pass may refuse what another is telling (`overdue`).
- *Inbox.* A message bound before a turn was continuable, and served after a wait,
  resumes that turn under the event's own plan, and again under its own
  (`work.ts:193`, `router.ts:506`; `astray`, which holds the refusal of a lease under
  such an event too). A resumption that was bound and then
  lost its process is consumed as `already`, unread. The door of the lane reports a
  delivery that was deferred as sent (`surface.ts:1425`). `pending()` lists 50, the
  long poll brings 100.
- *Memory.* A crash, or a write that throws, between the beliefs of an episode and
  its mark writes them twice (`Unmarked`). Without a judge a decision uses the tier of the look and not
  that of the proposal by then (`raised`). A batch that ends busy, over budget or
  in an error does not arm another. A holder that outlived the lock lets a second
  batch in (`wedged`).
- *Policy.* Money that others spend between two model calls, and the turn of a day,
  leave the memo as it was (`moved`; `round.ts:926`). Above the ceiling of an
  external or outward act the owner is asked before the budget is looked at
  (`AskedAbove`). The gate for a misplaced capability fires for no coherent caller,
  and no shipped capability has the kind of resource `url`. After a resume the
  addresses quoted before it are not recorded again.

## What is not modelled

- **In the modelled components.** The times of wait deadlines and cooldowns (a
  deadline passes, or has not); `todo` and steer writes of the row; the lane's
  `standDown`, constantly false in the only process that has a lane; `/pause` as a
  cause of its own for the lanes; the renewal of the owner's activities from an
  allowance; the silent delivery policy of a job beyond "it says nothing"; the
  scheduler of a REPL, which stands down for a gateway; disabling and editing a
  job while it runs; streaming; quiet hours and the daily number of promises, which
  only put a pass off; the listing and text of questions; attachments, pairing,
  albums, media and notices of the connectors, and compositions of several
  messages; a rich answer and its plain fallback are one part; a number that answers
  the question which turn is meant, which then binds like a resumption that finds
  one; Discord, which has
  no inbox of its own; recall, ranking, entities and the ways a judgement of memory
  is reached; the origin label, the allowlist file and the parsing of addresses,
  which enter `Policy` as what they tell; the cap of a job; the other verbs of the
  control socket, files sent over it, `query`, and the supervisor. Capabilities are
  constant, as MCP registers its own at boot.
- **Arms of modelled operations that are folded or left out.** A command whose reply
  throws in the drain stays pending (`markFailed`, `connector.ts:2054-2081`) and may
  be carried out again; `Served` always marks it. The tick's answer to an aborted
  run (`scheduler.ts:416-420`) is reached by no shipped wiring: the gateway gives the
  scheduler a gate without a signal (`cli/gateway.ts:960`), the REPL reads its signal
  when it has just found that nothing is active (`cli/repl.ts:862`), and a lane's run
  has a signal only for a turn that replies to a chat, which a job's does not. What
  the owner wrote himself wins over a match on untrusted text
  (`proactivity.ts:131`): `untrusted` in `Commitments` is the verdict after that; and
  a pass that is over budget is put off as one in quiet hours is. A call refused by
  the activity allowance before its handler starts (`tool-call.ts:141,161`) is
  recorded as one that failed without a run; `TurnExecution` counts a run for every
  outcome, which can only make `UnrepeatableRunsOnce` harder to keep. In `Memory` an
  episode has at most one candidate (the loop of `ingest.ts:405-415` writes several,
  with a judge's call before those that meet an older belief), and a proposal cites
  one episode (of several, those that are not withdrawn remain,
  `ingest.ts:1068-1075`) and is not empty (`1059-1067` rejects such a one).
- **The steer funnel and the activity allowance** are next in the plan. The undo
  journal is sequential within a call.
- **Not planned.** Providers, tools, MCP, skills, sandbox and egress are external
  effects: a model call or a handler ends in one of the ways its caller
  distinguishes. The judgment lane and the rules are calls with a verdict. Sessions,
  vault, configuration, root of trust and tracing keep files or rows with no
  protocol. The migration is one exclusive transaction. The commands of the CLI,
  its views and its doctor are the largest part of the code by lines, and read and
  print what the modelled parts keep. The gateway command is assembly: it enters as
  boots, crashes and beats.

## Plan

Done, in this order: `TurnLifecycle`, `TurnStore`, `TurnExecution`, `ModelLane`,
`TurnLane`, `Scheduler`, `Approvals`, `DurableLock`, `Commitments`, `Memory`,
`Inbox`, `Policy`, `Snapshot`, `Forwarding`.

Next, the most consequential first:

1. `SteerFunnel`: a correction that arrives as the turn suspends, finishes or is
   renewed reaches exactly one of the row, the next turn and the owner.
2. `ActivityAllowance` in `TurnStore`: what is reserved on the row while the run
   checkpoints the counters it loaded before.
3. `UndoJournal`: the pre-image before the change, through a crash between the two.
4. Compositions: `TurnStore` with `TurnExecution` (a claim that is a token rather
   than a process), `TurnLane` with `ModelLane` (the token as an instance), and
   `Approvals` with the barrier of `TurnStore`.

The runs are kept few: a new component brings one run for all its properties, and
takes the place of runs it subsumes, as `forwarding` did of the model lane's.

Theorems worth proving next, with those compositions: that a claim which is one step
(`TurnLane`, `Scheduler`, `Approvals`) or a process (`TurnExecution`) stands for the
statements and the token of `TurnStore`.
