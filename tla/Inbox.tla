-------------------------------- MODULE Inbox --------------------------------
(***************************************************************************)
(* What Telegram sends, from the long poll to the answer: the durable      *)
(* inbox (connectors/telegram/updates.ts), the poller and the drain that   *)
(* empties it (connector.ts), the walk of an event that may have become a  *)
(* turn before a crash (connectors/shared/ingress/router.ts and work.ts),  *)
(* and the write-ahead record of what is sent back (delivery.ts), which    *)
(* the drain shares with the turn lane.                                    *)
(*                                                                         *)
(* One gateway.  Its poller, its drain and its lane interleave where they  *)
(* await; a run of statements without an await is `todo`, which nothing    *)
(* but a crash interrupts.  An update has an id of its own and the turn    *)
(* minted for it goes by the same number; a plan of delivery is one part.  *)
(***************************************************************************)
EXTENDS Naturals, Sequences, FiniteSets

CONSTANTS
  MaxUpdates,  \* bound: updates sent to the bot
  Kinds,       \* what they are: a set of sequences of Kind
  Window,      \* the limit of pending()
  MaxLeases,   \* bound: continuations of a turn
  DeadLeases,  \* MAX_CONSECUTIVE_DEAD_LEASES
  MaxCrashes,  \* bound: crashes
  Calm,        \* bound: those of Kinds in which nothing crashes and no send is refused
  MaxRefusals  \* bound: sends that Telegram refuses

ASSUME Bounds == /\ MaxUpdates \in Nat /\ MaxLeases \in Nat
                 /\ MaxCrashes \in Nat /\ MaxRefusals \in Nat /\ DeadLeases \in Nat
ASSUME WindowIsOpen == Window \in Nat \ {0}

VARIABLES
  kind,      \* what each update is
  arrived,   \* updates sent so far
  offset,    \* telegram_offset
  row,       \* telegram_updates, with the work of its composition
  turn,      \* turns, as the connector reads them
  part,      \* telegram_delivery_parts: of each turn and lease
  paused,    \* the durable pause
  poller,    \* the loop of run() and the commands controlla serves
  gestiti,   \* the updates the poller keeps for itself
  drain,     \* the one drain
  lane,      \* the turn lane of the same process
  wire,      \* history: answers Telegram has accepted, by turn and lease
  read,      \* history: how many leases began with the words of an update
  served,    \* history: how many times a command or a press was carried out
  away,      \* history: turns the lane has driven
  astray,    \* history: turns an event resumed, or tried to, bound to another, and that other
  presumed,  \* history: turns resumed while an event of theirs is settled and not closed
  left       \* how much of each bound is left

vars == <<kind, arrived, offset, row, turn, part, paused, poller, gestiti, drain, lane,
          wire, read, served, away, astray, presumed, left>>

Update == 1 .. MaxUpdates
None == 0
Lease == 0 .. MaxLeases

\* A text opens a turn and a resumption names the work a turn has left; a
\* control is one of the four commands the poller serves itself; a press is a
\* button, an invitation or another command; the gate refuses the rest.
Kind == {"text", "resumption", "control", "press", "refused"}

ASSUME WhatIsSent == Kinds \subseteq [Update -> Kind]

Words == {u \in Update : kind[u] \in {"text", "resumption"}}

Row == [body : {"none", "raw", "stub", "empty"}, work : Update \cup {None}, settled : BOOLEAN, processed : BOOLEAN]
Status == {"none", "runnable", "running", "waiting", "interrupted", "continuable", "done"}
Delivery == {"none", "pending", "sent", "possibly", "failed", "undeliverable"}
Turn == [status : Status, lease : Lease, delivery : Delivery]
Part == {"none", "attempting", "sent", "rejected", "possibly"}
Statement == {"settle", "mark", "scrub"} \cup Delivery

Drain == [pc : {"off", "next", "serving", "bound", "running", "refused", "made", "sending"},
          list : SUBSET [id : Update, work : Update \cup {None}, settled : BOOLEAN],
          again : BOOLEAN,              \* drainAgain
          at : Update \cup {None},      \* the update in hand
          work : Update \cup {None},    \* the turn it is bound to
          on : Update \cup {None},      \* the turn whose answer it holds
          todo : Seq(Statement)]
Poller == [pc : {"connecting", "idle", "controls", "replying"}, queue : SUBSET Update]
Lane == [pc : {"idle", "running", "made", "sending"}, on : Update \cup {None}, todo : Seq(Delivery)]

NoDrain == [pc |-> "off", list |-> {}, again |-> FALSE, at |-> None, work |-> None, on |-> None, todo |-> <<>>]
NoLane == [pc |-> "idle", on |-> None, todo |-> <<>>]

Crashes == IF kind \in Calm THEN 0 ELSE MaxCrashes
Refusals == IF kind \in Calm THEN 0 ELSE MaxRefusals

Init ==
  /\ kind \in Kinds
  /\ arrived = 0 /\ offset = 1
  /\ row = [u \in Update |-> [body |-> "none", work |-> None, settled |-> FALSE, processed |-> FALSE]]
  /\ turn = [t \in Update |-> [status |-> "none", lease |-> 0, delivery |-> "none"]]
  /\ part = [t \in Update |-> [l \in Lease |-> "none"]]
  /\ paused = FALSE
  /\ poller = [pc |-> "connecting", queue |-> {}]
  /\ gestiti = {} /\ drain = NoDrain /\ lane = NoLane
  /\ wire = [t \in Update |-> [l \in Lease |-> 0]]
  /\ read = [u \in Update |-> 0] /\ served = [u \in Update |-> 0] /\ away = {} /\ astray = {}
  /\ presumed = {}
  /\ left = [crashes |-> Crashes, refusals |-> Refusals]

inboxVars == <<kind, arrived, offset>>
sides == <<poller, gestiti, paused>>
history == <<wire, read, served, away, astray, presumed>>
turnVars == <<turn, part>>

\* Nothing runs between two statements that no await parts.
Yielded == drain.todo = <<>> /\ lane.todo = <<>>

----------------------------------------------------------------------------
(* The inbox and the start of a drain.                                     *)

Pending(rows) == {u \in Update : rows[u].body # "none" /\ ~rows[u].processed}

\* The first ones, as many as one page holds.
Page(rows) ==
  {u \in Pending(rows) : Cardinality({v \in Pending(rows) : v < u}) < Window}

Listed(rows) ==
  {[id |-> u, work |-> rows[u].work, settled |-> rows[u].settled] : u \in Page(rows)}

\* drain() reads pending() before its first await.
Drained(rows) == [NoDrain EXCEPT !.pc = "next", !.list = Listed(rows)]

\* Fault: a drain in flight is not asked to run again.
Fault_Missed(rows) == IF drain.pc = "off" THEN Drained(rows) ELSE drain

Scheduled(rows) == IF drain.pc = "off" THEN Drained(rows) ELSE [drain EXCEPT !.again = TRUE]

\* Fault: as the offset does, everything up to it.
Fault_ProcessedTo(u) == [v \in Update |-> IF v <= u /\ row[v].body # "none"
                                          THEN [row[v] EXCEPT !.processed = TRUE] ELSE row[v]]

Processed(u) == [row EXCEPT ![u].processed = TRUE]

----------------------------------------------------------------------------
(* The poller.                                                             *)

Send ==
  /\ arrived < MaxUpdates
  /\ arrived' = arrived + 1
  /\ UNCHANGED <<kind, offset, row, turnVars, sides, drain, lane, history, left>>

\* The drain of what a previous life has left.
Connect ==
  /\ poller.pc = "connecting" /\ Yielded
  /\ poller' = [poller EXCEPT !.pc = "idle"]
  /\ drain' = Scheduled(row)
  /\ UNCHANGED <<inboxVars, row, turnVars, paused, gestiti, lane, history, left>>

\* Fault: the offset skips one.
Fault_After(u) == u + 2

After(u) == u + 1

\* getUpdates, accept in one transaction, and the first pass of controlla.
Poll ==
  /\ poller.pc = "idle" /\ Yielded
  /\ LET batch    == {u \in Update : offset <= u /\ u <= arrived}
         accepted == {u \in batch : row[u].body = "none"}
         controls == {u \in accepted : kind[u] = "control"}
     IN  /\ \E last \in batch : (\A u \in batch : u <= last) /\ offset' = After(last)
         /\ row' = [u \in Update |-> IF u \in accepted THEN [row[u] EXCEPT !.body = "raw"] ELSE row[u]]
         /\ gestiti' = gestiti \cup controls
         /\ poller' = [pc |-> "controls", queue |-> controls]
  /\ UNCHANGED <<kind, arrived, turnVars, paused, drain, lane, history, left>>

\* The commands of a batch in their order.
IsFirst(u) == u \in poller.queue /\ \A v \in poller.queue : u <= v

\* tryCommand: it acts, then awaits its reply.
ServeControl(u) ==
  /\ poller.pc = "controls" /\ IsFirst(u) /\ Yielded
  /\ served' = [served EXCEPT ![u] = @ + 1]
  /\ paused' \in BOOLEAN
  /\ poller' = [poller EXCEPT !.pc = "replying"]
  /\ UNCHANGED <<inboxVars, row, turnVars, gestiti, drain, lane, wire, read, away, astray, presumed, left>>

ControlDone(u) ==
  /\ poller.pc = "replying" /\ IsFirst(u) /\ Yielded
  /\ row' = Processed(u)
  /\ gestiti' = gestiti \ {u}
  /\ drain' = IF drain.pc = "off" THEN Drained(Processed(u)) ELSE drain
  /\ poller' = [pc |-> "controls", queue |-> poller.queue \ {u}]
  /\ UNCHANGED <<inboxVars, turnVars, paused, lane, history, left>>

\* The rest of a batch is for the drain.
PollDone ==
  /\ poller.pc = "controls" /\ poller.queue = {} /\ Yielded
  /\ poller' = [poller EXCEPT !.pc = "idle"]
  /\ drain' = Scheduled(row)
  /\ UNCHANGED <<inboxVars, row, turnVars, paused, gestiti, lane, history, left>>

----------------------------------------------------------------------------
(* The drain: one update after another.                                    *)

\* The first of the list.
TakesUp(e) ==
  /\ drain.pc = "next" /\ Yielded
  /\ e \in drain.list /\ \A f \in drain.list : e.id <= f.id

RestOf(e) == [drain EXCEPT !.list = @ \ {e}, !.at = None, !.work = None, !.on = None]

\* What a drain does once it has let go of the update in hand.
LetGo(todo) == [drain EXCEPT !.pc = "next", !.todo = todo]

Finish == <<"settle", "mark", "scrub">>
FinishAfter(first) == <<first, "settle", "mark", "scrub">>

DrainEnds ==
  /\ drain.pc = "next" /\ drain.list = {} /\ Yielded
  /\ drain' = IF drain.again THEN Drained(row) ELSE NoDrain
  /\ UNCHANGED <<inboxVars, row, turnVars, sides, lane, history, left>>

\* gestiti is looked at now; the entry was read when the drain began.
Skips(e) ==
  /\ TakesUp(e)
  /\ \/ e.id \in gestiti
     \/ kind[e.id] \in {"text", "resumption"} /\ e.work = None /\ paused
  /\ drain' = RestOf(e)
  /\ UNCHANGED <<inboxVars, row, turnVars, sides, lane, history, left>>

Refuse(e) ==
  /\ TakesUp(e) /\ kind[e.id] = "refused"
  /\ \/ row' = [row EXCEPT ![e.id] = [@ EXCEPT !.body = "stub", !.settled = TRUE, !.processed = TRUE]]
     \/ row' = [row EXCEPT ![e.id] = [@ EXCEPT !.body = "empty", !.processed = TRUE]]
  /\ drain' = RestOf(e)
  /\ UNCHANGED <<inboxVars, turnVars, sides, lane, history, left>>

Serve(e) ==
  /\ TakesUp(e) /\ kind[e.id] \in {"press", "control"} /\ e.id \notin gestiti
  /\ served' = [served EXCEPT ![e.id] = @ + 1]
  /\ paused' \in IF kind[e.id] = "control" THEN BOOLEAN ELSE {paused}
  /\ drain' = [RestOf(e) EXCEPT !.pc = "serving", !.at = e.id]
  /\ UNCHANGED <<inboxVars, row, turnVars, poller, gestiti, lane, wire, read, away, astray, presumed, left>>

Served ==
  /\ drain.pc = "serving" /\ Yielded
  /\ row' = Processed(drain.at)
  /\ drain' = LetGo(<<>>)
  /\ UNCHANGED <<inboxVars, turnVars, sides, lane, history, left>>

(* The work of an update that has none yet.                                *)

Continuable == {t \in Update : turn[t].status = "continuable"}

\* resolveContinuation, which runWork asks again once it has the lane.
Targets(u) == IF kind[u] = "resumption" /\ Continuable # {} THEN Continuable ELSE {None}

\* More than one, and the newest no longer the one just yielded: it is asked which.
Ambiguous(u) == kind[u] = "resumption" /\ Cardinality(Continuable) > 1
Unnamed(u) == IF Ambiguous(u) THEN {None} ELSE {}

\* claim: the target, or an identity minted for this update, bound for good.
Bind(e) ==
  /\ TakesUp(e) /\ kind[e.id] \in {"text", "resumption"} /\ e.work = None /\ ~paused
  /\ \E target \in Targets(e.id) \cup Unnamed(e.id) :
       LET work == IF target = None THEN e.id ELSE target IN
       /\ row' = [row EXCEPT ![e.id].work = work]
       /\ drain' = [RestOf(e) EXCEPT !.pc = "bound", !.at = e.id, !.work = work]
  /\ UNCHANGED <<inboxVars, turnVars, sides, lane, history, left>>

Opened(status) == [status |-> status, lease |-> 0, delivery |-> "pending"]
Reads(u) == read' = [read EXCEPT ![u] = @ + 1]

\* enqueueNow: the lane is busy, and will find the row.
Enqueue ==
  /\ drain.pc = "bound" /\ Yielded /\ lane.pc # "idle"
  /\ None \in Targets(drain.at) /\ turn[drain.work].status = "none"
  /\ turn' = [turn EXCEPT ![drain.work] = Opened("runnable")]
  /\ Reads(drain.at)
  /\ drain' = LetGo(Finish)
  /\ UNCHANGED <<inboxVars, row, part, sides, lane, wire, served, away, astray, presumed, left>>

\* runWork, in the model lane: a turn of its own.
Run ==
  /\ drain.pc = "bound" /\ Yielded /\ lane.pc = "idle"
  /\ None \in Targets(drain.at) /\ turn[drain.work].status = "none"
  /\ turn' = [turn EXCEPT ![drain.work] = Opened("running")]
  /\ Reads(drain.at)
  /\ drain' = [drain EXCEPT !.pc = "running", !.on = drain.work]
  /\ UNCHANGED <<inboxVars, row, part, sides, lane, wire, served, away, astray, presumed, left>>

GoesTo(t) == astray' = IF t = drain.work THEN astray ELSE astray \cup {t, drain.work}

\* The next lease of what was left: a grant clears the delivery of the row.
Resume ==
  /\ drain.pc = "bound" /\ Yielded /\ lane.pc = "idle"
  /\ \E t \in Targets(drain.at) \ {None} :
       /\ turn[t].lease < MaxLeases
       /\ turn' = [turn EXCEPT ![t] = [status |-> "running", lease |-> @.lease + 1, delivery |-> "none"]]
       /\ drain' = [drain EXCEPT !.pc = "running", !.on = t]
       /\ GoesTo(t)
       /\ presumed' = IF \E u \in Update : row[u].work = t /\ row[u].settled /\ ~row[u].processed
                      THEN presumed \cup {t} ELSE presumed
  /\ Reads(drain.at)
  /\ UNCHANGED <<inboxVars, row, part, sides, lane, wire, served, away, left>>

\* The question takes the identity of its event, answered as it is written.
Asks ==
  /\ drain.pc = "bound" /\ Yielded /\ lane.pc = "idle"
  /\ Ambiguous(drain.at) /\ turn[drain.work].status = "none"
  /\ turn' = [turn EXCEPT ![drain.work] = Opened("done")]
  /\ drain' = [drain EXCEPT !.pc = "made", !.on = drain.work]
  /\ UNCHANGED <<inboxVars, row, part, sides, lane, history, left>>

\* dead_route: that many leases in a row have died, and the cooldown runs. No
\* lease begins; the refusal is the answer to this event.
DeadRoute ==
  /\ drain.pc = "bound" /\ Yielded /\ lane.pc = "idle"
  /\ \E t \in Targets(drain.at) \ {None} : turn[t].lease + 1 >= DeadLeases /\ GoesTo(t)
  /\ drain' = [drain EXCEPT !.pc = "refused", !.on = drain.work]
  /\ UNCHANGED <<inboxVars, row, turnVars, sides, lane, wire, read, served, away, presumed, left>>

\* ContinuationGone: what the event is bound to has gone on without it, or its
\* invitation has expired; or the question would take the identity of a turn that
\* has a row. The event stands, and a later drain recovers it.
Gone ==
  /\ drain.pc = "bound" /\ Yielded /\ lane.pc = "idle"
  /\ turn[drain.work].status # "none"
  /\ drain' = LetGo(<<>>)
  /\ UNCHANGED <<inboxVars, row, turnVars, sides, lane, history, left>>

Ends(t, status) == turn' = [turn EXCEPT ![t].status = status]
Yields(t) == turn[t].lease < MaxLeases

\* A suspended turn is for the lane: its event is closed here.
RunEnds(status) ==
  /\ drain.pc = "running" /\ Yielded
  /\ status = "continuable" => Yields(drain.on)
  /\ Ends(drain.on, status)
  /\ drain' = IF status = "waiting" THEN LetGo(Finish) ELSE [drain EXCEPT !.pc = "made"]
  /\ UNCHANGED <<inboxVars, row, part, sides, lane, history, left>>

(* The work of an update that is bound: recover never calls the model.     *)

Told(t) == turn[t].delivery \in {"sent", "possibly", "undeliverable"}
Uncertain(t) == \E l \in Lease : part[t][l] = "possibly"

\* What is written of a turn that was told, on the row or by its event alone.
Repaired(t) == IF Told(t) THEN Finish
               ELSE FinishAfter(IF Uncertain(t) THEN "possibly" ELSE "sent")

Unstarted(t) == turn[t].status = "none"

Recover(e) ==
  /\ TakesUp(e) /\ kind[e.id] \in {"text", "resumption"} /\ e.work # None
  /\ LET t    == e.work
         held == [RestOf(e) EXCEPT !.at = e.id, !.work = t]
         told == e.settled \/ Told(t)
     IN  \/ /\ Unstarted(t)
            /\ drain' = [held EXCEPT !.pc = "bound"]
         \/ /\ told /\ turn[t].status \in {"continuable", "done"}
            /\ drain' = [held EXCEPT !.todo = Repaired(t)]
         \/ /\ ~told /\ turn[t].status = "continuable"   \* still to be delivered
            /\ drain' = RestOf(e)
         \/ /\ ~told /\ turn[t].status \in {"continuable", "done"}   \* out of its window, or its text is gone
            /\ drain' = [held EXCEPT !.todo = FinishAfter("undeliverable")]
         \/ /\ turn[t].status \in {"runnable", "running", "waiting", "interrupted"}
            /\ drain' = RestOf(e)
         \/ /\ ~told /\ turn[t].status = "done"
            /\ drain' = [held EXCEPT !.pc = "made", !.on = t]
  /\ UNCHANGED <<inboxVars, row, turnVars, sides, lane, history, left>>

----------------------------------------------------------------------------
(* Delivery: deliverTelegram, for the drain and for the lane.              *)

\* The plan is that of the turn the event is bound to, and of its lease now.
Plan(t) == part[t][turn[t].lease]
Planned(t, status) == part' = [part EXCEPT ![t][turn[t].lease] = status]
Accepted(t) == wire' = [wire EXCEPT ![t][turn[t].lease] = @ + 1]

\* Fault: what is attempted is attempted again, as if the attempt were dead.
Fault_Claimable(status) == status \in {"none", "rejected", "attempting"}

Claimable(status) == status \in {"none", "rejected"}

\* Fault: a refused delivery closes the event.
Fault_Then(outcome) == CASE outcome = "sent"     -> <<"settle", "sent", "mark", "scrub">>
                         [] outcome = "possibly" -> <<"settle", "mark", "scrub", "possibly">>
                         [] outcome = "refused"  -> FinishAfter("failed")
                         [] OTHER                -> <<>>

\* What the drain does with the outcome; a refusal leaves the event pending.
Then(outcome) == CASE outcome = "sent"     -> <<"settle", "sent", "mark", "scrub">>
                   [] outcome = "possibly" -> <<"settle", "mark", "scrub", "possibly">>
                   [] outcome = "refused"  -> <<"failed">>
                   [] OTHER                -> <<>>

\* The door of the lane knows no "deferred": it is taken for sent.
LaneThen(outcome) == CASE outcome = "possibly" -> <<"possibly">>
                       [] outcome = "refused"  -> <<"failed">>
                       [] OTHER                -> <<"sent">>

AlreadyThere(status) == CASE status = "attempting" -> "deferred" [] OTHER -> status

DrainSends ==
  /\ drain.pc \in {"made", "refused"} /\ Yielded
  /\ IF Claimable(Plan(drain.work))
     THEN Planned(drain.work, "attempting") /\ drain' = [drain EXCEPT !.pc = "sending"]
     ELSE drain' = LetGo(Then(AlreadyThere(Plan(drain.work)))) /\ UNCHANGED part
  /\ UNCHANGED <<inboxVars, row, turn, sides, lane, history, left>>

LaneSends ==
  /\ lane.pc = "made" /\ Yielded
  /\ IF Claimable(Plan(lane.on))
     THEN Planned(lane.on, "attempting") /\ lane' = [lane EXCEPT !.pc = "sending"]
     ELSE lane' = [lane EXCEPT !.pc = "idle", !.todo = LaneThen(AlreadyThere(Plan(lane.on)))] /\ UNCHANGED part
  /\ UNCHANGED <<inboxVars, row, turn, sides, drain, history, left>>

\* Telegram accepts, refuses, or does either and the answer is lost.
Response(t, key, outcome) ==
  \/ outcome = "sent" /\ Planned(key, "sent") /\ Accepted(t) /\ UNCHANGED left
  \/ /\ outcome = "refused" /\ left.refusals > 0 /\ left' = [left EXCEPT !.refusals = @ - 1]
     /\ Planned(key, "rejected") /\ UNCHANGED wire
  \/ /\ outcome = "possibly" /\ Planned(key, "possibly") /\ UNCHANGED left
     /\ Accepted(t) \/ UNCHANGED wire

DrainHears(outcome) ==
  /\ drain.pc = "sending" /\ Yielded
  /\ Response(drain.on, drain.work, outcome)
  /\ drain' = LetGo(Then(outcome))
  /\ UNCHANGED <<inboxVars, row, turn, sides, lane, read, served, away, astray, presumed>>

LaneHears(outcome) ==
  /\ lane.pc = "sending" /\ Yielded
  /\ Response(lane.on, lane.on, outcome)
  /\ lane' = [lane EXCEPT !.pc = "idle", !.todo = LaneThen(outcome)]
  /\ UNCHANGED <<inboxVars, row, turn, sides, drain, read, served, away, astray, presumed>>

(* One statement of those that follow one another.                         *)

\* delivered() is an update: nothing, of a turn that has no row.
Delivered(t, state) ==
  turn' = IF turn[t].status = "none" THEN turn ELSE [turn EXCEPT ![t].delivery = state]

DrainWrites ==
  /\ drain.todo # <<>>
  /\ drain' = [drain EXCEPT !.todo = Tail(@)]
  /\ LET next == Head(drain.todo)
         r    == row[drain.at]
     IN  \/ next = "settle" /\ row' = [row EXCEPT ![drain.at].settled = TRUE] /\ UNCHANGED turn
         \/ next = "mark" /\ row' = Processed(drain.at) /\ UNCHANGED turn
         \/ /\ next = "scrub" /\ UNCHANGED turn
            /\ row' = IF r.settled /\ r.processed THEN [row EXCEPT ![drain.at].body = "stub"] ELSE row
         \/ next \in Delivery /\ Delivered(drain.work, next) /\ UNCHANGED row
  /\ UNCHANGED <<inboxVars, part, sides, lane, history, left>>

LaneWrites ==
  /\ lane.todo # <<>>
  /\ lane' = [lane EXCEPT !.todo = Tail(@)]
  /\ Delivered(lane.on, Head(lane.todo))
  /\ UNCHANGED <<inboxVars, row, part, sides, drain, history, left>>

----------------------------------------------------------------------------
(* The lane, as TurnLane has it, and the death of the process.             *)

LaneTakes(t) ==
  /\ lane.pc = "idle" /\ drain.pc # "running" /\ Yielded
  /\ turn[t].status \in {"runnable", "interrupted", "waiting"}
  /\ Ends(t, "running")
  /\ lane' = [lane EXCEPT !.pc = "running", !.on = t]
  /\ away' = away \cup {t}
  /\ UNCHANGED <<inboxVars, row, part, sides, drain, wire, read, served, astray, presumed, left>>

LaneEnds(status) ==
  /\ lane.pc = "running" /\ Yielded
  /\ status = "continuable" => Yields(lane.on)
  /\ Ends(lane.on, status)
  /\ lane' = [lane EXCEPT !.pc = IF status = "waiting" THEN "idle" ELSE "made"]
  /\ UNCHANGED <<inboxVars, row, part, sides, drain, history, left>>

\* The next process reclaims what ran, and doubts what was being sent.
Restart ==
  /\ left.crashes > 0
  /\ left' = [left EXCEPT !.crashes = @ - 1]
  /\ turn' = [t \in Update |-> IF turn[t].status = "running" THEN [turn[t] EXCEPT !.status = "interrupted"] ELSE turn[t]]
  /\ part' = [t \in Update |-> [l \in Lease |-> IF part[t][l] = "attempting" THEN "possibly" ELSE part[t][l]]]
  /\ poller' = [pc |-> "connecting", queue |-> {}]
  /\ gestiti' = {} /\ drain' = NoDrain /\ lane' = NoLane
  /\ UNCHANGED <<inboxVars, row, paused, history>>

----------------------------------------------------------------------------

Outcome == {"sent", "refused", "possibly"}
Ending == {"done", "waiting", "continuable"}

Polling == Connect \/ Poll \/ PollDone \/ \E u \in Update : ServeControl(u) \/ ControlDone(u)
DrainsUpdate == DrainEnds \/ Served
                \/ \E e \in drain.list : Skips(e) \/ Refuse(e) \/ Serve(e) \/ Bind(e) \/ Recover(e)
DrainsWork == Enqueue \/ Run \/ Resume \/ Asks \/ DeadRoute \/ Gone \/ DrainSends \/ DrainWrites
              \/ (\E s \in Ending : RunEnds(s)) \/ (\E o \in Outcome : DrainHears(o))
Lanes == LaneSends \/ LaneWrites \/ (\E t \in Update : LaneTakes(t))
         \/ (\E s \in Ending : LaneEnds(s)) \/ (\E o \in Outcome : LaneHears(o))

Next == Send \/ Polling \/ DrainsUpdate \/ DrainsWork \/ Lanes \/ Restart

Spec == Init /\ [][Next]_vars

\* The loops of the process go on, and a run of the model ends.
FairSpec == Spec /\ WF_vars(Polling) /\ WF_vars(DrainsUpdate \/ DrainsWork) /\ WF_vars(Lanes)

----------------------------------------------------------------------------

\* The shape of the state.
TypeOK ==
  /\ kind \in [Update -> Kind]
  /\ arrived \in 0 .. MaxUpdates /\ offset \in 1 .. MaxUpdates + 1
  /\ row \in [Update -> Row] /\ turn \in [Update -> Turn]
  /\ part \in [Update -> [Lease -> Part]] /\ paused \in BOOLEAN
  /\ poller \in Poller /\ gestiti \in SUBSET Update /\ drain \in Drain /\ lane \in Lane
  /\ wire \in [Update -> [Lease -> Nat]]
  /\ read \in [Update -> Nat] /\ served \in [Update -> Nat]
  /\ away \in SUBSET Update /\ astray \in SUBSET Update /\ presumed \in SUBSET Update
  /\ left \in [crashes : 0 .. MaxCrashes, refusals : 0 .. MaxRefusals]

\* No update is lost between the server, which forgets what is below the
\* offset, and the inbox; and no body is retired of one that is yet to be read
\* again: accept (updates.ts:263) and scrubSettledPayload (updates.ts:366).
EveryUpdateIsHeld ==
  /\ \A u \in 1 .. arrived : u < offset => row[u].body # "none"
  /\ \A u \in Pending(row) : row[u].body = "raw"

\* An answer is accepted by Telegram once, whoever sends it, whatever crashes,
\* and however often its event is looked at again: delivery.ts:392. A turn
\* resumed for an event that was bound before the turn was there to resume is
\* answered under the plan of that event (router.ts:506), and again by its own.
AnswerSentOnce == \A t \in Update \ astray, l \in Lease : wire[t][l] <= 1

\* A message is consumed only when a turn has begun with its words, and no
\* second turn ever does: the fault matrix of inbound-unit.test.ts.
ConsumedWasRead ==
  \A u \in Update : kind[u] = "text" =>
    /\ read[u] <= 1
    /\ row[u].processed => read[u] = 1

\* When every event of a turn is closed, and no lane has had that turn, its
\* owner has been sent what it answered, or may have been: router.ts:443. But a
\* turn that went on after its event was settled and before it was marked: what
\* recover takes for the proof of its delivery is that of the lease before.
ClosedWasTold ==
  \A t \in Update :
    /\ turn[t].status = "done" /\ t \notin away \cup astray \cup presumed
    /\ \A u \in Update : row[u].work = t => row[u].processed
    => wire[t][turn[t].lease] = 1 \/ Uncertain(t) \/ turn[t].delivery = "undeliverable"

\* What is closed was read by one turn and answered: both of them.
ClosedWasServed == ConsumedWasRead /\ ClosedWasTold

\* A recorded delivery happened, or is still being attempted.
SentIsTrue ==
  \A t \in Update : turn[t].delivery = "sent" =>
    wire[t][turn[t].lease] >= 1 \/ Plan(t) = "attempting"

\* A command of the owner is carried out once by a process that lives on.
CommandsRunOnce ==
  left.crashes = Crashes =>
    \A u \in Update : kind[u] = "control" => served[u] <= 1

\* What is said instead of a lease that would die like those before it is sent
\* before it is recorded as sent: runAgentWork (work.ts:258).
RefusalIsSent == [][drain.pc = "refused" => drain'.todo # Then("sent")]_vars

\* What comes in while a drain runs does not wait for the next message to come:
\* every update is served, or bound to a turn, or held by a pause. A text that
\* a drain has passed over before it serves the resume is ResumeRestarts.
\* scheduleDrain (connector.ts:1740).
EveryUpdateIsServed ==
  \A u \in Update : u <= arrived
    ~> \/ row[u].processed
       \/ u \in Words /\ (row[u].work # None \/ paused \/ \E c \in Update : kind[c] = "control")

\* A text that is held starts as the pause ends: controlla (connector.ts:1821).
ResumeRestarts ==
  \A u \in Update : u \in Words /\ u <= arrived
    ~> (row[u].processed \/ row[u].work # None \/ paused)
=============================================================================
