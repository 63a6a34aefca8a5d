----------------------------- MODULE ModelLane -----------------------------
(***************************************************************************)
(* The one token of a process that whoever calls the model must hold       *)
(* (core/turns/model-lane.ts), and its clients:                            *)
(*   jobs      Scheduler.tick: takes it or defers to the next beat         *)
(*   lane      TurnLane.tick: the same                                     *)
(*   Terminal  a turn forwarded by a terminal (core/gateway/forward.ts):   *)
(*             polls for it, gives up when it is cancelled                 *)
(*   Room      a turn that arrives from a connector                        *)
(*             (connectors/shared/ingress/work.ts): polls for it too       *)
(*                                                                         *)
(* Everything runs on one event loop: a step is what runs between two      *)
(* awaits.  The token does not name its holder but his identity, and every *)
(* client except the scheduler has the same one, LANE_TURNS.               *)
(***************************************************************************)
EXTENDS Integers

CONSTANTS
  Room,        \* conversations of the connectors
  Terminal     \* turns forwarded by a terminal

ASSUME DistinctClients ==
  /\ Room \cap Terminal = {}
  /\ {"jobs", "lane"} \cap (Room \cup Terminal) = {}

VARIABLES
  holder,   \* identity of the holder of the token
  pc,       \* what each client is doing
  stop,     \* the visitors whose signal is aborted
  owner     \* stillOwner: the claim of this gateway stands

vars == <<holder, pc, stop, owner>>

----------------------------------------------------------------------------

Nobody == "none"
Visitor == Room \cup Terminal
Client == Visitor \cup {"jobs", "lane"}

Identity(c) == IF c = "jobs" THEN "jobs" ELSE "turns"

\* opening: the live sinks of a room are being opened; waiting: polling for the
\* token; deaf: the same, with a signal nobody can abort; stopped: past the poll
\* with an aborted signal and no token, about to run into an aborted turn.
Pc == {"idle", "opening", "waiting", "deaf", "stopped", "working"}

Free == holder = Nobody

Take(c) == holder' = Identity(c)

\* Fault: the holder's identity is not asked.
Fault_ReleaseAny(c) == Nobody

Released(c) == IF holder = Identity(c) THEN Nobody ELSE holder

Goes(c, where) == pc' = [pc EXCEPT ![c] = where]

\* The signal goes with the turn it was for.
Quits(c) == Goes(c, "idle") /\ stop' = stop \ {c}

Init ==
  /\ holder = Nobody
  /\ pc = [c \in Client |-> "idle"]
  /\ stop = {}
  /\ owner = TRUE

----------------------------------------------------------------------------
(* The two beats.                                                          *)

JobStarts ==
  /\ pc["jobs"] = "idle"
  /\ Free /\ owner
  /\ Take("jobs") /\ Goes("jobs", "working")
  /\ UNCHANGED <<stop, owner>>

\* A row is due: which one is TurnLane's matter.
LaneStarts ==
  /\ pc["lane"] = "idle"
  /\ Free /\ owner
  /\ Take("lane") /\ Goes("lane", "working")
  /\ UNCHANGED <<stop, owner>>

(* Visitors.                                                               *)

\* The router asks busy() once, before it opens the live sinks of the room.
Arrive(c) ==
  /\ c \in Room /\ pc[c] = "idle"
  /\ Free
  /\ Goes(c, "opening")
  /\ UNCHANGED <<holder, stop, owner>>

\* Busy, and the event continues a turn: it waits, with no live sinks to stop it.
\* (An event that continues none becomes a row of the lane.)
ArriveContinuing(c) ==
  /\ c \in Room /\ pc[c] = "idle"
  /\ ~Free
  /\ Goes(c, "deaf")
  /\ UNCHANGED <<holder, stop, owner>>

Opened(c) ==
  /\ pc[c] = "opening"
  /\ Goes(c, "waiting")
  /\ UNCHANGED <<holder, stop, owner>>

Forward(c) ==
  /\ c \in Terminal /\ pc[c] = "idle"
  /\ Goes(c, "waiting")
  /\ UNCHANGED <<holder, stop, owner>>

\* /stop, a cancel frame, or the last observer that disconnects.
Stop(c) ==
  /\ pc[c] \in {"opening", "waiting", "working"}
  /\ stop' = stop \cup {c}
  /\ UNCHANGED <<holder, pc, owner>>

Polls(c) == pc[c] = "deaf" \/ (pc[c] = "waiting" /\ c \notin stop)

Obtain(c) ==
  /\ Polls(c) /\ Free
  /\ c \in Terminal => owner
  /\ Take(c) /\ Goes(c, "working")
  /\ UNCHANGED <<stop, owner>>

Stopped(c) == pc[c] = "waiting" /\ c \in stop

\* A room proceeds to a turn that returns at once without calling the model.
ProceedStopped(c) ==
  /\ c \in Room /\ Stopped(c)
  /\ Goes(c, "stopped")
  /\ UNCHANGED <<holder, stop, owner>>

\* A terminal, cancelled or without the gateway's claim, runs nothing.
GiveUp(c) ==
  /\ c \in Terminal
  /\ Stopped(c) \/ (pc[c] = "waiting" /\ ~owner)
  /\ Quits(c)
  /\ UNCHANGED <<holder, owner>>

(* Endings.                                                                *)

\* Fault: a terminal that fails forgets to release.
Fault_LeaveHolding(c) ==
  /\ holder' = IF c \in Terminal /\ c \in stop THEN holder ELSE Released(c)
  /\ Quits(c)

\* The finally of every client, which a stopped room runs without the token.
Leave(c) ==
  /\ holder' = Released(c)
  /\ Quits(c)

\* Fault: a turn that is aborted at work never comes to its end.
Fault_AbortHangs(c) ==
  /\ pc[c] = "stopped" \/ (pc[c] = "working" /\ c \notin stop)
  /\ Leave(c)
  /\ UNCHANGED <<owner>>

End(c) ==
  /\ pc[c] \in {"working", "stopped"}
  /\ Leave(c)
  /\ UNCHANGED <<owner>>

LoseClaim ==
  /\ owner
  /\ owner' = FALSE
  /\ UNCHANGED <<holder, pc, stop>>

----------------------------------------------------------------------------

Visit(c) ==
  \/ Arrive(c) \/ ArriveContinuing(c) \/ Opened(c) \/ Forward(c)
  \/ Stop(c) \/ Obtain(c) \/ ProceedStopped(c) \/ GiveUp(c)

Next ==
  \/ JobStarts \/ LaneStarts \/ LoseClaim
  \/ \E c \in Visitor : Visit(c)
  \/ \E c \in Client : End(c)

Spec == Init /\ [][Next]_vars

----------------------------------------------------------------------------
(* Properties.                                                             *)

\* Every variable has its type.
TypeOK ==
  /\ holder \in {Nobody, "jobs", "turns"}
  /\ pc \in [Client -> Pc]
  /\ stop \in SUBSET Visitor
  /\ owner \in BOOLEAN

\* A job at work holds the token in its own name: no turn that ends late, or
\* that never had the token, releases it (the guard of `release`).
JobKeepsItsToken == pc["jobs"] = "working" <=> holder = "jobs"

\* The token is never lost: whoever the holder is, somebody of that identity is
\* at work and will release it, on every exit of every client.
TokenHasAWorker ==
  holder # Nobody => \E c \in Client : Identity(c) = holder /\ pc[c] = "working"

\* Both: the token is neither taken from the one at work nor left behind by it.
TokenIsKept == JobKeepsItsToken /\ TokenHasAWorker

\* model-lane.ts on release: a client that was refused the token "cannot release
\* work somebody else is doing"; forward.ts: two turns "non chiamano mai il
\* modello insieme".  At most one client is at work.
OneAtWork == \A c, d \in Client : pc[c] = "working" /\ pc[d] = "working" => c = d
=============================================================================
