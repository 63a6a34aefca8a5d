---------------------------- MODULE DurableLock ----------------------------
(***************************************************************************)
(* One row of the database that at most one live process holds             *)
(* (core/lock/durable.ts): the gateway's claim on the home                 *)
(* (core/gateway/lock.ts) and the lock of proactive sends                  *)
(* (core/scheduler/sendlock.ts) are two of them.                           *)
(*                                                                         *)
(* The row names a pid and the acquisition that wrote it (holder_id, minted*)
(* fresh each time and kept in the memory of the instance that won).  A    *)
(* holder that is dead is replaced at once; one that is alive and has not  *)
(* refreshed its claim inside the hard horizon is replaced too.            *)
(***************************************************************************)
EXTENDS Naturals

CONSTANTS
  Process,   \* processes that open the database, one instance of the lock each
  Pid,       \* pids: two containers that share a home can use the same one
  PidOf      \* the pid of each process

VARIABLES
  row,     \* pid and acquisition on the row, and whether it is past the horizon
  up,      \* the processes that are running
  holds,   \* those that have acquired the lock and have not released it yet
  late     \* history: holders that let the horizon pass without a refresh

vars == <<row, up, holds, late>>

----------------------------------------------------------------------------

NoPid == "no pid"

\* The acquisition of a process that has since ended: no memory has its token.
Gone == "gone"

Row == [pid : Pid \cup {NoPid}, by : Process \cup {Gone}, old : BOOLEAN]

\* heldBy: free, dead and stale past the hard horizon are one answer.  Liveness
\* is that of the incarnation in the token, not of the pid.
Held == row.pid # NoPid /\ row.by \in up /\ ~row.old

\* isCurrentHolder: the row carries this very acquisition.
Current(p) == row.pid = PidOf[p] /\ row.by = p

\* A released row: only the pid is cleared, but nothing else of it is read then.
FreeRow == [pid |-> NoPid, by |-> Gone, old |-> FALSE]

Claimed(p) == [pid |-> PidOf[p], by |-> p, old |-> FALSE]

Init ==
  /\ row = FreeRow
  /\ up = Process
  /\ holds = {}
  /\ late = {}

----------------------------------------------------------------------------

\* acquire, in one immediate transaction.  A process that asks again while it
\* holds the row is refused like anyone else.
Acquire(p) ==
  /\ p \in up
  /\ ~Held
  /\ row' = Claimed(p)
  /\ holds' = holds \cup {p}
  /\ late' = late \ {p}
  /\ UNCHANGED up

\* refresh succeeds: the row is still this acquisition, inside the horizon.
Refreshable(p) == Current(p) /\ ~row.old

Refresh(p) ==
  /\ p \in holds
  /\ Refreshable(p)
  /\ row' = [row EXCEPT !.old = FALSE]
  /\ UNCHANGED <<up, holds, late>>

\* The row that release leaves: it asks for the pid and not for the token.
Released(p) == IF row.pid = PidOf[p] THEN FreeRow ELSE row

Release(p) ==
  /\ p \in holds
  /\ row' = Released(p)
  /\ holds' = holds \ {p}
  /\ UNCHANGED <<up, late>>

\* The hard horizon passes, six times the horizon of the lock, with no refresh.
Age ==
  /\ row.pid # NoPid /\ ~row.old
  /\ row' = [row EXCEPT !.old = TRUE]
  /\ late' = late \cup ({row.by} \cap up)
  /\ UNCHANGED <<up, holds>>

\* A process ends, however it does; its claim stays on the row.
Die(p) ==
  /\ p \in up
  /\ up' = up \ {p}
  /\ holds' = holds \ {p}
  /\ late' = late \ {p}
  /\ row' = IF row.by = p THEN [row EXCEPT !.by = Gone] ELSE row

Start(p) ==
  /\ p \in Process \ up
  /\ up' = up \cup {p}
  /\ UNCHANGED <<row, holds, late>>

Next ==
  \/ Age
  \/ \E p \in Process : Acquire(p) \/ Refresh(p) \/ Release(p) \/ Die(p) \/ Start(p)

Spec == Init /\ [][Next]_vars

----------------------------------------------------------------------------
(* Properties.                                                             *)

TypeOK ==
  /\ row \in Row
  /\ up \in SUBSET Process
  /\ holds \in SUBSET up
  /\ late \in SUBSET up

\* A holder that keeps to its horizon is not dispossessed: whatever the others
\* do, acquiring, crashing, restarting, releasing late, the row is still its own.
PunctualKeeps == \A p \in holds \ late : Current(p)

\* Two processes hold the lock at once only if one of them has let its horizon
\* pass (HARD_STALE_MULTIPLIER says that is a process wedged for good).
Exclusive == \A p, q \in holds : p # q => p \in late \/ q \in late

\* durable.ts on release: "a release must never free a lock this run does not
\* hold".
FreesItsOwn ==
  [][\A p \in holds : p \notin holds' /\ p \in up' => Current(p) \/ row' = row]_vars
=============================================================================
