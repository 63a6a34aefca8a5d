--------------------------- MODULE TurnLifecycle ---------------------------
(***************************************************************************)
(* What the durable turn record promises to the rest of the runtime, with  *)
(* no processes, no crashes and no memory: a turn is work that is owed     *)
(* until it is done; it is worked on under one ticket at a time; tickets   *)
(* are never reused; only the ticket the row carries writes the row; and a *)
(* finished turn is final.                                                 *)
(***************************************************************************)
EXTENDS Naturals

CONSTANT Turn

VARIABLES phase,   \* where the work stands
          ticket,  \* the ticket the work is claimed under; 0 when it is not
          issued,  \* the number of tickets issued
          author   \* the ticket that wrote the saved transcript

vars == <<phase, ticket, issued, author>>

Phase == {"absent", "owed", "claimed", "yielded", "done"}

Init ==
  /\ phase = [t \in Turn |-> "absent"]
  /\ ticket = [t \in Turn |-> 0]
  /\ issued = 0
  /\ author = [t \in Turn |-> 0]

Submit(t) ==
  /\ phase[t] = "absent"
  /\ phase' = [phase EXCEPT ![t] = "owed"]
  /\ UNCHANGED <<ticket, issued, author>>

\* A new ticket, later than every one before it.
Take(t) ==
  /\ phase[t] \in {"absent", "owed"}
  /\ phase' = [phase EXCEPT ![t] = "claimed"]
  /\ issued' = issued + 1
  /\ ticket' = [ticket EXCEPT ![t] = issued']
  /\ UNCHANGED author

\* A yielded turn resumes from a transcript that some claim of it has saved.
Renew(t) ==
  /\ phase[t] = "yielded"
  /\ phase' = [phase EXCEPT ![t] = "claimed"]
  /\ issued' = issued + 1
  /\ ticket' = [ticket EXCEPT ![t] = issued']
  /\ \E a \in 0 .. author[t] : author' = [author EXCEPT ![t] = a]

Write(t) ==
  /\ phase[t] = "claimed"
  /\ author' = [author EXCEPT ![t] = ticket[t]]
  /\ UNCHANGED <<phase, ticket, issued>>

\* The holder saves and lets go: to wait, to be renewed, or for good.
Settle(t, to) ==
  /\ phase[t] = "claimed"
  /\ phase' = [phase EXCEPT ![t] = to]
  /\ ticket' = [ticket EXCEPT ![t] = 0]
  /\ author' = [author EXCEPT ![t] = ticket[t]]
  /\ UNCHANGED issued

\* The claim is taken away; the transcript stays as it was last saved.
Revoke(t) ==
  /\ phase[t] = "claimed"
  /\ phase' = [phase EXCEPT ![t] = "owed"]
  /\ ticket' = [ticket EXCEPT ![t] = 0]
  /\ UNCHANGED <<issued, author>>

Next ==
  \E t \in Turn :
    \/ Submit(t) \/ Take(t) \/ Renew(t) \/ Write(t) \/ Revoke(t)
    \/ \E to \in {"owed", "yielded", "done"} : Settle(t, to)

Spec == Init /\ [][Next]_vars
=============================================================================
