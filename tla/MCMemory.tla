---- MODULE MCMemory ----
EXTENDS Memory

OwnPid == CHOOSE f \in [Process -> Pid] : \A p, q \in Process : p # q => f[p] # f[q]

\* The second thing said is another one, and the proposal agrees with neither.
Objects == [x \in Episode \cup Proposal |-> x]
Evidence == [q \in Proposal |-> 1]
====
