---- MODULE MCCommitments ----
EXTENDS Commitments

\* Every process has a pid of its own.
OwnPid == CHOOSE f \in [Process -> Pid] : \A p, q \in Process : p # q => f[p] # f[q]
====
