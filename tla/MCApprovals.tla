---- MODULE MCApprovals ----
EXTENDS Approvals
====
