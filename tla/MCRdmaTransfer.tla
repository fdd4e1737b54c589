----------------------------- MODULE MCRdmaTransfer ----------------------------
EXTENDS RdmaTransfer, TLC

CONSTANTS c1, s1, s2

\* The second server is only accessed.
MCOps == (c1 :> {"access", "request", "send", "mcast", "receive"})
         @@ (s1 :> {"send", "mcast", "receive"}) @@ (s2 :> {})
================================================================================
