------------------------------ MODULE MCRdmaConnect ----------------------------
EXTENDS RdmaConnect, TLC

CONSTANTS s1, s2

\* The server that may be connected first has the higher id.
MCNodeID == (s1 :> 1) @@ (s2 :> 0)

MCCalls == [srv : {s1}, mgmt : BOOLEAN, mem : {FALSE}]
           \cup [srv : {s1}, mgmt : {FALSE}, mem : {TRUE}]
           \cup [srv : {s2}, mgmt : {FALSE}, mem : {FALSE}]
================================================================================
