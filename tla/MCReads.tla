------------------------------ MODULE MCReads ------------------------------
(***************************************************************************)
(* Instances of ReadProperties for TLC: two reads that share a pool of one *)
(* connection, a change of the tables, a dead connection and a shutdown.   *)
(***************************************************************************)
EXTENDS ReadProperties, SampleRequests

CONSTANTS r1, r2

MCMixes == {[c \in Readers |-> IF c = r1 THEN "context" ELSE "readiness"],
            [c \in Readers |-> IF c = r1 THEN "status" ELSE "availability"]}
=============================================================================
