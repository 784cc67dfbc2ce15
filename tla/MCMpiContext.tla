---------------------------- MODULE MCMpiContext ----------------------------
(* Instances of MpiContext for TLC. *)
EXTENDS MpiContext

CONSTANTS p1, p2, k1, k2, k3

\* p1 and p2 are invocations, k1 has two requests, the other collectives one.
MCNReq == [o \in Ops |-> CASE o \in {p1, p2} -> 0 [] o = k1 -> 2 [] OTHER -> 1]

\* All collectives on one communicator, or k3 on a second one.
MCCommOf == [k \in Managed |-> IF k = k3 THEN 1 ELSE 0]
=============================================================================
