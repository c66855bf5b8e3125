----------------------------- MODULE MCGateway -----------------------------
(***************************************************************************)
(* Instances of Gateway for TLC.  Two connections reach every race between *)
(* a handler that tears a session down and one that resumes it; two        *)
(* sessions with a cap of one make the control plane refuse.               *)
(***************************************************************************)
EXTENDS Gateway, TLC

GatewaySymmetry == Permutations(Conns) \cup Permutations(Sids)
=============================================================================
