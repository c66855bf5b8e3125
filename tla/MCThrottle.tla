---------------------------- MODULE MCThrottle ----------------------------
(***************************************************************************)
(* Instances of Throttle for TLC: the largest chunk is as large as the     *)
(* burst, which the rate does not divide, so that sleeps are rounded and   *)
(* the bucket runs empty.                                                  *)
(***************************************************************************)
EXTENDS Throttle
=============================================================================
