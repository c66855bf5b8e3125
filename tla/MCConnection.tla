---------------------------- MODULE MCConnection ----------------------------
(***************************************************************************)
(* Instances of Connection for TLC.  Channels of capacity one fill up with *)
(* few frames: with three, one is being written by the actor, one is in    *)
(* the channel and one is held by receiver_loop.                           *)
(***************************************************************************)
EXTENDS Connection
=============================================================================
