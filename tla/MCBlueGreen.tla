---------------------------- MODULE MCBlueGreen ----------------------------
(***************************************************************************)
(* Instances of BlueGreen for TLC.  Four invocations are two successful    *)
(* deployments, one that ends half-way and one that meets what it left.    *)
(***************************************************************************)
EXTENDS BlueGreen
=============================================================================
