----------------------------- MODULE MCFraming -----------------------------
(***************************************************************************)
(* Instances of Framing for TLC.  Payloads on both sides of the limit and  *)
(* of the step to a length of two bytes: one of 5 makes a frame of 7, one  *)
(* of 6 a frame of 9, exactly at the limit, one of 7 is over it.  The      *)
(* contents look like variants and lengths, so that a reader out of step   *)
(* would find frames in them.                                              *)
(***************************************************************************)
EXTENDS Framing

MCPayloads == {<<>>, <<0, 1, 5, 2, 0>>, <<0, 1, 5, 0, 2, 0>>, <<0, 1, 5, 5, 0, 1, 5>>}
=============================================================================
