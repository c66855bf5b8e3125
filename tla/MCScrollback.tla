---------------------------- MODULE MCScrollback ----------------------------
(***************************************************************************)
(* Instances of Scrollback for TLC.  MaxChunk exceeds MaxBytes so that one *)
(* chunk can be larger than the whole scrollback, and MaxOutput exceeds    *)
(* both so that bytes age out while a reader lags behind.                  *)
(***************************************************************************)
EXTENDS Scrollback

CONSTANTS r1, r2
=============================================================================
