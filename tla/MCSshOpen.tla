----------------------------- MODULE MCSshOpen -----------------------------
(***************************************************************************)
(* Instances of SshOpen for TLC.  With three challenges an answer to the   *)
(* first can be late for the second and for the third; the frames allow a  *)
(* duplicate and a Ping besides the answers.                               *)
(***************************************************************************)
EXTENDS SshOpen
=============================================================================
