---------------------------- MODULE MCSshActor ----------------------------
(***************************************************************************)
(* Instances of SshActor for TLC.  With room for two of each every wait    *)
(* for room happens; the wait cycle takes four keystrokes (one read, two   *)
(* in the window, one in write_all), and six let it close after others     *)
(* went through.                                                           *)
(***************************************************************************)
EXTENDS SshActor
=============================================================================
