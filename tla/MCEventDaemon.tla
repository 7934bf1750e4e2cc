---------------------------- MODULE MCEventDaemon ----------------------------
(***************************************************************************)
(* Instances of EventDaemon: two pages on one submission, so that one      *)
(* poller can be passed over for the other, and a buffer that overflows.   *)
(***************************************************************************)
EXTENDS EventDaemon
=============================================================================
