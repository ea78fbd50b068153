---------------------------- MODULE MCSyncWrapper ----------------------------
(***************************************************************************)
(* Instances of SyncWrapper for TLC.  Calls of can_net_sync_send share     *)
(* nothing but the network, so one is enough; the receivers share a buffer.*)
(***************************************************************************)
EXTENDS SyncWrapper

MCMsgs == {"msg"}
MCKey == [m \in MCMsgs |-> "key"]
NoTimeout == -1
=============================================================================
