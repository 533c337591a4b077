---------------------------- MODULE MCPeerManager ----------------------------
(***************************************************************************)
(* Channels of one, so that senders have to wait.                          *)
(***************************************************************************)
EXTENDS PeerManager
=============================================================================
