------------------------------- MODULE MCPeer -------------------------------
(***************************************************************************)
(* The peer with a read buffer of two symbols, so that every answer takes  *)
(* several reads; the longest line fills its buffer exactly.               *)
(***************************************************************************)
EXTENDS Peer
=============================================================================
