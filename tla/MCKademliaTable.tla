-------------------------- MODULE MCKademliaTable --------------------------
(* A 3-bit table with the local node at 0: bucket 0 holds 4..7, bucket 1   *)
(* holds 2..3, bucket 2 holds 1.  MCPeers puts two hashnames in bucket 0   *)
(* so that maxPeers = 1 and maxCandidates = 1 overflow there, and one in   *)
(* each other bucket so that findKey's walk crosses every bucket.          *)
(* MCPeersCrowded puts three in bucket 0 for the promotion capacity check. *)
(* MCBadNames stands for a string that is not base32 and one that decodes  *)
(* to the wrong number of bytes.                                           *)
EXTENDS KademliaTable

MCPeers        == {0, 1, 2, 4, 5}
MCPeersCrowded == {4, 5, 6}
MCRouters      == {1, 6}
MCLookupSizes  == {0, 1, 2}
=============================================================================
