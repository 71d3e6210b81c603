--------------------------- MODULE ActivePeerSet ---------------------------
(***************************************************************************)
(* What the routing table promises the mesh about active peers (spec      *)
(* sections 3 and 4.3): a set of linked hashnames, never the local one,    *)
(* with at most Capacity of them in any one bucket.  A hashname is linked  *)
(* while its bucket has room and unlinked on deactivation; candidates and  *)
(* pending peers are not active and are invisible here.                    *)
(***************************************************************************)
EXTENDS Integers, FiniteSets

CONSTANTS
  Names,      \* hashnames the mesh may link
  Bucket,     \* Bucket[h]: the bucket of h, -1 for the local hashname
  Capacity    \* active peers a bucket holds

VARIABLE active   \* the linked hashnames

InBucket(b) == {h \in active : Bucket[h] = b}

Init == active = {}

\* A hashname is linked when its bucket has room.
Link(h) ==
  /\ Bucket[h] >= 0
  /\ h \notin active
  /\ Cardinality(InBucket(Bucket[h])) < Capacity
  /\ active' = active \cup {h}

\* A linked hashname is unlinked.
Unlink(h) ==
  /\ h \in active
  /\ active' = active \ {h}

Next == \E h \in Names : Link(h) \/ Unlink(h)

Spec == Init /\ [][Next]_active

=============================================================================
