--------------------------- MODULE KademliaTable ---------------------------
(***************************************************************************)
(* The Kademlia routing table of src/modules/dht/kademlia/table.go.        *)
(*                                                                         *)
(* Every exported operation takes the table's write lock (read lock for    *)
(* findKey) for its whole body and does no I/O under it, so each one is a  *)
(* single atomic action here.  Hashnames are KeyBits-bit integers, so the  *)
(* XOR metric and the bucket index keep their meaning at a small width:    *)
(* the table has KeyBits buckets instead of 256.  Mesh tags are numbered   *)
(* in the order the mesh hands them to activatePeer; `releases` counts the *)
(* Release calls made on each one.                                         *)
(***************************************************************************)
EXTENDS Integers, Sequences, SequencesExt, FiniteSets, Bitwise

CONSTANTS
  KeyBits,            \* width of a hashname (KeyLen * 8 in the code)
  Local,              \* t.localHashname
  MaxPeers,           \* maxPeers
  MaxCandidates,      \* maxCandidates
  MaxRouters,         \* maxRoutersPerCandidate
  DefaultLookupSize,  \* defaultLookupSize
  Peers,              \* hashnames the mesh and the DHT pass to the table
  Routers,            \* hashnames that may introduce a candidate
  MaxTags             \* bound: number of mesh tags handed to activatePeer

Hashname   == 0..(2^KeyBits - 1)
NumBuckets == KeyBits
Buckets    == 0..(NumBuckets - 1)
Tags       == 1..MaxTags

ASSUME /\ KeyBits \in Nat \ {0}
       /\ Local \in Hashname
       /\ Peers \subseteq Hashname
       /\ Routers \subseteq Hashname
       /\ {MaxPeers, MaxCandidates, MaxRouters, DefaultLookupSize} \subseteq Nat \ {0}
       /\ MaxTags \in Nat

VARIABLES
  peers,       \* peers[b]: bucket b's active list, records [hn, tag]
  candidates,  \* candidates[b]: records [hn, routers]
  pending,     \* pending[b]: records [hn, routers] taken by nextCandidate
  nextTag,     \* number of mesh tags handed to the table so far
  releases     \* releases[t]: how many times tag t was released

vars == <<peers, candidates, pending, nextTag, releases>>

-----------------------------------------------------------------------------
(* Distance helpers (distance.go of the kademlia package).                 *)

\* keyDistance / distance: the XOR of two hashnames (tabulated once, as
\* ^^ is evaluated bit by bit).
XorTable == [p \in Hashname \X Hashname |-> p[1] ^^ p[2]]
Distance(a, b) == XorTable[<<a, b>>]

\* bucketFromDistance: -1 for the zero distance, else the number of leading
\* zero bits, i.e. (NumBuckets - 1) minus the index of the highest set bit.
BucketFromDistance(d) ==
  IF d = 0 THEN -1
  ELSE NumBuckets - 1 - (CHOOSE p \in 0..(KeyBits - 1) : 2^p <= d /\ d < 2^(p + 1))

BucketTable == [hn \in Hashname |-> BucketFromDistance(Distance(Local, hn))]
BucketOf(hn) == BucketTable[hn]

-----------------------------------------------------------------------------
(* The list scans of table.go: each stops at the first match (`break`).    *)

Holds(s, hn)   == \E i \in 1..Len(s) : s[i].hn = hn
IndexOf(s, hn) == SelectInSeq(s, LAMBDA e : e.hn = hn)
Without(s, hn) == RemoveFirstMatch(s, LAMBDA e : e.hn = hn)

\* tag.Release()
Release(t) == releases' = [releases EXCEPT ![t] = @ + 1]

\* Mutant of MergeRouters: the trim to maxRoutersPerCandidate is forgotten.
MergeRoutersUntrimmed(rs, router) ==
  rs \o SelectSeq(rs, LAMBDA r : r # router)

\* the router merge of addCandidate: the loop ranges over the slice as it was
\* and appends every router different from the new one; then the trim.
MergeRouters(rs, router) ==
  LET merged == rs \o SelectSeq(rs, LAMBDA r : r # router)
  IN  IF Len(merged) > MaxRouters THEN SubSeq(merged, 1, MaxRouters) ELSE merged

\* Mutant of UpdatePeerTag: the new tag replaces the old one unreleased.
UpdatePeerTagNoRelease(b, hn, tag) ==
  LET i == IndexOf(peers[b], hn)
  IN  /\ UNCHANGED releases
      /\ peers' = [peers EXCEPT ![b][i].tag = tag]

\* the update loop of activatePeer: hn is already active, so the entry's
\* old tag is released and the new one takes its place.
UpdatePeerTag(b, hn, tag) ==
  LET i == IndexOf(peers[b], hn)
  IN  /\ Release(peers[b][i].tag)
      /\ peers' = [peers EXCEPT ![b][i].tag = tag]

\* Mutant of Known: the scan of the pending list is left out.
KnownActiveOnly(b, hn) == Holds(peers[b], hn)

\* the early returns of addCandidate: hn is an active or a pending peer.
Known(b, hn) == Holds(peers[b], hn) \/ Holds(pending[b], hn)

\* Mutant of TooManyPeers: the capacity test lets one peer too many in.
TooManyPeersOffByOne(b) == Len(peers[b]) > MaxPeers

\* the capacity test of activatePeer.
TooManyPeers(b) == Len(peers[b]) >= MaxPeers

-----------------------------------------------------------------------------
Init ==
  /\ peers      = [b \in Buckets |-> <<>>]
  /\ candidates = [b \in Buckets |-> <<>>]
  /\ pending    = [b \in Buckets |-> <<>>]
  /\ nextTag    = 0
  /\ releases   = [t \in Tags |-> 0]

\* activatePeer(hn, tag): the mesh hands over a new tag for hn.
ActivatePeer(hn) ==
  LET b   == BucketOf(hn)
      tag == nextTag + 1
  IN
  /\ nextTag < MaxTags
  /\ nextTag' = tag
  /\ UNCHANGED candidates
  /\ \/ /\ b < 0                                   \* cannot link self
        /\ Release(tag)
        /\ UNCHANGED <<peers, pending>>
     \/ /\ b >= 0
        /\ pending' = [pending EXCEPT ![b] = Without(@, hn)]
        /\ \/ /\ Holds(peers[b], hn)               \* attempt to update peer
              /\ UpdatePeerTag(b, hn, tag)
           \/ /\ ~Holds(peers[b], hn)              \* too many peers
              /\ TooManyPeers(b)
              /\ Release(tag)
              /\ UNCHANGED peers
           \/ /\ ~Holds(peers[b], hn)              \* add peer
              /\ ~TooManyPeers(b)
              /\ peers' = [peers EXCEPT ![b] = Append(@, [hn |-> hn, tag |-> tag])]
              /\ UNCHANGED releases

\* deactivatePeer(hn): drop hn from the three lists of its bucket.
DeactivatePeer(hn) ==
  LET b == BucketOf(hn)
  IN
  /\ b >= 0                                        \* cannot unlink self
  /\ IF Holds(peers[b], hn)
       THEN Release(peers[b][IndexOf(peers[b], hn)].tag)
       ELSE UNCHANGED releases
  /\ peers'      = [peers      EXCEPT ![b] = Without(@, hn)]
  /\ candidates' = [candidates EXCEPT ![b] = Without(@, hn)]
  /\ pending'    = [pending    EXCEPT ![b] = Without(@, hn)]
  /\ UNCHANGED nextTag

\* addCandidate(hn, router).  Self, active and pending hashnames return
\* early without a change, which is a stuttering step.
AddCandidate(hn, router) ==
  LET b == BucketOf(hn)
  IN
  /\ b >= 0
  /\ ~Known(b, hn)
  /\ \/ /\ Holds(candidates[b], hn)                \* attempt to update
        /\ LET i == IndexOf(candidates[b], hn)
           IN  candidates' = [candidates EXCEPT ![b][i].routers = MergeRouters(@, router)]
     \/ /\ ~Holds(candidates[b], hn)               \* attempt to add
        /\ Len(candidates[b]) < MaxCandidates
        /\ candidates' = [candidates EXCEPT ![b] = Append(@, [hn |-> hn, routers |-> <<router>>])]
  /\ UNCHANGED <<peers, pending, nextTag, releases>>

\* nextCandidate(): the first bucket, in index order, that is not full or
\* about to be full and has a candidate moves its first candidate to pending.
\* When no bucket qualifies it returns nil and changes nothing.
Promotable(b) ==
  /\ Len(peers[b]) + Len(pending[b]) # MaxPeers
  /\ Len(candidates[b]) > 0

NextCandidate ==
  /\ \E b \in Buckets : Promotable(b)
  /\ LET b == CHOOSE b \in Buckets : Promotable(b) /\ \A c \in 0..(b - 1) : ~Promotable(c)
     IN  /\ pending'    = [pending    EXCEPT ![b] = Append(@, Head(candidates[b]))]
         /\ candidates' = [candidates EXCEPT ![b] = Tail(@)]
  /\ UNCHANGED <<peers, nextTag, releases>>

Next ==
  \/ \E hn \in Peers : ActivatePeer(hn) \/ DeactivatePeer(hn)
  \/ \E hn \in Peers, r \in Routers : AddCandidate(hn, r)
  \/ NextCandidate

Spec == Init /\ [][Next]_vars

-----------------------------------------------------------------------------
(* findKey(key, n): read-only lookup under the read lock.                  *)

ActiveIn(j) ==
  IF j \in Buckets THEN {peers[j][x].hn : x \in 1..Len(peers[j])} ELSE {}

ActiveSet == UNION {ActiveIn(b) : b \in Buckets}

\* Mutant of SortByDistance: sorts by the peerInfo.distance stored at
\* activation, the distance to the local hashname, not to the key.
SortByLocalDistance(S, key) ==
  [j \in 1..Cardinality(S) |->
     CHOOSE x \in S : Cardinality({y \in S : Distance(y, Local) < Distance(x, Local)}) = j - 1]

\* The set S as a sequence in ascending order of distance to key.  XOR
\* distances to one key are distinct, so sort.Sort has one outcome.
SortByDistance(S, key) ==
  [j \in 1..Cardinality(S) |->
     CHOOSE x \in S : Cardinality({y \in S : Distance(y, key) < Distance(x, key)}) = j - 1]

\* The walk: seed with bucket i, then take buckets i-offset and i+offset
\* while fewer than m peers are gathered and offset < numBuckets.
RECURSIVE Gather(_, _, _, _)
Gather(acc, i, offset, m) ==
  IF Cardinality(acc) < m /\ offset < NumBuckets
    THEN Gather(acc \cup ActiveIn(i - offset) \cup ActiveIn(i + offset), i, offset + 1, m)
    ELSE acc

LookupSize(n) == IF n = 0 THEN DefaultLookupSize ELSE n

FindKey(key, n) ==
  LET m      == LookupSize(n)
      i      == IF BucketOf(key) < 0 THEN 0 ELSE BucketOf(key)
      sorted == SortByDistance(Gather(ActiveIn(i), i, 1, m), key)
  IN  IF Len(sorted) > m THEN SubSeq(sorted, 1, m) ELSE sorted

\* findNode(hn, n): a hashname that does not decode from base32 to KeyLen
\* bytes gives nil; any other is looked up with findKey.
CONSTANT BadNames   \* hashname strings that fail the decode or its length check

FindNode(hn, n) == IF hn \in Hashname THEN FindKey(hn, n) ELSE <<>>

-----------------------------------------------------------------------------
(* Properties.                                                             *)

CONSTANT LookupSizes   \* values of n given to findKey by the checks

PeerRec == [hn : Hashname, tag : Tags]
CandRec == [hn : Hashname, routers : Seq(Routers)]

\* Type invariant, with the list lengths the constants of table.go cap.
TypeOK ==
  /\ peers      \in [Buckets -> Seq(PeerRec)]
  /\ candidates \in [Buckets -> Seq(CandRec)]
  /\ pending    \in [Buckets -> Seq(CandRec)]
  /\ nextTag \in 0..MaxTags
  /\ releases \in [Tags -> Nat]
  /\ \A b \in Buckets :
       /\ Len(peers[b]) <= MaxPeers
       /\ Len(candidates[b]) <= MaxCandidates
       /\ \A e \in ToSet(candidates[b] \o pending[b]) : Len(e.routers) <= MaxRouters

DistinctHn(s) == \A i, j \in 1..Len(s) : i # j => s[i].hn # s[j].hn

\* No hashname is twice in a bucket's active list, and none is twice among
\* its candidates and pending peers together: addCandidate's scans of the
\* peers, pending and candidates lists and nextCandidate's move from
\* candidates to pending must keep every hashname in one place.
NoDuplicateEntries ==
  \A b \in Buckets : DistinctHn(peers[b]) /\ DistinctHn(candidates[b] \o pending[b])

\* Every mesh tag handed to activatePeer is owned exactly once: it is held by
\* one active entry or has been released once, never both, never twice and
\* never neither (the tag swap of activatePeer and the release in
\* deactivatePeer and in the rejection paths).
HoldCount(t) ==
  Cardinality({bi \in Buckets \X (1..MaxPeers) :
                 bi[2] <= Len(peers[bi[1]]) /\ peers[bi[1]][bi[2]].tag = t})

TagOwnership == \A t \in 1..nextTag : HoldCount(t) + releases[t] = 1

\* findNode(key, n) (findKey on a decoded hashname) returns active peers
\* only, in ascending XOR distance from the key, and min(n, number of
\* active peers) of them: the outward walk examines enough buckets and the
\* sort uses the distance to the key.  A name that does not decode gives
\* nothing.
LookupCorrect ==
  /\ \A key \in Hashname, n \in LookupSizes :
       LET r == FindNode(key, n)
       IN  /\ IsSorted(r, LAMBDA x, y : Distance(x, key) < Distance(y, key))
           /\ ToSet(r) \subseteq ActiveSet
           /\ Len(r) = IF LookupSize(n) < Cardinality(ActiveSet)
                         THEN LookupSize(n) ELSE Cardinality(ActiveSet)
  /\ \A hn \in BadNames, n \in LookupSizes : FindNode(hn, n) = <<>>

-----------------------------------------------------------------------------
(* Refinement: the active lists implement ActivePeerSet.  The candidate    *)
(* and pending machinery (addCandidate, nextCandidate, the pending removal *)
(* of activatePeer) and the tag swap are stuttering steps of it.           *)

ActivePeers == INSTANCE ActivePeerSet
                 WITH Names <- Peers, Bucket <- BucketTable,
                      Capacity <- MaxPeers, active <- ActiveSet

\* The table's active peers form a set the mesh can rely on: the local
\* hashname is never linked, a bucket never holds more than maxPeers,
\* activatePeer links a new hashname only into a bucket with room, and only
\* deactivatePeer unlinks; nothing else the table does changes the set.
ActiveSetRefined == ActivePeers!Spec

\* Spec section 3: a hashname is in at most one of peers, candidates and
\* pending of its bucket.  activatePeer never looks at the candidate list.
Exclusive ==
  \A b \in Buckets : DistinctHn(peers[b] \o candidates[b] \o pending[b])

\* Spec section 3: once a candidate is accepted as pending, peers plus pending
\* of its bucket do not exceed maxPeers (nextCandidate's capacity test).
PromotionWithinCapacity ==
  [][\A b \in Buckets :
       Len(pending'[b]) > Len(pending[b]) => Len(peers'[b]) + Len(pending'[b]) <= MaxPeers]_vars

=============================================================================
