# TLA+ models of gogotelehash

Model-checked TLA+ specifications of the core of the gogotelehash Telehash v2
switch: the Kademlia routing table, the channel controller with the reliable
channel machinery it drives, the channel registry's goroutines and the
packet codec. Each module maps
its definitions to the Go source they translate; `PROJECT.json` holds that
map, the runs, the mutants, the findings and the hazard list.

## 1. Inventory

### Components

| Component | Source | State | Operations |
|---|---|---|---|
| Routing table | `src/modules/dht/kademlia/table.go` | `numBuckets` buckets, each with ordered `peers` (hashname, mesh tag), `candidates` (hashname, routers) and `pending` lists; guarded by one RWMutex | `findKey`, `findNode` (read lock); `activatePeer`, `deactivatePeer`, `addCandidate`, `nextCandidate` (write lock) |
| Distance / bucket index | `distance.go`, which is not in src | none | `keyDistance`, `bucketFromDistance`, `distanceLess` |
| Channel controller | `src/controller_channel.go` 1-234 | registry `channels` (map id → channel, `channels_mtx`), per channel `id, peer, type, snd, rcv, ack` | `open_channel`, `add_channel`, `drop_channel`, `send`, `receive`, `close`/`close_with_error`, `rcv_channel_pkt`, `rcv_new_channel_pkt`, `run_user_handler`, `_close_channels` |
| Send/receive buffers, ack engine | not in src (spec 4.4, 4.5) | snd: seq → packet, next seq, window; rcv: seq → packet, next_in_order, closed flag; ack: last received, missing, last sent | `snd.put`, eviction by ack, `rcv.put`, `rcv.get`, `add_ack_info`, `handle_ack_info`, `received_packet`, retransmit tick, `close` |
| Packet framing | `src/pkt.go` | none | `JustAck`, `format_pkt` (u16 BE header length, JSON header, body), `parse_pkt` |
| Switch facade | `src/switch.go` | references to the controllers | `Open`, `Channel.Send/Receive/Close`, `Seed`, `Seek`, `Start`, `Stop` |
| Crypto helpers | `src/controller_channel.go` 235-341 | none | random ids, SHA-256, AES-CTR, DER RSA |
| Logging | `src/util/logs/default.go` | logger | output only |

### Interactions

Inbound, the line layer's reader goroutine calls `rcv_channel_pkt`. It looks
up `h.channels` without the mutex. A known channel gets `rcv.put`, then
`ack.received_packet`, then `ack.handle_ack_info`. An unknown id that carries
a `type` creates a channel, registers it, starts `run_user_handler` in a new
goroutine and only then puts the first packet. Outbound, `send` stamps `c`,
calls `snd.put` (which assigns the seq), then `add_ack_info`, then the line
layer's `_snd_pkt`. The user handler runs on its own goroutine. When it
returns, `run_user_handler` calls `close()`, which sends an end packet and
then closes `ack` and `rcv`. The DHT calls the table. Each table operation
holds the table lock for its whole body and does no I/O under it. Mesh tags
pass ownership into `activatePeer`. The table must release each tag exactly
once.

### What is hard

- Interleavings: the demux goroutine, user/handler goroutines and the ack
  engine's timer act on the same channel; the registry map is read unlocked.
- The network loses, duplicates and reorders packets; acks can be stale.
- Retransmission and its interaction with ack suppression and close.
- The routing table is sequential but has long call sequences (candidate,
  then direct activation, then promotion) that reach states the spec forbids.

### Correctness properties by component

- Table: every hashname in one list of one bucket. Lists within their caps.
  Each mesh tag owned exactly once. `findKey` returns active peers sorted by
  distance to the key, as many as asked for or as there are (not always
  the nearest ones: the walk stops early). Promotion never overfills a
  bucket (it does, see findings).
- Channels: no packet is evicted from a send buffer before the peer received
  it. The end packet is the last packet sent. A closed channel leaves the
  registry. Under fair delivery every data packet of an open channel reaches
  the peer; the end packet should too, but does not (see findings).
- Codec: `parse(format(p)) = p` for headers below 65536 bytes, and the short
  and negative length checks.

## 2. Modules

### KademliaTable (+ MCKademliaTable)

This module models `table.go`. Hashnames are `KeyBits`-bit integers. Distance
is XOR (`Bitwise`, tabulated once), and `BucketFromDistance` gives -1 for
self, otherwise the count of leading zero bits. That keeps the bucket
structure of the real 256-bit table.

- State: `peers`, `candidates`, `pending` are functions from bucket to
  sequences of records, in the code's list order. `nextTag` counts the tags
  the mesh has handed in. `releases[t]` counts `Release` calls on tag `t`.
- Actions: `ActivatePeer(hn)` takes a fresh tag. It has the self-release
  path and the three outcomes after the pending removal: swap tags, reject
  when full, append. `DeactivatePeer(hn)`, `AddCandidate(hn, router)` (with
  the code's router merge, see findings) and `NextCandidate` (lowest
  promotable bucket, FIFO) complete the set.
- `findKey` is read-only, so it is the operator `FindKey(key, n)`. It has
  the recursive outward walk `Gather` and a sort by distance to the key.
  The invariants evaluate it for every key and every `n` in `LookupSizes`
  in every reachable state. `findNode` is `FindNode(hn, n)`: its base32
  decode is abstracted to membership in `Hashname`, and the model values
  `BadNames` (a non-base32 string, a wrong-length one) stand for inputs the
  decode rejects, for which the code returns nil.
- Refinement: `ActivePeerSet` is what the table promises the mesh: a set of
  linked hashnames, never self, at most `Capacity` per bucket, linked only
  while the bucket has room. `ActivePeers` instantiates it with
  `active <- ActiveSet` (the hashnames in `peers`), and `ActiveSetRefined`
  checks that every table step is a `Link`, an `Unlink` or a stutter of it:
  candidates, pending lists, router merges and tag swaps are invisible.
- Early returns that change nothing (self in `addCandidate`, a full
  candidate list, `nextCandidate` returning nil) are stuttering steps.

### ChannelLayer (+ MCChannelLayer)

This module models one channel between an `Opener` and an `Acceptor` switch.

- From the code: `OpenChannel` (open_channel with add_channel, then the
  typed first send), `SendPkt` (send: put, stamp, transmit), `CloseChannel`
  (close_with_error: end packet, then ack and rcv closed), `Send`/`Close`
  (the `Channel` API), `Receive`, `RcvChannelPkt`, and `RcvNewChannelPkt`
  followed by `RcvNewChannelPut`. That last pair is split at the
  `go run_user_handler()` so the handler can run before the first packet is
  put. `HandlerReturn` is run_user_handler's unconditional `close()`.
  `JustAck` comes from pkt.go.
- From the spec, because the buffers and the ack engine are not in src: the
  seq counter, window (`WindowOpen`), `RcvPut`'s drop rules and terminal
  mark, `Contig` (last_rcv_seq), `MissOf`, `StampAck` with suppression,
  `HandleAckInfo` (evict ≤ ack, resend miss), `SendPureAck`, and the
  retransmit timer: `Retransmit` resends an unacknowledged packet, counting
  resends up to `RetryLimit`, and `Timeout` closes the channel without an
  end packet once the count is used up. `RetryLimit = 0` stands for a limit
  not reached: resends are not counted and no timeout happens. Time is
  abstracted away, so the timer may fire at any moment. A closed ack engine ignores
  acks and stops retransmitting; an eviction and a close clear the counts.
- Also from the code: `Shutdown(e)` is the switch's `_close_channels`
  (controller_channel.go:47-54) on the endpoints in `Stoppable`: a
  registered channel is closed with an end packet. `LineSend(p)` is the
  line's send (154-160): with `LineFails` it may fail, which leaves the
  network as a lost packet would, except that open_channel's first send
  then reports the error and `OpenFailed` closes the channel (88-92).
- The demultiplexer is one goroutine: `Deliver` to an endpoint waits until
  its `RcvNewChannelPut` has put the opening packet.
- Network: `net` is a set of packets. Delivery does not remove a packet, so
  duplication and reordering are free. `Lose(p)` removes one. A
  retransmission puts the stored packet back with its original, possibly
  stale, ack fields. Packets carry only the header fields the layer reads.
  An orphan packet (unknown id, no type) is dropped by the code, which is no
  state change.
- `Receive` reads the packet with seq next_in_order, which is the spec's
  `rcv.get`: the order in which the application sees packets is the
  buffer's definition, not something the model could find wrong, so no
  property restates it.

### ChannelRegistry (+ MCChannelRegistry.cfg)

One switch's `h.channels` and `channels_mtx` with the goroutines that use
them, each with its own program counter: a user goroutine per local id in
open_channel (`UserRand` for make_rand and its failure, `UserLock`/
`UserWrite` for add_channel, `UserSend` for the first send and its failure
path, `UserClose`); the demultiplexer (`DemuxPick` starts the unlocked map
read, `DemuxRead` completes it and dispatches, `DemuxLock`/`DemuxWrite` are
rcv_new_channel_pkt's add_channel and handler start); `HandlerReturn`; and
`_close_channels` (`ShutdownLock`, one `ShutdownClose` per channel,
`ShutdownUnlock`). A non-atomic map access is an interval: a goroutine at
"write" holds the mutex and is assigning, the demultiplexer at "read" is
reading. A channel is reduced to open or closed; the inbound packets are
each remote channel's typed first packet and an untyped follow-up, which
the network may deliver any number of times, and a reply to a local
channel once it sent. `close_with_error` is a status change that does not
block: whether the line layer's send can block is not in src, so the
model cannot say whether `_close_channels` can wait while it holds
`channels_mtx`.

### PacketCodec (+ PacketCodec.cfg)

`Format` and `Parse` are format_pkt and parse_pkt over an abstract packet
(header encoding length, body length). A frame is its two prefix bytes, its
length and the offset where the JSON object ends. `Format` writes
`uint16(l)` as two big-endian bytes, `l` being the header encoding plus the
encoder's newline, taken modulo 2^16. `Parse` applies the short-frame check,
the negative-body check, the JSON decode of `in[2:hdr_len+2]` (which
succeeds when the slice holds the whole object, trailing bytes ignored) and
the body copy. `Transmit` and `Receive` are a sender and a receiver; every
parse result is recorded against the packet sent.

## 3. Runs

| Run | Expect | Checks |
|---|---|---|
| kademlia_safety | pass | `TypeOK` (caps on list lengths included), `NoDuplicateEntries`, `TagOwnership`, `LookupCorrect` (findKey and findNode, rejected names included), `ActiveSetRefined` (the table implements `ActivePeerSet`) |
| kademlia_exclusive | violation | `Exclusive`: addCandidate(X), then activatePeer(X) leaves X both active and a candidate |
| kademlia_promotion_capacity | violation | `PromotionWithinCapacity`: pending + peers exceeds maxPeers after a promotion |
| channel_safety | pass | `TypeOK` (inflight within the window), `AckSound`, with line send failures, retransmit timeouts, failed opens and both switches' shutdown |
| channel_liveness | pass | `DataReachesPeer` under `FairSpec` with no retransmit limit: every data packet of an open channel reaches the peer unless a side closes, through loss, gaps and stale acks, by resends alone |
| channel_registry_leak | violation | `ClosedChannelDropped`: open, close, and the channel is still registered |
| channel_double_end | violation | `NothingAfterEnd`: the handler closes, run_user_handler closes again, a second end packet is sent (switch shutdown followed by a user close is another way) |
| channel_end_lost | violation | `EndReachesPeer`: the acceptor closes, its end packet is lost, nothing retransmits it |
| channel_opening_dropped | violation | `OpeningPacketKept`: the handler closes before the demultiplexer puts the opening packet |
| codec_roundtrip | pass | `RoundTrip`: parse(format(p)) = p for header lengths 2, 3, 65534 and bodies of 0 and 1 byte |
| registry_safety | pass | `TypeOK` (the mutex is held exactly inside critical sections), `OneChannelPerId`, `NoOrphanOpenChannel`, `ShutdownClosesRegistered` (when `_close_channels` unlocks, every channel in the map is closed, however registrations raced with it) |
| registry_map_race | violation | `NoMapRace`: the unlocked map read overlaps add_channel's write |

Each property of a passing run has a mutant in `PROJECT.json`: a plausible
bug in the mapped definition that TLC must catch. The mutants are a
forgotten router trim, a missing pending scan, a tag swap that does not
release, sorting by the stored distance to the local node, an off-by-one
window, a handle_ack_info that evicts one seq beyond
the ack, an rcv.put whose duplicate test also drops the packet
next_in_order (for `DataReachesPeer`), a header length that counts the prefix, an
add_channel without unlock, a demultiplexer that checks the type before the
lookup, an open_channel that does not close on a failed send, a "too many
peers" test off by one, and a `_close_channels` that ranges over the map without
taking `channels_mtx` (for `ShutdownClosesRegistered`).

### Bounds

- Table: `KeyBits = 3`, local node 0, so the buckets hold 4, 2 and 1
  hashnames. `Peers = {0,1,2,4,5}` puts self, two hashnames in bucket 0 and
  one in each other bucket. `maxPeers = maxCandidates = 1` so that the "too
  many peers" and "candidate list full" paths fire. `maxRouters = 2` with
  two routers. `MaxTags = 2` covers re-activation with a tag swap.
  `BadNames` has one model value per rejection path of the decode. The run,
  refinement included, reaches about 96k states in under a minute. The capacity violation uses
  three hashnames of bucket 0 (`MCPeersCrowded`), the fewest that can
  overshoot.
- Channel safety: `OpenerSends = 1`, `AcceptorSends = 0`, `Window = 2`. The
  opener sends the opening packet, one data packet and an end packet: three
  seqs against a window of two, so `WouldBlock` is reached, and a lost
  packet leaves a gap the acceptor's ack must report as missing while the
  acceptor is still open. The acceptor sends the handler's end packet and,
  after a user close, the second one of finding 4. Loss, duplication,
  reordering and gaps all happen, and the opener's first packet can be
  taken before or after the handler closes. `RetryLimit = 1`: one resend,
  then the timeout, so both the resend and the timeout of every packet
  happen. `LineFails = TRUE` lets every send fail, the first one included.
  `Stoppable = {Opener, Acceptor}`: either switch may shut down at any
  point. About 2.2M states in a little over two minutes.
- Channel liveness: the same sends and `Window = 2` (so a lost packet
  leaves a gap and acks carry a miss list), `RetryLimit = 0` (no Timeout:
  the data must arrive by resends), no shutdown and no line failures. About
  155k states in under two minutes. `DataReachesPeer` quantifies only over
  the seqs an endpoint can reach.
- `channel_double_end` has `OpenerSends = 2`, so that the opener still has
  a send left after its switch's shutdown has put an end packet.
- Registry: two local and two remote ids: enough for a user goroutine to
  write the map while the demultiplexer reads, for two goroutines to queue
  on the mutex behind a third, for shutdown to run before, between or after
  any registration, and for a duplicated typed packet. About 49k states
in seconds;
  the violation run keeps one id of each (588 states).
- Codec: header lengths 2 (`{}`), 3 and 65534, the largest whose length
  with the newline fits in 16 bits; bodies of 0 and 1 byte. 729 states.
- `CHECK_DEADLOCK FALSE` for the channel: the system really stops once both
  sides have closed, or once the network has lost every packet of a closed
  sender, because a closed ack engine never retransmits. The registry and
  codec models always have a step (a packet can be demultiplexed or parsed
  again).

### Fairness

`FairSpec` adds fairness only where the code guarantees progress:

- weak fairness of `Retransmit(e, s)` for every seq and of `Timeout(e)`:
  each tick resends every unacknowledged packet (spec section 4.5), and
  fails the channel once one is out of resends; weak fairness of the
  pure-ack timer (`SendPureAck`); the ack engine runs them while it is
  open;
- weak fairness of `RcvNewChannelPut`: the demultiplexer goroutine goes on
  after starting the handler;
- strong fairness of the delivery of a data packet (`DeliverData`) and of a
  pure ack (`DeliverAck`) of each endpoint: the network is fair-lossy, so a
  packet sent again and again is eventually delivered, although each copy
  may be lost.

Loss, the application's Send, Close and Receive, and the handler's return
are not fair: a user may never call them. Delivery is fair per endpoint
over the existential of its packets, which is weaker than one condition
per packet; `DataReachesPeer` holds even so. Weak fairness of the tick
over the existential of its seqs would not do: TLC then resends one packet
forever and never another. `Shutdown` is not fair either: a switch need
not stop.

## 4. Findings

1. `activatePeer` never removes the hashname from `candidates`
   (table.go:237). This violates the spec's exclusivity invariant.
2. `nextCandidate` tests capacity with `==` (table.go:173). Pending plus
   peers can exceed `maxPeers`, and promotion then keeps going.
3. `close_with_error` never drops the channel from the registry
   (controller_channel.go:132). `drop_channel` is dead code. A failed first
   send in open_channel leaves a closed channel nobody holds in the map.
4. A handler that closes its own channel is closed again by
   `run_user_handler` (controller_channel.go:229), which sends a second end
   packet after the first.
5. `close_with_error` closes the ack engine right after sending the end
   packet (controller_channel.go:135): a lost end packet is never
   retransmitted and the peer never learns that the channel ended.
6. `rcv_new_channel_pkt` starts the handler before it puts the opening
   packet (controller_channel.go:216): a handler that closes at once makes
   the put drop it.
7. `rcv_channel_pkt` reads `h.channels` without the mutex
   (controller_channel.go:184) while open_channel writes it: a Go map data
   race the runtime may abort on.

Observed in the model but not asserted by a run (see the hazard notes in
`PROJECT.json`): the router merge of `addCandidate` (table.go:332) duplicates
routers and drops the new one, as spec section 9 already says; `findKey`
stops its walk as soon as it has n peers (table.go:92) and can miss a nearer
peer in a farther bucket; `format_pkt` wraps a header length of 65536 or
more (pkt.go:103); a channel registered after `_close_channels` stays open;
after a lost pure ack, ack suppression means no ack is sent again, so a
sender whose last ack was lost resends until the retransmit limit fails a
channel whose peer has every packet.

## 5. Not modelled, and why

- Crypto, random ids, logging: pure byte transformations or output. Channel
  ids are abstract; make_rand's failure is a branch of `UserRand`.
- Line, peer and net controllers (`switch.go` `Start`, `Seed`, `Seek`): not
  in src, and `Start` does not compile (line 50 returns two values,
  `s.lines` is not a field). `Stop` calls `s.conn.close()`, which the
  channel controller does not define; `_close_channels` is modelled on its
  own. The hazards of `Start` (a partial failure leaks the controllers
  already opened) and of `Stop` (a nil `s.conn` before or after a failed
  `Start`) are listed in `PROJECT.json` without a property for that reason.
- `drop_channel` (controller_channel.go:104-109): nothing calls it (finding
  3), so it is no step of any goroutine.
- `String` methods of the table and `SetReceiveDeadline`: formatting, and a
  deadline that is abstracted with time.
- `findNode`'s base32 decode: validation only, modelled as the choice
  between a hashname and a rejected name.
- The receive deadline (`receive`'s timer, controller_channel.go:120-128):
  when it fires, receive returns an error and no state changes, which is a
  stutter of the model's `Receive`.
- The JSON encoding of individual header fields: the codec works on the
  encoding's length; `JustAck` works on the decoded fields.
- The ack engine's backoff times: time is abstract, so the tick may fire at
  any moment and a timeout of a peer that is merely slow is allowed.

## 6. Plan

1. Done: `KademliaTable` with its safety runs and violations.
2. Done: `ChannelLayer` safety (`AckSound`) and controller violations.
3. Done: liveness (`DataReachesPeer`, `EndReachesPeer`), the
   handler-before-put race, `PacketCodec` and `ChannelRegistry`.
4. Done: `Shutdown`, line send failures and `OpenFailed`, the retransmit
   `Timeout`, `ActivePeerSet` and the table refinement, `findNode`, and a
   larger registry.
5. Done after review: properties that held by the model's construction
   were removed (a stream refinement whose order was `rcv.get`'s
   definition, a settling property and a mutex-progress property that the
   timeout and the non-blocking steps made true whatever the code did);
   `DataReachesPeer` is now checked without the retransmit limit, with
   per-packet fairness of the tick and a window of two.
6. Done: `ShutdownClosesRegistered` on the registry (the shutdown race
   with registration), and the `Start`/`Stop` hazards.
7. Left open: a registration after the shutdown's unlock leaves an open
   channel on a stopped controller; the code has no stopped flag, but no
   code in src fixes when `Stop` runs, so it is a hazard and not a finding.
   The table's spec-intended `AddCandidate` could become an abstract spec
   once the spec states what it promises beyond exclusivity.
