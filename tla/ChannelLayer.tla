---------------------------- MODULE ChannelLayer ----------------------------
(***************************************************************************)
(* One telehash channel between two switches, the opener and the acceptor, *)
(* over a network that loses, duplicates and reorders packets.             *)
(*                                                                         *)
(* The channel controller (src/controller_channel.go) is modelled from the *)
(* code: open_channel, send, close_with_error, receive, the demultiplexer  *)
(* rcv_channel_pkt / rcv_new_channel_pkt and run_user_handler.  The send   *)
(* buffer, receive buffer and ack engine they call are not in src/; they   *)
(* are modelled from the spec (sections 4.4 and 4.5).                     *)
(*                                                                         *)
(* The network is a set of packets: a packet in `net` can be delivered any *)
(* number of times in any order until it is lost, and a retransmission     *)
(* puts the stored packet back.  Packets carry no payload, only the header *)
(* fields the channel layer reads.                                         *)
(***************************************************************************)
EXTENDS Integers, FiniteSets

CONSTANTS
  Opener, Acceptor,   \* the two switches
  OpenerSends,        \* bound: Send calls by the opener's user
  AcceptorSends,      \* bound: Send calls by the acceptor's handler
  Window,             \* send window of the snd buffer
  RetryLimit,         \* retransmits of one packet before the channel fails;
                      \*   0: no limit is reached (the question is then
                      \*   whether the channel makes progress before it)
  Stoppable,          \* the switches whose shutdown the model explores
  LineFails           \* whether the line layer's _snd_pkt may fail

Endpoints == {Opener, Acceptor}
Peer(e)   == IF e = Opener THEN Acceptor ELSE Opener

\* the seqs an endpoint can use: the opening packet, its Send calls, and
\* the end packets of up to two closes
SeqBudget(e) == IF e = Opener THEN 1 + OpenerSends ELSE AcceptorSends
MaxSeq == (IF OpenerSends + 1 > AcceptorSends THEN OpenerSends + 1 ELSE AcceptorSends) + 2
Seqs   == 1..MaxSeq

ASSUME OpenerSends \in Nat /\ AcceptorSends \in Nat /\ Window \in Nat \ {0}
       /\ RetryLimit \in Nat /\ Stoppable \subseteq {Opener, Acceptor}
       /\ LineFails \in BOOLEAN

NoAck == -1   \* the header has no ack field (Ack == nil)

Packet == [src : Endpoints, seq : 0..MaxSeq, ack : {NoAck} \cup 0..MaxSeq,
           miss : SUBSET Seqs, typ : BOOLEAN, end : BOOLEAN]

NoPkt == [src |-> Opener, seq |-> 0, ack |-> NoAck, miss |-> {}, typ |-> FALSE, end |-> FALSE]

VARIABLES
  registered,  \* registered[e]: the channel id is in h.channels of e
  chan,        \* chan[e]: "none", "open", or "closed" (ack and rcv closed)
  user,        \* user[e]: "idle", "active", "failed" (opener: the first
               \*   send failed), "closed" (Close was called),
               \*   "returned" (acceptor: serve_telehash returned)
  firstPkt,    \* firstPkt[e]: packet rcv_new_channel_pkt has yet to put
  sndNext,     \* sndNext[e]: the seq snd.put assigns next
  inflight,    \* inflight[e]: seqs held by the snd buffer
  sent,        \* sent[e]: the packets e has put into snd, by seq
  rcvd,        \* rcvd[e]: seqs accepted by rcv.put
  rcvNext,     \* rcvNext[e]: next_in_order of the rcv buffer
  endAt,       \* endAt[e]: seq of the end packet rcv got, 0 if none
  lastAck,     \* lastAck[e]: [ack, miss] last stamped on an outgoing packet
  retries,     \* retries[e][s]: retransmits of seq s by the tick
  stopped,     \* stopped[e]: e's switch ran _close_channels
  net          \* packets in flight

vars == <<registered, chan, user, firstPkt, sndNext, inflight, sent, rcvd,
          rcvNext, endAt, lastAck, retries, stopped, net>>

-----------------------------------------------------------------------------
(* Send buffer, receive buffer and ack engine (spec sections 4.4, 4.5).    *)

\* last_rcv_seq: the highest seq k with 1..k all received.
Contig(S) == CHOOSE k \in 0..MaxSeq : (1..k) \subseteq S /\ (k + 1) \notin S

\* missing: the gaps below the highest seq received.
MissOf(S) ==
  LET top == IF S = {} THEN 0 ELSE CHOOSE s \in S : \A t \in S : t <= s
  IN  {s \in 1..top : s \notin S}

AckInfo(e) == [ack |-> Contig(rcvd[e]), miss |-> MissOf(rcvd[e])]

\* add_ack_info: stamp ack and miss when something was received and they
\* differ from the values stamped last.
StampAck(e, p) ==
  IF rcvd[e] # {} /\ AckInfo(e) # lastAck[e]
    THEN [p EXCEPT !.ack = AckInfo(e).ack, !.miss = AckInfo(e).miss]
    ELSE p

\* Mutant of WindowOpen: the window test lets one packet too many in.
WindowOpenOffByOne(e) == Cardinality(inflight[e]) <= Window

\* snd.put: a full window fails with WouldBlock.
WindowOpen(e) == Cardinality(inflight[e]) < Window

\* Mutant of RcvPut: the duplicate test drops the packet next_in_order too.
RcvPutOffByOne(e, p) ==
  IF chan[e] = "open" /\ p.seq > rcvNext[e] /\ p.seq \notin rcvd[e]
    THEN /\ rcvd'  = [rcvd  EXCEPT ![e] = @ \cup {p.seq}]
         /\ endAt' = [endAt EXCEPT ![e] = IF p.end THEN p.seq ELSE @]
    ELSE UNCHANGED <<rcvd, endAt>>

\* rcv.put: drop when closed, below next_in_order or already buffered.
RcvPut(e, p) ==
  IF chan[e] = "open" /\ p.seq >= rcvNext[e] /\ p.seq \notin rcvd[e]
    THEN /\ rcvd'  = [rcvd  EXCEPT ![e] = @ \cup {p.seq}]
         /\ endAt' = [endAt EXCEPT ![e] = IF p.end THEN p.seq ELSE @]
    ELSE UNCHANGED <<rcvd, endAt>>

\* A handle_ack_info that also evicts the seq just above the ack.
HandleAckInfoOffByOne(e, p) ==
  IF chan[e] = "open" /\ p.ack # NoAck
    THEN LET acked == {s \in inflight[e] : s <= p.ack + 1}
             resend == {sent[e][s] : s \in (p.miss \cap inflight[e]) \ acked}
         IN  /\ inflight' = [inflight EXCEPT ![e] = @ \ acked]
             /\ retries'  = [retries EXCEPT ![e] = [s \in Seqs |-> IF s \in acked THEN 0 ELSE @[s]]]
             /\ net' = net \cup resend
    ELSE UNCHANGED <<inflight, retries, net>>

\* handle_ack_info: evict every seq <= ack (with its retransmit clock),
\* resend the missing ones.
\* A closed ack engine ignores acks.
HandleAckInfo(e, p) ==
  IF chan[e] = "open" /\ p.ack # NoAck
    THEN LET acked == {s \in inflight[e] : s <= p.ack}
             resend == {sent[e][s] : s \in (p.miss \cap inflight[e]) \ acked}
         IN  /\ inflight' = [inflight EXCEPT ![e] = @ \ acked]
             /\ retries'  = [retries EXCEPT ![e] = [s \in Seqs |-> IF s \in acked THEN 0 ELSE @[s]]]
             /\ net' = net \cup resend
    ELSE UNCHANGED <<inflight, retries, net>>

-----------------------------------------------------------------------------
(* pkt.go                                                                  *)

\* JustAck: empty body and only c, ack and miss set.  A packet without a
\* seq carries no body in this model.
JustAck(p) == p.seq = 0 /\ p.ack # NoAck /\ ~p.typ /\ ~p.end

-----------------------------------------------------------------------------
(* controller_channel.go                                                   *)

\* conn._snd_pkt: the line layer puts the packet on the network, or fails;
\* send then returns the error, the packet staying buffered and stamped.
LineSend(p) ==
  \/ net' = net \cup {p}
  \/ LineFails /\ net' = net

\* channel.send(pkt): snd.put assigns the seq and stores the packet (a full
\* window fails with WouldBlock and sends nothing), add_ack_info stamps it,
\* the line layer sends it.  Leaves chan, user, registered to the caller.
SendPkt(e, typ, end) ==
  LET p == StampAck(e, [src |-> e, seq |-> sndNext[e], ack |-> NoAck,
                        miss |-> {}, typ |-> typ, end |-> end])
  IN  IF WindowOpen(e)
        THEN /\ sndNext'  = [sndNext  EXCEPT ![e] = @ + 1]
             /\ inflight' = [inflight EXCEPT ![e] = @ \cup {p.seq}]
             /\ sent'     = [sent     EXCEPT ![e][p.seq] = p]
             /\ lastAck'  = [lastAck  EXCEPT ![e] = IF p.ack = NoAck THEN @
                                                      ELSE [ack |-> p.ack, miss |-> p.miss]]
             /\ LineSend(p)
        ELSE UNCHANGED <<sndNext, inflight, sent, lastAck, net>>

\* close_with_error: send an end packet, then close ack (which stops its
\* retransmit clocks) and rcv.  Nothing
\* removes the channel from h.channels (drop_channel is never called).
CloseChannel(e) ==
  /\ SendPkt(e, FALSE, TRUE)
  /\ chan' = [chan EXCEPT ![e] = "closed"]
  /\ retries' = [retries EXCEPT ![e] = [s \in Seqs |-> 0]]

\* open_channel at the opener: register a fresh channel, send the typed
\* first packet (Window >= 1, so snd.put cannot fail).  When the line
\* layer fails, open_channel goes on to close the channel (OpenFailed) and
\* the caller gets no Channel.
OpenChannel ==
  /\ chan[Opener] = "none"
  /\ registered' = [registered EXCEPT ![Opener] = TRUE]
  /\ chan'       = [chan EXCEPT ![Opener] = "open"]
  /\ SendPkt(Opener, TRUE, FALSE)
  /\ user'       = [user EXCEPT ![Opener] = IF net' = net THEN "failed" ELSE "active"]
  /\ UNCHANGED <<firstPkt, rcvd, rcvNext, endAt, retries, stopped>>

\* open_channel's error path: channel.close() after the failed first send.
OpenFailed ==
  /\ user[Opener] = "failed"
  /\ user' = [user EXCEPT ![Opener] = "closed"]
  /\ CloseChannel(Opener)
  /\ UNCHANGED <<registered, firstPkt, rcvd, rcvNext, endAt, stopped>>

\* Channel.Send by the application (the opener's user or the acceptor's
\* handler), within the bound on sends.
Send(e) ==
  /\ user[e] = "active"
  /\ sndNext[e] <= SeqBudget(e)
  /\ SendPkt(e, FALSE, FALSE)
  /\ UNCHANGED <<registered, chan, user, firstPkt, rcvd, rcvNext, endAt, retries, stopped>>

\* Channel.Close by the application.
Close(e) ==
  /\ user[e] = "active"
  /\ user' = [user EXCEPT ![e] = "closed"]
  /\ CloseChannel(e)
  /\ UNCHANGED <<registered, firstPkt, rcvd, rcvNext, endAt, stopped>>

\* receive(): rcv.get returns the packet with seq next_in_order.  After the
\* end packet, or on a closed buffer, get fails and nothing changes.
Receive(e) ==
  /\ user[e] = "active"
  /\ rcvNext[e] \in rcvd[e]
  /\ endAt[e] = 0 \/ rcvNext[e] <= endAt[e]
  /\ rcvNext' = [rcvNext EXCEPT ![e] = @ + 1]
  /\ UNCHANGED <<registered, chan, user, firstPkt, sndNext, inflight, sent,
                 rcvd, endAt, lastAck, net, retries, stopped>>

\* rcv_channel_pkt for a known channel: a packet that is not just an ack
\* goes to rcv.put (received_packet updates the ack state, which AckInfo
\* derives from rcvd); every packet goes to handle_ack_info.
RcvChannelPkt(e, p) ==
  /\ registered[e]
  /\ IF ~JustAck(p) THEN RcvPut(e, p) ELSE UNCHANGED <<rcvd, endAt>>
  /\ HandleAckInfo(e, p)
  /\ UNCHANGED <<registered, chan, user, firstPkt, sndNext, sent, rcvNext, lastAck, stopped>>

\* rcv_channel_pkt for an unknown channel with a type: rcv_new_channel_pkt
\* registers the channel and starts run_user_handler in a goroutine; the
\* first packet is put by RcvNewChannelPut, after the goroutine started.
\* (An unknown channel without a type is dropped: no state changes.)
RcvNewChannelPkt(e, p) ==
  /\ ~registered[e]
  /\ p.typ
  /\ registered' = [registered EXCEPT ![e] = TRUE]
  /\ chan'       = [chan EXCEPT ![e] = "open"]
  /\ user'       = [user EXCEPT ![e] = "active"]
  /\ firstPkt'   = [firstPkt EXCEPT ![e] = p]
  /\ UNCHANGED <<sndNext, inflight, sent, rcvd, rcvNext, endAt, lastAck, net,
                 retries, stopped>>

RcvNewChannelPut(e) ==
  /\ firstPkt[e] # NoPkt
  /\ RcvPut(e, firstPkt[e])
  /\ firstPkt' = [firstPkt EXCEPT ![e] = NoPkt]
  /\ UNCHANGED <<registered, chan, user, sndNext, inflight, sent, rcvNext, lastAck, net, retries, stopped>>

\* run_user_handler: when serve_telehash returns, close() is called,
\* whether or not the handler closed the channel itself.
HandlerReturn(e) ==
  /\ e = Acceptor
  /\ user[e] \in {"active", "closed"}
  /\ user' = [user EXCEPT ![e] = "returned"]
  /\ CloseChannel(e)
  /\ UNCHANGED <<registered, firstPkt, rcvd, rcvNext, endAt, stopped>>

\* _close_channels when e's switch is shut down: close_with_error on the
\* channel if it is in h.channels, whether or not it was closed before.
\* The user and the handler are not told and may go on calling Send.
Shutdown(e) ==
  /\ e \in Stoppable
  /\ ~stopped[e]
  /\ stopped' = [stopped EXCEPT ![e] = TRUE]
  /\ IF registered[e] THEN CloseChannel(e)
                      ELSE UNCHANGED <<chan, sndNext, inflight, sent, lastAck, retries, net>>
  /\ UNCHANGED <<registered, user, firstPkt, rcvd, rcvNext, endAt>>

\* Delivery of a packet to the peer's demultiplexer, which is one
\* goroutine: it takes the next packet only after rcv_new_channel_pkt put
\* the first one.
Deliver(p) ==
  /\ firstPkt[Peer(p.src)] = NoPkt
  /\ \/ RcvChannelPkt(Peer(p.src), p)
     \/ RcvNewChannelPkt(Peer(p.src), p)

-----------------------------------------------------------------------------
(* Ack engine timers and the network.                                      *)

\* The ack engine sends a pure ack when its ack state changed since the
\* last stamp.
SendPureAck(e) ==
  /\ chan[e] = "open"
  /\ rcvd[e] # {}
  /\ AckInfo(e) # lastAck[e]
  /\ lastAck' = [lastAck EXCEPT ![e] = AckInfo(e)]
  /\ net' = net \cup {[src |-> e, seq |-> 0, ack |-> AckInfo(e).ack,
                       miss |-> AckInfo(e).miss, typ |-> FALSE, end |-> FALSE]}
  /\ UNCHANGED <<registered, chan, user, firstPkt, sndNext, inflight, sent,
                 rcvd, rcvNext, endAt, retries, stopped>>

\* The retransmit tick resends an unacked packet as it was stored and
\* counts the resend, whether or not an earlier copy is still in flight.
Retransmit(e, s) ==
  /\ chan[e] = "open"
  /\ s \in inflight[e]
  /\ RetryLimit = 0 \/ retries[e][s] < RetryLimit
  /\ net' = net \cup {sent[e][s]}
  /\ retries' = IF RetryLimit = 0 THEN retries ELSE [retries EXCEPT ![e][s] = @ + 1]
  /\ UNCHANGED <<registered, chan, user, firstPkt, sndNext, inflight, sent,
                 rcvd, rcvNext, endAt, lastAck, stopped>>

\* Spec section 4.5: a packet resent RetryLimit times and still unacked
\* fails the channel with Timeout, which closes the ack engine and the rcv
\* buffer; no end packet is sent to a peer that does not answer.
Timeout(e) ==
  /\ chan[e] = "open"
  /\ RetryLimit > 0
  /\ \E s \in inflight[e] : retries[e][s] = RetryLimit
  /\ chan' = [chan EXCEPT ![e] = "closed"]
  /\ retries' = [retries EXCEPT ![e] = [s \in Seqs |-> 0]]
  /\ UNCHANGED <<registered, user, firstPkt, sndNext, inflight, sent,
                 rcvd, rcvNext, endAt, lastAck, stopped, net>>

Lose(p) ==
  /\ net' = net \ {p}
  /\ UNCHANGED <<registered, chan, user, firstPkt, sndNext, inflight, sent,
                 rcvd, rcvNext, endAt, lastAck, retries, stopped>>

-----------------------------------------------------------------------------
(* Properties.                                                             *)

\* Type invariant.
TypeOK ==
  /\ registered \in [Endpoints -> BOOLEAN]
  /\ chan \in [Endpoints -> {"none", "open", "closed"}]
  /\ user \in [Endpoints -> {"idle", "active", "failed", "closed", "returned"}]
  /\ firstPkt \in [Endpoints -> Packet]
  /\ sndNext \in [Endpoints -> 1..(MaxSeq + 1)]
  /\ inflight \in [Endpoints -> SUBSET Seqs]
  /\ \A e \in Endpoints : Cardinality(inflight[e]) <= Window
  /\ sent \in [Endpoints -> [Seqs -> Packet]]
  /\ rcvd \in [Endpoints -> SUBSET Seqs]
  /\ rcvNext \in [Endpoints -> 1..(MaxSeq + 1)]
  /\ endAt \in [Endpoints -> 0..MaxSeq]
  /\ retries \in [Endpoints -> [Seqs -> 0..RetryLimit]]
  /\ stopped \in [Endpoints -> BOOLEAN]
  /\ net \subseteq Packet

\* A seq leaves the sender's snd buffer only after the peer's rcv buffer
\* accepted it: acks computed from the receive state and applied by
\* handle_ack_info, possibly stale, duplicated or reordered, never evict a
\* packet that the peer still lacks.
AckSound ==
  \A e \in Endpoints : \A s \in 1..(sndNext[e] - 1) :
    s \notin inflight[e] => s \in rcvd[Peer(e)]

\* Spec section 4.6: close drops the channel from the registry, so that a
\* destroyed channel's id is not used again for demultiplexing.
ClosedChannelDropped ==
  \A e \in Endpoints : chan[e] = "closed" => ~registered[e]

\* Spec section 3: the end packet is the terminal packet of a channel; an
\* endpoint sends nothing on the channel after it.
NothingAfterEnd ==
  \A e \in Endpoints : \A s, t \in Seqs :
    sent[e][s] # NoPkt /\ sent[e][s].end /\ t > s => sent[e][t] = NoPkt

\* Spec section 4.6: a remote-opened channel enqueues the packet that
\* opened it as its first received packet.  rcv_new_channel_pkt starts the
\* handler goroutine before the put; a handler that returns at once closes
\* rcv first, and the put then drops the opening packet.
OpeningPacketKept ==
  registered[Acceptor] /\ firstPkt[Acceptor] = NoPkt => 1 \in rcvd[Acceptor]

\* A packet in the snd buffer of an open endpoint reaches the peer's rcv
\* buffer unless one side closes: retransmission (the tick and the resend
\* of a miss) makes up for every loss as long as no ack evicts the packet
\* too early, and as long as the peer's demultiplexer puts what it gets.
\* Checked with no retransmit limit (RetryLimit = 0), so that no Timeout
\* closes the channel and only delivery can satisfy it.  (The seqs above
\* SeqBudget(e) carry end packets, which are sent as the channel closes.)
DataReachesPeer ==
  \A e \in Endpoints : \A s \in 1..SeqBudget(e) :
    (s \in inflight[e] /\ chan[e] = "open")
      ~> (s \in rcvd[Peer(e)] \/ chan[e] = "closed" \/ chan[Peer(e)] = "closed")

\* The end packet reaches the peer, so that the peer learns the channel
\* ended (spec section 3): close_with_error closes the ack engine right
\* after sending it, so nothing retransmits a lost end packet.
EndReachesPeer ==
  \A e \in Endpoints, s \in Seqs :
    (sent[e][s].end /\ s \in inflight[e])
      ~> (s \in rcvd[Peer(e)] \/ chan[Peer(e)] = "closed")

-----------------------------------------------------------------------------
Init ==
  /\ registered = [e \in Endpoints |-> FALSE]
  /\ chan       = [e \in Endpoints |-> "none"]
  /\ user       = [e \in Endpoints |-> "idle"]
  /\ firstPkt   = [e \in Endpoints |-> NoPkt]
  /\ sndNext    = [e \in Endpoints |-> 1]
  /\ inflight   = [e \in Endpoints |-> {}]
  /\ sent       = [e \in Endpoints |-> [s \in Seqs |-> NoPkt]]
  /\ rcvd       = [e \in Endpoints |-> {}]
  /\ rcvNext    = [e \in Endpoints |-> 1]
  /\ endAt      = [e \in Endpoints |-> 0]
  /\ lastAck    = [e \in Endpoints |-> [ack |-> NoAck, miss |-> {}]]
  /\ retries    = [e \in Endpoints |-> [s \in Seqs |-> 0]]
  /\ stopped    = [e \in Endpoints |-> FALSE]
  /\ net        = {}

Next ==
  \/ OpenChannel \/ OpenFailed
  \/ \E e \in Endpoints :
       \/ Send(e) \/ Close(e) \/ Receive(e) \/ HandlerReturn(e)
       \/ RcvNewChannelPut(e) \/ SendPureAck(e) \/ Timeout(e) \/ Shutdown(e)
       \/ \E s \in Seqs : Retransmit(e, s)
  \/ \E p \in net : Deliver(p) \/ Lose(p)

Spec == Init /\ [][Next]_vars

-----------------------------------------------------------------------------
(* Fairness.  The retransmit tick resends every unacked packet (spec      *)
(* section 4.5), so it is weakly fair for each seq; it and the pure-ack   *)
(* timer run while the ack engine is open; the demultiplexer goroutine goes on to    *)
(* put the first packet after starting the handler.  The network is fair  *)
(* lossy: a packet sent again and again is eventually delivered, which is  *)
(* strong fairness of its delivery; the tick that fails a channel after    *)
(* RetryLimit retransmits runs like the retransmit itself.  Loss is never  *)
(* forced.  The application (Send, Close, Receive, the handler's return)   *)
(* and the switch's shutdown are not fair.                                *)

DeliverData(e, s) == sent[e][s] \in net /\ Deliver(sent[e][s])

DeliverAck(e) == \E p \in net : p.src = e /\ p.seq = 0 /\ Deliver(p)

Fairness ==
  \A e \in Endpoints :
    /\ WF_vars(RcvNewChannelPut(e))
    /\ WF_vars(SendPureAck(e))
    /\ SF_vars(DeliverAck(e))
    /\ \A s \in Seqs : WF_vars(Retransmit(e, s))
    /\ WF_vars(Timeout(e))
    /\ SF_vars(\E s \in Seqs : DeliverData(e, s))

FairSpec == Spec /\ Fairness

=============================================================================
