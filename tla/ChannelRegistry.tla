-------------------------- MODULE ChannelRegistry --------------------------
(***************************************************************************)
(* The channel registry of one switch (src/controller_channel.go): the    *)
(* map h.channels and its mutex channels_mtx, and the goroutines that use *)
(* it.  Each locally opened channel has a user goroutine running          *)
(* open_channel; the demultiplexer goroutine runs rcv_channel_pkt for     *)
(* inbound packets; each remote-opened channel has a run_user_handler     *)
(* goroutine; one goroutine may shut the controller down with             *)
(* _close_channels.  A channel is abstracted to whether it is open or     *)
(* closed (close_with_error closes its ack engine and rcv buffer); the    *)
(* packet-level behaviour is ChannelLayer's.                              *)
(*                                                                         *)
(* A map access that is not atomic is modelled as an interval: the user  *)
(* goroutine's add_channel is "write", the demultiplexer's unlocked read  *)
(* is "read".                                                             *)
(***************************************************************************)
EXTENDS Naturals, FiniteSets

CONSTANTS
  LocalIds,    \* ids of channels opened here (make_rand in open_channel)
  RemoteIds    \* ids of channels the peer opens

ASSUME LocalIds \cap RemoteIds = {}

Ids == LocalIds \cup RemoteIds

Free == "free"          \* nobody holds channels_mtx
Demux == "demux"
Shutdown == "shutdown"

\* Inbound packets: the typed first packet and an untyped follow-up of each
\* remote channel; replies to a local channel exist once it sent.
Packet == [id : Ids, typ : BOOLEAN]

VARIABLES
  channels,   \* the keys of h.channels
  mtx,        \* holder of channels_mtx
  made,       \* made[c]: channel objects make_channel built for id c
  status,     \* status[c]: "none", "open", "closed"
  user,       \* user[l]: pc of the goroutine calling open_channel for l
  demux,      \* pc of the demultiplexer goroutine
  cur,        \* the packet the demultiplexer is handling
  handler,    \* handler[r]: "none", "running", "returned"
  shut,       \* pc of _close_channels: "idle", "iter", "done"
  todo,       \* channels _close_channels has yet to close
  inbox       \* packets that can arrive (the network may duplicate them)

vars == <<channels, mtx, made, status, user, demux, cur, handler, shut, todo, inbox>>

-----------------------------------------------------------------------------
(* open_channel and the Channel API (user goroutine).                      *)

\* make_rand: a failure returns the error before anything is built.
UserRand(l) ==
  /\ user[l] = "start"
  /\ \/ /\ user' = [user EXCEPT ![l] = "lock"]
        /\ made' = [made EXCEPT ![l] = @ + 1]
     \/ /\ user' = [user EXCEPT ![l] = "failed"]
        /\ UNCHANGED made
  /\ UNCHANGED <<channels, mtx, status, demux, cur, handler, shut, todo, inbox>>

\* add_channel: take channels_mtx, then assign h.channels[c.id].
UserLock(l) ==
  /\ user[l] = "lock"
  /\ mtx = Free
  /\ mtx' = l
  /\ user' = [user EXCEPT ![l] = "write"]
  /\ UNCHANGED <<channels, made, status, demux, cur, handler, shut, todo, inbox>>

\* Mutant of UserWrite: add_channel returns without unlocking.
UserWriteNoUnlock(l) ==
  /\ user[l] = "write"
  /\ channels' = channels \cup {l}
  /\ status' = [status EXCEPT ![l] = "open"]
  /\ user' = [user EXCEPT ![l] = "send"]
  /\ UNCHANGED <<mtx, made, demux, cur, handler, shut, todo, inbox>>

UserWrite(l) ==
  /\ user[l] = "write"
  /\ channels' = channels \cup {l}
  /\ status' = [status EXCEPT ![l] = "open"]
  /\ mtx' = Free
  /\ user' = [user EXCEPT ![l] = "send"]
  /\ UNCHANGED <<made, demux, cur, handler, shut, todo, inbox>>

\* Mutant of UserSend: a failed first send returns without close().
UserSendNoClose(l) ==
  /\ user[l] = "send"
  /\ \/ /\ user' = [user EXCEPT ![l] = "open"]
        /\ inbox' = inbox \cup {[id |-> l, typ |-> FALSE]}
        /\ UNCHANGED status
     \/ /\ user' = [user EXCEPT ![l] = "failed"]
        /\ UNCHANGED <<status, inbox>>
  /\ UNCHANGED <<channels, mtx, made, demux, cur, handler, shut, todo>>

\* channel.send of the first packet: on success the peer can answer and
\* Switch.Open returns the Channel; when the line layer fails, close() is
\* called and the error returned.  Nothing drops the channel.
UserSend(l) ==
  /\ user[l] = "send"
  /\ \/ /\ user' = [user EXCEPT ![l] = "open"]
        /\ inbox' = inbox \cup {[id |-> l, typ |-> FALSE]}
        /\ UNCHANGED status
     \/ /\ user' = [user EXCEPT ![l] = "failed"]
        /\ status' = [status EXCEPT ![l] = "closed"]
        /\ UNCHANGED inbox
  /\ UNCHANGED <<channels, mtx, made, demux, cur, handler, shut, todo>>

\* Channel.Close: close_with_error; the channel stays registered.
UserClose(l) ==
  /\ user[l] = "open"
  /\ user' = [user EXCEPT ![l] = "closed"]
  /\ status' = [status EXCEPT ![l] = "closed"]
  /\ UNCHANGED <<channels, mtx, made, demux, cur, handler, shut, todo, inbox>>

-----------------------------------------------------------------------------
(* rcv_channel_pkt and rcv_new_channel_pkt (demultiplexer goroutine).      *)

\* The line layer hands over a packet; rcv_channel_pkt starts the unlocked
\* read h.channels[pkt.hdr.C].
DemuxPick(p) ==
  /\ demux = "idle"
  /\ demux' = "read"
  /\ cur' = p
  /\ UNCHANGED <<channels, mtx, made, status, user, handler, shut, todo, inbox>>

\* Mutant of DemuxRead: a typed packet opens a channel without the lookup.
DemuxReadTypeFirst ==
  /\ demux = "read"
  /\ IF cur.typ
       THEN /\ demux' = "lock"
            /\ made' = [made EXCEPT ![cur.id] = @ + 1]
       ELSE /\ demux' = "idle"
            /\ UNCHANGED made
  /\ UNCHANGED <<channels, mtx, status, user, cur, handler, shut, todo, inbox>>

\* The read completes.  A known channel gets rcv.put / handle_ack_info,
\* which do not touch the registry; an unknown id with a type goes to
\* rcv_new_channel_pkt, which builds a channel; an orphan is dropped.
DemuxRead ==
  /\ demux = "read"
  /\ IF cur.id \notin channels /\ cur.typ
       THEN /\ demux' = "lock"
            /\ made' = [made EXCEPT ![cur.id] = @ + 1]
       ELSE /\ demux' = "idle"
            /\ UNCHANGED made
  /\ UNCHANGED <<channels, mtx, status, user, cur, handler, shut, todo, inbox>>

\* rcv_new_channel_pkt: add_channel under channels_mtx, then start
\* run_user_handler and put the first packet (ChannelLayer orders those).
DemuxLock ==
  /\ demux = "lock"
  /\ mtx = Free
  /\ mtx' = Demux
  /\ demux' = "write"
  /\ UNCHANGED <<channels, made, status, user, cur, handler, shut, todo, inbox>>

DemuxWrite ==
  /\ demux = "write"
  /\ channels' = channels \cup {cur.id}
  /\ status' = [status EXCEPT ![cur.id] = "open"]
  /\ handler' = [handler EXCEPT ![cur.id] = "running"]
  /\ mtx' = Free
  /\ demux' = "idle"
  /\ UNCHANGED <<made, user, cur, shut, todo, inbox>>

\* run_user_handler: serve_telehash returns, close() follows.
HandlerReturn(r) ==
  /\ handler[r] = "running"
  /\ handler' = [handler EXCEPT ![r] = "returned"]
  /\ status' = [status EXCEPT ![r] = "closed"]
  /\ UNCHANGED <<channels, mtx, made, user, demux, cur, shut, todo, inbox>>

-----------------------------------------------------------------------------
(* _close_channels: under channels_mtx, close_with_error every channel in  *)
(* the map, closed ones included.                                         *)

\* Mutant of ShutdownLock: the range over h.channels without channels_mtx.
ShutdownLockNoMutex ==
  /\ shut = "idle"
  /\ shut' = "iter"
  /\ todo' = channels
  /\ UNCHANGED <<channels, mtx, made, status, user, demux, cur, handler, inbox>>

ShutdownLock ==
  /\ shut = "idle"
  /\ mtx = Free
  /\ mtx' = Shutdown
  /\ shut' = "iter"
  /\ todo' = channels
  /\ UNCHANGED <<channels, made, status, user, demux, cur, handler, inbox>>

ShutdownClose(c) ==
  /\ shut = "iter"
  /\ c \in todo
  /\ status' = [status EXCEPT ![c] = "closed"]
  /\ todo' = todo \ {c}
  /\ UNCHANGED <<channels, mtx, made, user, demux, cur, handler, shut, inbox>>

ShutdownUnlock ==
  /\ shut = "iter"
  /\ todo = {}
  /\ mtx' = Free
  /\ shut' = "done"
  /\ UNCHANGED <<channels, made, status, user, demux, cur, handler, todo, inbox>>

-----------------------------------------------------------------------------
(* Properties.                                                             *)

\* Type invariant.
TypeOK ==
  /\ channels \subseteq Ids
  /\ mtx \in {Free, Demux, Shutdown} \cup LocalIds
  /\ made \in [Ids -> Nat]
  /\ status \in [Ids -> {"none", "open", "closed"}]
  /\ user \in [LocalIds -> {"start", "lock", "write", "send", "open", "closed", "failed"}]
  /\ demux \in {"idle", "read", "lock", "write"}
  /\ cur \in Packet
  /\ handler \in [RemoteIds -> {"none", "running", "returned"}]
  /\ shut \in {"idle", "iter", "done"} /\ todo \subseteq channels
  /\ inbox \subseteq Packet
  \* channels_mtx is held exactly by a goroutine inside its critical section
  /\ \A l \in LocalIds : mtx = l <=> user[l] = "write"
  /\ mtx = Demux <=> demux = "write"
  /\ mtx = Shutdown <=> shut = "iter"

\* One channel object per id: however the typed first packet of a remote
\* channel is duplicated, and whatever the other goroutines do between
\* the demultiplexer's read and its add_channel, rcv_new_channel_pkt runs
\* once per id, so one handler serves the channel.
OneChannelPerId == \A c \in Ids : made[c] <= 1

\* Every open channel in the registry has an owner that will close it: the
\* caller of open_channel (still sending, or holding the Channel) or a
\* running handler.  An open channel nobody owns is closed by nothing but
\* a shutdown.
NoOrphanOpenChannel ==
  \A c \in channels :
    status[c] = "open" =>
      \/ c \in LocalIds /\ user[c] \in {"send", "open"}
      \/ c \in RemoteIds /\ handler[c] = "running"

\* Go maps are not safe for a read concurrent with a write: the
\* demultiplexer's unlocked read of h.channels never overlaps add_channel's
\* write from an open_channel goroutine.
NoMapRace == ~(demux = "read" /\ \E l \in LocalIds : user[l] = "write")

\* _close_channels leaves no open channel behind in the map it iterates:
\* when it releases channels_mtx, every channel h.channels then holds is
\* closed.  An open_channel or rcv_new_channel_pkt racing with the
\* shutdown either registered before the range began (and was closed by
\* it) or is still waiting for the mutex; without the mutex the range
\* would miss a channel added during it.
ShutdownClosesRegistered ==
  [][shut = "iter" /\ shut' = "done" =>
       \A c \in channels' : status'[c] = "closed"]_vars

-----------------------------------------------------------------------------
Init ==
  /\ channels = {}
  /\ mtx = Free
  /\ made = [c \in Ids |-> 0]
  /\ status = [c \in Ids |-> "none"]
  /\ user = [l \in LocalIds |-> "start"]
  /\ demux = "idle"
  /\ cur = [id |-> CHOOSE r \in Ids : TRUE, typ |-> FALSE]
  /\ handler = [r \in RemoteIds |-> "none"]
  /\ shut = "idle"
  /\ todo = {}
  /\ inbox = {[id |-> r, typ |-> t] : r \in RemoteIds, t \in BOOLEAN}

Next ==
  \/ \E l \in LocalIds :
       UserRand(l) \/ UserLock(l) \/ UserWrite(l) \/ UserSend(l) \/ UserClose(l)
  \/ \E p \in inbox : DemuxPick(p)
  \/ DemuxRead \/ DemuxLock \/ DemuxWrite
  \/ \E r \in RemoteIds : HandlerReturn(r)
  \/ ShutdownLock \/ ShutdownUnlock
  \/ \E c \in Ids : ShutdownClose(c)

Spec == Init /\ [][Next]_vars

=============================================================================
