---------------------------- MODULE PacketCodec ----------------------------
(***************************************************************************)
(* The wire framing of src/pkt.go: format_pkt and parse_pkt.              *)
(*                                                                         *)
(* A packet is abstracted to the length of its JSON header encoding and   *)
(* the length of its body; the header's content is an opaque JSON object. *)
(* A frame is a byte string described by its two prefix bytes, its total *)
(* length and where the JSON object written by the encoder ends.  That is *)
(* all parse_pkt reads: it takes the header length from the prefix,       *)
(* decodes the first JSON value of the header slice and copies the rest.  *)
(*                                                                         *)
(* A sender formats packets onto the wire, a receiver parses what arrives; *)
(* the run checks that every frame parses back to the packet it came from. *)
(***************************************************************************)
EXTENDS Naturals, FiniteSets

CONSTANTS
  HdrSizes,    \* lengths of JSON header encodings the sender produces
  BodySizes    \* body lengths

ASSUME HdrSizes \subseteq Nat \ {0, 1} /\ BodySizes \subseteq Nat

Packets == [hdr : HdrSizes, body : BodySizes]

U16 == 2^16

\* Mutant of Format: the header length counts the two prefix bytes.
FormatLenWithPrefix(p) ==
  LET l == p.hdr + 1 + 2
  IN  [b0 |-> (l % U16) \div 256, b1 |-> l % 256,
       len |-> 2 + p.hdr + 1 + p.body, json |-> 2 + p.hdr]

\* format_pkt: two zero bytes, the header as json.Encoder writes it (the
\* object followed by a newline), the body; then the header length l is
\* written into the first two bytes as a big-endian uint16, which keeps
\* l modulo 2^16.  `json` is the offset at which the JSON object ends.
Format(p) ==
  LET l == p.hdr + 1
  IN  [b0 |-> (l % U16) \div 256, b1 |-> l % 256,
       len |-> 2 + p.hdr + 1 + p.body, json |-> 2 + p.hdr]

MalformedFrame  == "MalformedFrame"
MalformedHeader == "MalformedHeader"

\* parse_pkt: too short, or a header length beyond the input, is a frame
\* error; decoding in[2 : hdr_len+2] succeeds when that slice holds the
\* whole JSON object (the decoder reads the first value and ignores what
\* follows); the body is in[hdr_len+2 :], absent when empty.
Parse(f) ==
  LET hdrLen  == f.b0 * 256 + f.b1
      bodyLen == f.len - (hdrLen + 2)
  IN  IF f.len < 4 THEN [ok |-> FALSE, err |-> MalformedFrame]
      ELSE IF bodyLen < 0 THEN [ok |-> FALSE, err |-> MalformedFrame]
      ELSE IF hdrLen + 2 < f.json THEN [ok |-> FALSE, err |-> MalformedHeader]
      ELSE [ok |-> TRUE, hdr |-> f.json - 2, bodyAt |-> hdrLen + 2, body |-> bodyLen]

VARIABLES
  wire,    \* frames sent, each with the packet it was formatted from
  got      \* parse results at the receiver, with the packet sent

vars == <<wire, got>>

Init ==
  /\ wire = {}
  /\ got  = {}

\* The sender formats a packet and hands the frame to the network.
Transmit(p) ==
  /\ wire' = wire \cup {[pkt |-> p, frame |-> Format(p)]}
  /\ UNCHANGED got

\* The receiver parses a frame that arrived.
Receive(w) ==
  /\ got' = got \cup {[pkt |-> w.pkt, res |-> Parse(w.frame)]}
  /\ UNCHANGED wire

Next ==
  \/ \E p \in Packets : Transmit(p)
  \/ \E w \in wire : Receive(w)

Spec == Init /\ [][Next]_vars

-----------------------------------------------------------------------------
\* Spec sections 4.1 and 8: parse(format(p)) = p.  Every frame the
\* receiver parsed yields the header that was written and the body bytes
\* that follow it, for every header and body length the sender uses; the
\* uint16 length field of format_pkt is where this can break.
RoundTrip ==
  \A r \in got :
    r.res = [ok |-> TRUE, hdr |-> r.pkt.hdr,
             bodyAt |-> 2 + r.pkt.hdr + 1, body |-> r.pkt.body]

=============================================================================
