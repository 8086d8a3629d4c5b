------------------------------ MODULE UsbFramer ------------------------------
(***************************************************************************)
(* Frames from the host to its dongle over the serial port: SerialTransport. *)
(* send_packet in apps/gibberish-daemon/src/transport.rs, and the byte       *)
(* machine in the firmware's main.rs that finds them in the stream again.    *)
(* Bytes may be lost.  A payload starts with its network tag, which fills    *)
(* eight bytes that occur nowhere else and is one byte here.                 *)
(***************************************************************************)
EXTENDS Naturals, Sequences, FiniteSets

CONSTANTS
  FrameData,   \* what may follow the tag: sequences of DataLen bytes
  DataLen,    \* the rest of the 114 bytes
  MaxFrames,  \* bound: frames sent
  MaxLost     \* bound: bytes lost

ASSUME FramerAssumption ==
  /\ DataLen \in Nat \ {0} /\ MaxFrames \in Nat /\ MaxLost \in Nat
  /\ \A c \in FrameData : c \in Seq({"AA", "55", "72", "other"}) /\ Len(c) = DataLen

VARIABLES
  wire,     \* what is left to send of the frame being sent: bytes [value, frame, place]
  frames,   \* frames begun so far (counts against MaxFrames)
  state,    \* usb_rx_state
  pktBuf,   \* usb_pkt_buf up to usb_pkt_idx
  holed,    \* history: frames that have lost a byte (counts against MaxLost)
  losses,   \* bytes lost so far
  accepted  \* history: the packets accepted, as the bytes they were made of

framerVars == <<wire, frames, state, pktBuf, holed, losses, accepted>>

PacketLen == 1 + DataLen

\* send_packet: the header AA 55 72, then the packet, tag first.
Framed(f, content) ==
  LET values == <<"AA", "55", "72", "tag">> \o content IN
  [i \in 1..(3 + PacketLen) |-> [value |-> values[i], frame |-> f, place |-> i]]

FramerInit ==
  /\ wire = <<>> /\ frames = 0
  /\ state = "Sync0" /\ pktBuf = <<>>
  /\ holed = {} /\ losses = 0 /\ accepted = <<>>

SendPacket ==
  /\ wire = <<>> /\ frames < MaxFrames
  /\ frames' = frames + 1
  /\ \E content \in FrameData : wire' = Framed(frames + 1, content)
  /\ UNCHANGED <<state, pktBuf, holed, losses, accepted>>

ByteLost ==
  /\ wire # <<>> /\ losses < MaxLost
  /\ losses' = losses + 1 /\ holed' = holed \cup {Head(wire).frame}
  /\ wire' = Tail(wire)
  /\ UNCHANGED <<frames, state, pktBuf, accepted>>

\* Faulty variants: a repeated AA is not taken for the start of a header.
AfterSync1Strict(b) == IF b = "55" THEN "Length" ELSE "Sync0"
AfterLengthStrict(b) == IF b = "72" THEN "Payload" ELSE "Sync0"

AfterSync0(b) == IF b = "AA" THEN "Sync1" ELSE "Sync0"
AfterSync1(b) == CASE b = "55" -> "Length" [] b = "AA" -> "Sync1" [] OTHER -> "Sync0"
AfterLength(b) == CASE b = "72" -> "Payload" [] b = "AA" -> "Sync1" [] OTHER -> "Sync0"

\* A byte outside of a payload.
Synchronise ==
  /\ wire # <<>> /\ state # "Payload"
  /\ LET b == Head(wire).value IN
     state' = CASE state = "Sync0" -> AfterSync0(b)
                [] state = "Sync1" -> AfterSync1(b)
                [] state = "Length" -> AfterLength(b)
  /\ pktBuf' = <<>> /\ wire' = Tail(wire)
  /\ UNCHANGED <<frames, holed, losses, accepted>>

\* Faulty variant: whatever has the length of a packet is accepted.
AnyTag(packet) == TRUE

\* is_valid_network_tag
ValidTag(packet) == packet[1].value = "tag"

\* A byte of a payload, whatever it is; the last one completes the packet.
Payload ==
  /\ wire # <<>> /\ state = "Payload"
  /\ wire' = Tail(wire)
  /\ LET packet == Append(pktBuf, Head(wire)) IN
     IF Len(packet) < PacketLen
       THEN pktBuf' = packet /\ UNCHANGED <<state, accepted>>
       ELSE /\ pktBuf' = <<>> /\ state' = "Sync0"
            /\ accepted' = IF ValidTag(packet) THEN Append(accepted, packet) ELSE accepted
  /\ UNCHANGED <<frames, holed, losses>>

\* Every frame has been sent.
FramerQuiet == wire = <<>> /\ frames = MaxFrames /\ UNCHANGED framerVars

FramerNext == SendPacket \/ ByteLost \/ Synchronise \/ Payload \/ FramerQuiet

-----------------------------------------------------------------------------
(* Properties *)

\* The buffer never holds a whole packet between two bytes, and holds something only
\* inside of a payload: the index into usb_pkt_buf stays below 114.
FramerTypeOK ==
  /\ state \in {"Sync0", "Sync1", "Length", "Payload"}
  /\ Len(pktBuf) < PacketLen /\ (state # "Payload" => pktBuf = <<>>)
  /\ frames \in 0..MaxFrames /\ losses \in 0..MaxLost /\ holed \subseteq 1..frames

Whole(packet, f) == \A i \in 1..PacketLen : packet[i].frame = f /\ packet[i].place = 3 + i
AcceptedWhole(f) == {i \in DOMAIN accepted : Whole(accepted[i], f)}
Sent(f) == f < frames \/ (f = frames /\ wire = <<>>)

\* A frame that loses no byte, after one that lost none, is accepted as it was sent,
\* and once: a loss costs its own frame and at most the next.  (As long as no
\* payload holds AA 55 72; see README.)
Resynchronises ==
  \A f \in 1..MaxFrames :
    Sent(f) /\ {f - 1, f} \cap holed = {} => Cardinality(AcceptedWhole(f)) = 1

\* What is accepted and is not a frame as it was sent starts with the tag of a frame
\* that has lost a later byte, and ends with bytes of the next one: garbage between
\* frames is never accepted.
DamageExplained ==
  \A i \in DOMAIN accepted :
    LET p == accepted[i] IN
    \/ Whole(p, p[1].frame)
    \/ p[1].place = 4 /\ p[1].frame \in holed /\ p[PacketLen].frame > p[1].frame

\* Framing glitches drop safely (plan SC4): what is accepted is what was sent.
GlitchesDrop == \A i \in DOMAIN accepted : Whole(accepted[i], accepted[i][1].frame)
=============================================================================
