----------------------------- MODULE LineBuffer -----------------------------
(***************************************************************************)
(* Lines from a dongle to its host over the serial port: the firmware prints *)
(* received packets between lines of its log, and SerialTransport.           *)
(* poll_stream in apps/gibberish-daemon/src/transport.rs collects bytes into *)
(* a bounded buffer and takes the complete lines out of it.                  *)
(***************************************************************************)
EXTENDS Naturals, Sequences, FiniteSets

CONSTANTS
  LineLimit,   \* DONGLE_TO_HOST_LINE_LIMIT, which is also the most that is read at once
  PacketLine,  \* length of the line of a packet, with its newline
  LogLines,    \* lengths of lines of the log
  MaxLines     \* bound: lines printed

ASSUME LineAssumption ==
  /\ LineLimit \in Nat \ {0} /\ PacketLine \in 1..LineLimit
  /\ LogLines \subseteq Nat \ {0} /\ MaxLines \in Nat

VARIABLES
  serial,    \* bytes printed and not yet read: [line, packet, place, newline]
  readBuf,   \* read_buf
  lines,     \* lines printed so far (counts against MaxLines)
  packets,   \* history: the packet lines printed
  handed,    \* history: the packet lines poll_stream has returned, in order
  cut        \* history: the lines of which the safety limit has dropped bytes

lineVars == <<serial, readBuf, lines, packets, handed, cut>>

Line(n, len, isPacket) ==
  [i \in 1..len |-> [line |-> n, packet |-> isPacket, place |-> i, newline |-> i = len]]

LineInit ==
  /\ serial = <<>> /\ readBuf = <<>> /\ lines = 0
  /\ packets = {} /\ handed = <<>> /\ cut = {}

\* println! in the firmware: a packet (main.rs:438-450) or a line of the log.
PrintLine ==
  /\ lines < MaxLines /\ lines' = lines + 1
  /\ \/ serial' = serial \o Line(lines + 1, PacketLine, TRUE) /\ packets' = packets \cup {lines + 1}
     \/ /\ \E len \in LogLines : serial' = serial \o Line(lines + 1, len, FALSE)
        /\ UNCHANGED packets
  /\ UNCHANGED <<readBuf, handed, cut>>

Newlines(buf) == {i \in DOMAIN buf : buf[i].newline}
FirstNewline(buf) == CHOOSE i \in Newlines(buf) : \A j \in Newlines(buf) : i <= j

\* Faulty variant: the bytes of a line that is too long are kept.
NeverDrop(buf) == 0

\* How many bytes the safety limit drops: up to the first newline, or all.
ToDrop(buf) ==
  CASE Len(buf) <= LineLimit -> 0
    [] Len(buf) > LineLimit /\ Newlines(buf) # {} -> FirstNewline(buf)
    [] OTHER -> Len(buf)

\* What follows the last newline of a buffer.  (Faulty variant: it is not kept.)
LastNewline(buf) == IF Newlines(buf) = {} THEN 0 ELSE CHOOSE i \in Newlines(buf) : \A j \in Newlines(buf) : i >= j
UnfinishedLost(buf) == <<>>
Unfinished(buf) == SubSeq(buf, LastNewline(buf) + 1, Len(buf))

\* parse_pkt_line accepts the line that ends at i if nothing of it is missing.
Parses(buf, i) ==
  /\ buf[i].newline /\ buf[i].packet
  /\ i >= PacketLine /\ buf[i - PacketLine + 1] = Line(buf[i].line, PacketLine, TRUE)[1]
\* The n-th of these positions, in order.
Nth(S, n) == CHOOSE i \in S : Cardinality({j \in S : j <= i}) = n
WirePackets(buf) ==
  LET ends == {i \in DOMAIN buf : Parses(buf, i)} IN
  [n \in 1..Cardinality(ends) |-> buf[Nth(ends, n)].line]

\* poll_stream: at most LineLimit bytes are read.
PollStream ==
  /\ serial # <<>>
  /\ \E n \in 1..(IF Len(serial) < LineLimit THEN Len(serial) ELSE LineLimit) :
       LET read == readBuf \o SubSeq(serial, 1, n)
           kept == SubSeq(read, ToDrop(read) + 1, Len(read)) IN
       /\ serial' = SubSeq(serial, n + 1, Len(serial))
       /\ readBuf' = Unfinished(kept)
       /\ handed' = handed \o WirePackets(kept)
       /\ cut' = cut \cup {read[i].line : i \in 1..ToDrop(read)}
  /\ UNCHANGED <<lines, packets>>

\* Everything has been printed and read.
LineQuiet == serial = <<>> /\ lines = MaxLines /\ UNCHANGED lineVars

LineNext == PrintLine \/ PollStream \/ LineQuiet

-----------------------------------------------------------------------------
(* Properties *)

\* Between two polls the buffer stays within its limit and holds the beginning of one
\* line at most, however much was read at once (plan R3).
LineTypeOK ==
  /\ Len(readBuf) <= LineLimit /\ Newlines(readBuf) = {}
  /\ \A i \in DOMAIN readBuf : readBuf[i].line = readBuf[1].line
  /\ lines \in 0..MaxLines

\* Packets are returned in the order they were printed, none twice and none that was
\* cut; and every packet line that has been read is returned or was dropped by the
\* safety limit.
InTransit == {serial[i].line : i \in DOMAIN serial} \cup {readBuf[i].line : i \in DOMAIN readBuf}
PacketsReturned ==
  /\ \A i, j \in DOMAIN handed : i < j => handed[i] < handed[j]
  /\ \A i \in DOMAIN handed : handed[i] \in packets \ cut
  /\ \A p \in packets : p \in InTransit \cup cut \/ \E i \in DOMAIN handed : handed[i] = p

\* The limit applies to a buffer without a newline (transport.rs:98-99): no line
\* that fits is ever dropped.
OnlyLongLinesDropped == \A p \in packets : p \notin cut
=============================================================================
