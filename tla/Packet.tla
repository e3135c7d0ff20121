------------------------------- MODULE Packet -------------------------------
(***************************************************************************)
(* MyPacket_Get of MyPacket.c: one byte per call, five bytes to a packet,  *)
(* the fifth the exclusive or of the first four.                           *)
(***************************************************************************)
EXTENDS Integers, Sequences

CONSTANTS
    Byte,          \* the byte values the line carries
    MaxStream      \* bound: bytes received

PACKET_NB_BYTES == 5

ASSUME PacketAssumption == Byte \subseteq 0 .. 255 /\ MaxStream \in Nat

VARIABLES
    Packet,          \* Packet_Command, Packet_Parameter1 .. 3, Packet_Checksum
    NbBytesInPkt,
    stream,          \* every byte UART_InChar has returned
    accepted         \* the lengths of the stream at which MyPacket_Get returned true

vars == <<Packet, NbBytesInPkt, stream, accepted>>

\* The exclusive or of two bytes, bit by bit.
Xor(a, b) ==
    LET bit(w) == IF (a \div w) % 2 = (b \div w) % 2 THEN 0 ELSE w
    IN  bit(1) + bit(2) + bit(4) + bit(8) + bit(16) + bit(32) + bit(64) + bit(128)

Checksum(p) == Xor(Xor(Xor(p[1], p[2]), p[3]), p[4])

Init ==
    /\ Packet = <<0, 0, 0, 0, 0>>
    /\ NbBytesInPkt = 0
    /\ stream = <<>>
    /\ accepted = {}

\* Cases 0 to 3 of the switch.
Collect(b) ==
    /\ NbBytesInPkt < PACKET_NB_BYTES - 1
    /\ Packet' = [Packet EXCEPT ![NbBytesInPkt + 1] = b]
    /\ NbBytesInPkt' = NbBytesInPkt + 1
    /\ UNCHANGED accepted

\* Case 4, good checksum: the packet is complete.
Accept(b) ==
    /\ NbBytesInPkt = PACKET_NB_BYTES - 1
    /\ b = Checksum(Packet)
    /\ Packet' = [Packet EXCEPT ![5] = b]
    /\ NbBytesInPkt' = 0
    /\ accepted' = accepted \cup {Len(stream')}

\* Faults of the bad-checksum case: the count runs on, or stays at 4 with the
\* fields shifted, or stays at 4 with one field forgotten.
RejectRunsOn(b) ==
    /\ NbBytesInPkt = PACKET_NB_BYTES - 1
    /\ b # Checksum(Packet)
    /\ NbBytesInPkt' = NbBytesInPkt + 1
    /\ UNCHANGED <<Packet, accepted>>

RejectShifts(b) ==
    /\ NbBytesInPkt = PACKET_NB_BYTES - 1
    /\ b # Checksum(Packet)
    /\ Packet' = <<Packet[2], Packet[3], Packet[4], b, b>>
    /\ UNCHANGED <<NbBytesInPkt, accepted>>

RejectKeepsCommand(b) ==
    /\ NbBytesInPkt = PACKET_NB_BYTES - 1
    /\ b # Checksum(Packet)
    /\ Packet' = <<Packet[1], Packet[3], Packet[4], b, b>>
    /\ UNCHANGED <<NbBytesInPkt, accepted>>

\* Case 4, bad checksum: the fields shift down one place, NbBytesInPkt becomes
\* 4, and control falls through to the default case, which clears it.
Reject(b) ==
    /\ NbBytesInPkt = PACKET_NB_BYTES - 1
    /\ b # Checksum(Packet)
    /\ Packet' = <<Packet[2], Packet[3], Packet[4], b, b>>
    /\ NbBytesInPkt' = 0
    /\ UNCHANGED accepted

MyPacket_Get ==
    \E b \in Byte :
        /\ Len(stream) < MaxStream
        /\ stream' = Append(stream, b)
        /\ Collect(b) \/ Accept(b) \/ Reject(b)

Next == MyPacket_Get

Spec == Init /\ [][Next]_vars

-----------------------------------------------------------------------------
(* Properties *)

TypeOK ==
    /\ Packet \in [1 .. PACKET_NB_BYTES -> 0 .. 255]
    /\ NbBytesInPkt \in 0 .. PACKET_NB_BYTES - 1
    /\ stream \in Seq(Byte)
    /\ accepted \subseteq 1 .. Len(stream)

\* The five bytes that end at position i of the stream.
Window(i) == SubSeq(stream, i - PACKET_NB_BYTES + 1, i)

Valid(i) == i >= PACKET_NB_BYTES /\ Window(i)[5] = Checksum(Window(i))

\* What HandlePacket sees when MyPacket_Get returns true: the last five bytes
\* of the line, whatever was left in Packet by rejected bytes before.
AcceptsWhatArrived ==
    Len(stream) \in accepted => Valid(Len(stream)) /\ Packet = Window(Len(stream))

\* A PC that sends whole packets is heard whatever their checksums are: the
\* boundaries of a packet stay where the stream's first byte put them, so every
\* correct packet is accepted even right after an incorrect one.
AlignedHeard ==
    \A i \in 1 .. Len(stream) :
        i % PACKET_NB_BYTES = 0 /\ Valid(i) => i \in accepted

\* "checksum bad, discard one byte and shift": a correct packet is recognised at
\* any position the packets accepted so far leave free.
Resynchronises ==
    \A i \in 1 .. Len(stream) :
        Valid(i) /\ (\A j \in accepted : j # i => j + PACKET_NB_BYTES <= i \/ j >= i + PACKET_NB_BYTES)
            => i \in accepted

=============================================================================
