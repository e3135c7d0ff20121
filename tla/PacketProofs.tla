---------------------------- MODULE PacketProofs ----------------------------
(***************************************************************************)
(* MyPacket_Get accepts exactly the correct packets at the boundaries the  *)
(* first byte sets, and hands out the five bytes that arrived: for streams *)
(* of any length over any byte values.                                     *)
(***************************************************************************)
EXTENDS Packet, SequenceTheorems, TLAPS

\* NbBytesInPkt is where the stream is in its packet.
Aligned == Len(stream) % PACKET_NB_BYTES = NbBytesInPkt

\* The fields filled so far hold the last bytes of the stream.
Collected ==
    \A i \in 1 .. NbBytesInPkt : Packet[i] = stream[Len(stream) - NbBytesInPkt + i]

\* A boundary is accepted when the packet it closes is correct, and no other place is.
Heard ==
    \A i \in 1 .. Len(stream) : i \in accepted <=> i % PACKET_NB_BYTES = 0 /\ Valid(i)

\* An accepted packet is still there until the next byte.
Held == Len(stream) \in accepted => Packet = Window(Len(stream))

IInv == TypeOK /\ Aligned /\ Collected /\ Heard /\ Held

-----------------------------------------------------------------------------

\* Where a stream is in its packet after one byte more.
LEMMA NextPlace ==
    ASSUME NEW n \in Nat
    PROVE  /\ n % PACKET_NB_BYTES \in 0 .. 4 /\ n % PACKET_NB_BYTES <= n
           /\ n % PACKET_NB_BYTES = 4 => (n + 1) % PACKET_NB_BYTES = 0 /\ n >= 4
           /\ n % PACKET_NB_BYTES < 4 => (n + 1) % PACKET_NB_BYTES = (n % PACKET_NB_BYTES) + 1
  BY DEF PACKET_NB_BYTES

\* The bytes of a window of any stream.
LEMMA WindowBytes ==
    ASSUME NEW s \in Seq(Byte), NEW i \in Nat, i >= PACKET_NB_BYTES, i <= Len(s)
    PROVE  LET w == SubSeq(s, i - PACKET_NB_BYTES + 1, i)
           IN  /\ w \in [1 .. 5 -> Byte]
               /\ \A k \in 1 .. 5 : w[k] = s[i - 5 + k]
  <1> DEFINE m == i - PACKET_NB_BYTES + 1
             w == SubSeq(s, m, i)
  <1>1. m \in Int /\ i \in Int /\ m <= i /\ i - m + 1 = 5 /\ m >= 1
    BY DEF PACKET_NB_BYTES
  <1>2. \A k \in 1 .. 5 : m + k - 1 = i - 5 + k
    BY DEF PACKET_NB_BYTES
  <1> HIDE DEF m
  <1>3. \A j \in m .. i : s[j] \in Byte
    BY <1>1, ElementOfSeq
  <1>4. /\ w \in Seq(Byte) /\ Len(w) = IF m <= i THEN i - m + 1 ELSE 0
        /\ \A k \in 1 .. i - m + 1 : w[k] = s[m + k - 1]
    BY <1>1, <1>3, SubSeqProperties
  <1> HIDE DEF w
  <1>5. w \in [1 .. 5 -> Byte]
    <2>1. Len(w) = 5
      BY <1>1, <1>4
    <2> QED BY <1>4, <2>1, LenProperties
  <1>6. \A k \in 1 .. 5 : w[k] = s[i - 5 + k]
    BY <1>1, <1>2, <1>4
  <1> QED BY <1>5, <1>6 DEF w, m

\* The window at a place the stream has passed does not change.
LEMMA WindowKept ==
    ASSUME NEW b \in Byte, stream \in Seq(Byte), stream' = Append(stream, b),
           NEW i \in 1 .. Len(stream), i >= PACKET_NB_BYTES
    PROVE  Window(i)' = Window(i)
  <1>1. /\ Len(stream') = Len(stream) + 1 /\ stream' \in Seq(Byte) /\ Len(stream) \in Nat
        /\ \A j \in 1 .. Len(stream) : stream'[j] = stream[j]
    BY AppendProperties
  <1>2. i \in Nat /\ i <= Len(stream) /\ i <= Len(stream')
    BY <1>1
  <1>3. /\ Window(i) \in [1 .. 5 -> Byte]
        /\ \A k \in 1 .. 5 : Window(i)[k] = stream[i - 5 + k]
    BY <1>2, WindowBytes DEF Window
  <1>4. /\ Window(i)' \in [1 .. 5 -> Byte]
        /\ \A k \in 1 .. 5 : Window(i)'[k] = stream'[i - 5 + k]
    BY <1>1, <1>2, WindowBytes DEF Window
  <1>5. \A k \in 1 .. 5 : i - 5 + k \in 1 .. Len(stream)
    BY <1>1 DEF PACKET_NB_BYTES
  <1>6. \A k \in 1 .. 5 : Window(i)'[k] = Window(i)[k]
    BY <1>1, <1>3, <1>4, <1>5
  <1> DEFINE u == Window(i)'
             v == Window(i)
  <1>7. u = [k \in 1 .. 5 |-> u[k]] /\ v = [k \in 1 .. 5 |-> v[k]]
    BY <1>3, <1>4
  <1> HIDE DEF u, v
  <1>8. u = v
    BY <1>6, <1>7 DEF u, v
  <1> QED BY <1>8 DEF u, v

\* So a place the stream has passed is correct or not for good.
LEMMA ValidKept ==
    ASSUME NEW b \in Byte, stream \in Seq(Byte), stream' = Append(stream, b),
           NEW i \in 1 .. Len(stream)
    PROVE  Valid(i)' <=> Valid(i)
  <1>1. CASE i >= PACKET_NB_BYTES
    <2>1. Window(i)' = Window(i)
      BY <1>1, WindowKept
    <2> QED BY <2>1 DEF Valid
  <1>2. CASE ~ (i >= PACKET_NB_BYTES)
    BY <1>2 DEF Valid
  <1> QED BY <1>1, <1>2

\* The fifth byte of a packet: its window is the four fields and the byte itself.
LEMMA LastWindow ==
    ASSUME NEW b \in Byte, IInv, stream' = Append(stream, b),
           NbBytesInPkt = PACKET_NB_BYTES - 1, NEW n \in Nat, n = Len(stream) + 1
    PROVE  /\ n % PACKET_NB_BYTES = 0
           /\ Window(n)' = [Packet EXCEPT ![5] = b]
           /\ Valid(n)' <=> b = Checksum(Packet)
  <1>1. /\ stream \in Seq(Byte) /\ Len(stream) \in Nat /\ Packet \in [1 .. 5 -> 0 .. 255]
        /\ Len(stream) % PACKET_NB_BYTES = 4
    BY DEF IInv, TypeOK, Aligned, PACKET_NB_BYTES
  <1>2. n % PACKET_NB_BYTES = 0 /\ n >= 5 /\ Len(stream) = n - 1
    BY <1>1, NextPlace
  <1>3. /\ stream' \in Seq(Byte) /\ Len(stream') = n /\ stream'[n] = b
        /\ \A i \in 1 .. n - 1 : stream'[i] = stream[i]
    BY <1>1, <1>2, AppendProperties
  <1>4. /\ Window(n)' \in [1 .. 5 -> Byte]
        /\ \A k \in 1 .. 5 : Window(n)'[k] = stream'[n - 5 + k]
    <2>1. n >= PACKET_NB_BYTES /\ n <= Len(stream')
      BY <1>2, <1>3 DEF PACKET_NB_BYTES
    <2> QED BY <1>3, <2>1, WindowBytes DEF Window
  <1>5. \A k \in 1 .. 4 : Packet[k] = stream[n - 5 + k]
    <2>1. NbBytesInPkt = 4
      BY DEF PACKET_NB_BYTES
    <2>2. \A k \in 1 .. 4 : n - 1 - 4 + k = n - 5 + k
      OBVIOUS
    <2> QED BY <1>2, <2>1, <2>2 DEF IInv, Collected
  <1>6. \A k \in 1 .. 4 : Window(n)'[k] = Packet[k]
    <2>1. \A k \in 1 .. 4 : n - 5 + k \in 1 .. n - 1
      BY <1>2
    <2> QED BY <1>3, <1>4, <1>5, <2>1
  <1>7. Window(n)'[5] = b
    <2>1. n - 5 + 5 = n
      OBVIOUS
    <2> QED BY <1>3, <1>4, <2>1
  <1>8. Window(n)' = [Packet EXCEPT ![5] = b]
    <2> DEFINE p == [Packet EXCEPT ![5] = b]
    <2>1. DOMAIN p = 1 .. 5 /\ p = [k \in 1 .. 5 |-> p[k]]
      BY <1>1
    <2>2. \A k \in 1 .. 5 : Window(n)'[k] = p[k]
      BY <1>1, <1>6, <1>7
    <2> QED BY <1>4, <2>1, <2>2
  <1>9. Checksum(Window(n)') = Checksum(Packet)
    BY <1>6 DEF Checksum
  <1>10. Valid(n)' <=> b = Checksum(Packet)
    BY <1>2, <1>7, <1>9 DEF Valid, PACKET_NB_BYTES
  <1> QED BY <1>2, <1>8, <1>10

\* Nothing has been received at the start.
LEMMA InitOK == Init => IInv
  BY PacketAssumption DEF Init, IInv, TypeOK, Aligned, Collected, Heard, Held, PACKET_NB_BYTES

\* One byte more: a field, or the end of a correct or of an incorrect packet.
LEMMA StepOK == IInv /\ [Next]_vars => IInv'
  <1> SUFFICES ASSUME IInv, [Next]_vars PROVE IInv'
    OBVIOUS
  <1>1. CASE UNCHANGED vars
    BY <1>1 DEF vars, IInv, TypeOK, Aligned, Collected, Heard, Held, Valid, Window
  <1>2. CASE MyPacket_Get
    <2>1. PICK b \in Byte : /\ stream' = Append(stream, b)
                            /\ Collect(b) \/ Accept(b) \/ Reject(b)
      BY <1>2 DEF MyPacket_Get
    <2>2. PICK n \in Nat : n = Len(stream) + 1
      BY DEF IInv, TypeOK
    <2>3. /\ Packet \in [1 .. 5 -> 0 .. 255] /\ NbBytesInPkt \in 0 .. 4
          /\ stream \in Seq(Byte) /\ accepted \subseteq 1 .. n - 1
          /\ (n - 1) % PACKET_NB_BYTES = NbBytesInPkt /\ n - 1 \in Nat
          /\ Len(stream) = n - 1 /\ b \in 0 .. 255
      BY <2>2, PacketAssumption DEF IInv, TypeOK, Aligned, PACKET_NB_BYTES
    <2>4. /\ stream' \in Seq(Byte) /\ Len(stream') = n /\ stream'[n] = b
          /\ \A i \in 1 .. n - 1 : stream'[i] = stream[i]
      BY <2>1, <2>2, <2>3, AppendProperties
    <2>5. \A i \in 1 .. n - 1 : i \in accepted <=> i % PACKET_NB_BYTES = 0 /\ Valid(i)'
      BY <2>1, <2>3, ValidKept DEF IInv, Heard
    <2>6. 1 .. n = (1 .. n - 1) \cup {n} /\ n \notin 1 .. n - 1 /\ n - 1 + 1 = n
      BY <2>3
    <2>7. CASE Collect(b)
      <3>1. /\ NbBytesInPkt \in 0 .. 3 /\ Packet' = [Packet EXCEPT ![NbBytesInPkt + 1] = b]
            /\ NbBytesInPkt' = NbBytesInPkt + 1 /\ accepted' = accepted
        BY <2>3, <2>7 DEF Collect, PACKET_NB_BYTES
      <3>2. n % PACKET_NB_BYTES = NbBytesInPkt' /\ NbBytesInPkt' \in 1 .. 4
        BY <2>3, <2>6, <3>1, NextPlace
      <3>3. TypeOK'
        <4>1. Packet' \in [1 .. 5 -> 0 .. 255]
          BY <2>3, <3>1
        <4>2. accepted' \subseteq 1 .. n
          BY <2>3, <2>6, <3>1
        <4> QED BY <2>4, <3>2, <4>1, <4>2 DEF TypeOK, PACKET_NB_BYTES
      <3>4. Aligned'
        BY <2>4, <3>2 DEF Aligned
      <3>5. Collected'
        <4> SUFFICES ASSUME NEW i \in 1 .. NbBytesInPkt + 1
                     PROVE  Packet'[i] = stream'[n - (NbBytesInPkt + 1) + i]
          BY <2>4, <3>1 DEF Collected
        <4>1. CASE i = NbBytesInPkt + 1
          <5>1. n - (NbBytesInPkt + 1) + i = n /\ i \in 1 .. 5
            BY <2>3, <3>1, <4>1
          <5> QED BY <2>3, <2>4, <3>1, <4>1, <5>1
        <4>2. CASE i # NbBytesInPkt + 1
          <5> DEFINE j == n - 1 - NbBytesInPkt + i
          <5>1. i \in 1 .. NbBytesInPkt /\ i \in 1 .. 5
            BY <3>1, <4>2
          <5>2. NbBytesInPkt <= n - 1
            BY <2>3, NextPlace
          <5>3. j = n - (NbBytesInPkt + 1) + i /\ j \in 1 .. n - 1
            BY <2>3, <5>1, <5>2
          <5>4. Packet[i] = stream[j]
            BY <2>3, <5>1 DEF IInv, Collected
          <5>5. Packet'[i] = Packet[i]
            BY <2>3, <3>1, <4>2, <5>1
          <5> HIDE DEF j
          <5> QED BY <2>4, <5>3, <5>4, <5>5
        <4> QED BY <4>1, <4>2
      <3>6. Heard'
        <4>1. n \notin accepted' /\ n % PACKET_NB_BYTES # 0
          BY <2>3, <2>6, <3>1, <3>2
        <4> QED BY <2>4, <2>5, <2>6, <3>1, <4>1 DEF Heard
      <3>7. Held'
        BY <2>3, <2>4, <2>6, <3>1 DEF Held
      <3> QED BY <3>3, <3>4, <3>5, <3>6, <3>7 DEF IInv
    <2>8. CASE Accept(b)
      <3>1. /\ NbBytesInPkt = PACKET_NB_BYTES - 1 /\ Packet' = [Packet EXCEPT ![5] = b]
            /\ NbBytesInPkt' = 0 /\ b = Checksum(Packet) /\ accepted' = accepted \cup {n}
        BY <2>4, <2>8 DEF Accept
      <3>2. n % PACKET_NB_BYTES = 0 /\ Valid(n)' /\ Window(n)' = Packet'
        BY <2>1, <2>2, <3>1, LastWindow
      <3>3. TypeOK'
        <4>1. Packet' \in [1 .. 5 -> 0 .. 255]
          BY <2>3, <3>1
        <4>2. accepted' \subseteq 1 .. n
          BY <2>3, <2>6, <3>1
        <4>3. NbBytesInPkt' \in 0 .. PACKET_NB_BYTES - 1
          BY <3>1 DEF PACKET_NB_BYTES
        <4> QED BY <2>4, <4>1, <4>2, <4>3 DEF TypeOK, PACKET_NB_BYTES
      <3>4. Aligned' /\ Collected'
        BY <2>4, <3>1, <3>2 DEF Aligned, Collected
      <3>5. Held'
        BY <2>4, <3>2 DEF Held, Window
      <3>6. Heard'
        BY <2>4, <2>5, <2>6, <3>1, <3>2 DEF Heard
      <3> QED BY <3>3, <3>4, <3>5, <3>6 DEF IInv
    <2>9. CASE Reject(b)
      <3>1. /\ NbBytesInPkt = PACKET_NB_BYTES - 1
            /\ Packet' = <<Packet[2], Packet[3], Packet[4], b, b>>
            /\ NbBytesInPkt' = 0 /\ b # Checksum(Packet) /\ accepted' = accepted
        BY <2>9 DEF Reject
      <3>2. n % PACKET_NB_BYTES = 0 /\ ~ Valid(n)'
        BY <2>1, <2>2, <3>1, LastWindow
      <3>3. TypeOK'
        <4>1. Packet' \in [1 .. 5 -> 0 .. 255]
          <5>1. Packet[2] \in 0 .. 255 /\ Packet[3] \in 0 .. 255 /\ Packet[4] \in 0 .. 255
            BY <2>3
          <5> DEFINE p == <<Packet[2], Packet[3], Packet[4], b, b>>
          <5>2. DOMAIN p = 1 .. 5 /\ p = [k \in 1 .. 5 |-> p[k]]
            OBVIOUS
          <5>3. \A k \in 1 .. 5 : p[k] \in 0 .. 255
            <6>1. /\ p[1] \in 0 .. 255 /\ p[2] \in 0 .. 255 /\ p[3] \in 0 .. 255
                  /\ p[4] \in 0 .. 255 /\ p[5] \in 0 .. 255
              BY <2>3, <5>1
            <6> HIDE DEF p
            <6> QED BY <6>1
          <5> HIDE DEF p
          <5>4. p \in [1 .. 5 -> 0 .. 255]
            BY <5>2, <5>3
          <5> QED BY <3>1, <5>4 DEF p
        <4>2. accepted' \subseteq 1 .. n
          BY <2>3, <2>6, <3>1
        <4>3. NbBytesInPkt' \in 0 .. PACKET_NB_BYTES - 1
          BY <3>1 DEF PACKET_NB_BYTES
        <4> QED BY <2>4, <4>1, <4>2, <4>3 DEF TypeOK, PACKET_NB_BYTES
      <3>4. Aligned' /\ Collected'
        BY <2>4, <3>1, <3>2 DEF Aligned, Collected
      <3>5. n \notin accepted'
        BY <2>3, <2>6, <3>1
      <3>6. Heard'
        BY <2>4, <2>5, <2>6, <3>1, <3>2, <3>5 DEF Heard
      <3>7. Held'
        BY <2>4, <3>5 DEF Held
      <3> QED BY <3>3, <3>4, <3>6, <3>7 DEF IInv
    <2> QED BY <2>1, <2>7, <2>8, <2>9
  <1> QED BY <1>1, <1>2 DEF Next

-----------------------------------------------------------------------------

\* Where the fields, the stream and the packets accepted stand to each other.
THEOREM Invariant == Spec => []IInv
  BY InitOK, StepOK, PTL DEF Spec

\* The five fields stay bytes, the count below five.
THEOREM TypeCorrect == Spec => []TypeOK
  BY Invariant, PTL DEF IInv

\* When MyPacket_Get returns true, Packet holds the last five bytes of the line, whatever
\* rejected packets left in it, and their checksum is right.
THEOREM WhatArrived == Spec => []AcceptsWhatArrived
  <1>1. IInv => AcceptsWhatArrived
    BY DEF IInv, TypeOK, Heard, Held, AcceptsWhatArrived
  <1> QED BY <1>1, Invariant, PTL

\* A PC that sends whole packets is heard whatever their checksums are.
THEOREM BoundariesHeard == Spec => []AlignedHeard
  <1>1. IInv => AlignedHeard
    BY DEF IInv, Heard, AlignedHeard
  <1> QED BY <1>1, Invariant, PTL

=============================================================================
