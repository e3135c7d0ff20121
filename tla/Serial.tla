------------------------------- MODULE Serial -------------------------------
(***************************************************************************)
(* The serial port: UART.c's interrupt handler and two threads, the two    *)
(* FIFOs between them and the rest of the program, and their users,        *)
(* ProtocolThread (one packet in, at most one packet out) and the text     *)
(* that DisplayThread prints.                                              *)
(*                                                                         *)
(* One core, fixed priorities: a thread takes a step only while no more    *)
(* urgent thread is ready and no handler runs.  Bytes are numbered: byte   *)
(* <<x, k>> is the k-th byte that source x ever hands over, so the order,  *)
(* the loss and the duplication of bytes are visible and nothing else is.  *)
(***************************************************************************)
EXTENDS Integers, Sequences, FiniteSets

CONSTANTS
    RxSize, TxSize,      \* FIFO_SIZE of the two FIFOs (256 both in the code)
    PacketBytes,         \* PACKET_NB_BYTES (5 in the code)
    TextBytes,           \* the length of a printed text
    MaxIn,               \* bound: bytes the PC sends
    MaxTexts             \* bound: ticks of the display timer

ASSUME SerialAssumption ==
    /\ {RxSize, TxSize, PacketBytes, TextBytes} \subseteq Nat \ {0}
    /\ {MaxIn, MaxTexts} \subseteq Nat

VARIABLES
    count, waiters,             \* the kernel's semaphores
    rxFIFO, rxPc, rxItem,       \* RxFIFO, and the calls inside it
    txFIFO, txPc, txItem,       \* TxFIFO, and the calls inside it
    at,                         \* the next statement of each thread
    TempData,                   \* UART.c's TempData
    masked,                     \* PRIMASK: interrupts disabled by a thread
    isr,                        \* where UART_ISR is
    rdrf, rxData,               \* UART2_S1[RDRF] and the receive buffer
    tdre, txData, tie,          \* UART2_S1[TDRE], the transmit buffer, UART2_C2[TIE]
    NbBytesInPkt,               \* MyPacket.c
    printed,                    \* the index i of printToUART
    sent,                       \* how many bytes each source has handed over
    delivered,                  \* the bytes UART_InChar has returned
    wire,                       \* the bytes that left on the line
    ticks,                      \* display timer ticks so far
    overran                     \* a second byte arrived while RxThread waited for room

threads == {"Rx", "Protocol", "Tx", "Display"}

priority == [t \in threads |->
    CASE t = "Rx" -> 1 [] t = "Protocol" -> 5 [] t = "Tx" -> 7 [] t = "Display" -> 9]

rxSems == {"RxSpace", "RxAccess", "RxItems"}
txSems == {"TxSpace", "TxAccess", "TxItems"}
semaphores == rxSems \cup txSems
              \cup {"RxSemaphore", "TxSemaphore", "PacketSemaphore", "DisplaySemaphore"}

INSTANCE OS WITH Threads <- threads, Semaphores <- semaphores, Priority <- priority

Texts == {"packet", "text"}
NoByte == <<"none", 0>>
InBytes == {NoByte} \cup ({"pc"} \X (Nat \ {0}))
OutBytes == {NoByte} \cup (Texts \X (Nat \ {0}))

rx == INSTANCE FIFO
        WITH Threads <- threads, Semaphores <- semaphores, Priority <- priority,
             fifo <- rxFIFO, pc <- rxPc, item <- rxItem,
             FIFO_SIZE <- RxSize, Bytes <- InBytes, Zero <- NoByte,
             SpaceAvailbale <- "RxSpace", BufferAccess <- "RxAccess",
             ItemsAvailable <- "RxItems"

tx == INSTANCE FIFO
        WITH Threads <- threads, Semaphores <- semaphores, Priority <- priority,
             fifo <- txFIFO, pc <- txPc, item <- txItem,
             FIFO_SIZE <- TxSize, Bytes <- OutBytes, Zero <- NoByte,
             SpaceAvailbale <- "TxSpace", BufferAccess <- "TxAccess",
             ItemsAvailable <- "TxItems"

osV == <<count, waiters>>
rxV == <<rxFIFO, rxPc, rxItem>>
txV == <<txFIFO, txPc, txItem>>
uartV == <<TempData, isr, rdrf, rxData, tdre, txData, tie>>
progV == <<NbBytesInPkt, printed, masked>>
histV == <<sent, delivered, wire, ticks, overran>>
vars == <<osV, rxV, txV, uartV, progV, histV, at>>

InitialCount(s) ==
    CASE s = "RxSpace" -> RxSize
      [] s = "TxSpace" -> TxSize
      [] s \in {"RxAccess", "TxAccess", "TxSemaphore", "PacketSemaphore"} -> 1
      [] OTHER -> 0

Init ==
    /\ OS_SemaphoreCreate([s \in semaphores |-> InitialCount(s)])
    /\ rx!FIFO_Init
    /\ tx!FIFO_Init
    /\ at = [t \in threads |-> IF t = "Protocol" THEN "in" ELSE "wait"]
    /\ TempData = NoByte /\ rxData = NoByte /\ txData = NoByte
    /\ masked = FALSE /\ isr = "out"
    /\ rdrf = FALSE /\ tdre = TRUE /\ tie = FALSE
    /\ NbBytesInPkt = 0 /\ printed = 0
    /\ sent = [x \in {"pc"} \cup Texts |-> 0]
    /\ delivered = <<>> /\ wire = <<>>
    /\ ticks = 0 /\ overran = FALSE

-----------------------------------------------------------------------------
(* Scheduling *)

\* Thread t is the one the processor runs.
Running(t) ==
    /\ isr = "out"
    /\ Ready(t)
    /\ \A u \in threads : priority[u] < priority[t] => ~ Ready(u)

\* t is at statement `from', outside both FIFOs, and goes to `to'.
Step(t, from, to) ==
    /\ Running(t)
    /\ rxPc[t] = "idle" /\ txPc[t] = "idle"
    /\ at[t] = from
    /\ at' = [at EXCEPT ![t] = to]

\* t goes on with its call of FIFO_Put or FIFO_Get.
InRxFIFO(t) ==
    /\ Running(t)
    /\ rx!PutStep(t) \/ rx!GetStep(t)
    /\ UNCHANGED <<txV, uartV, progV, histV, at>>

InTxFIFO(t) ==
    /\ Running(t)
    /\ \/ tx!PutStep(t)
       \/ tx!GetEnter(t) \/ tx!GetAdvance(t) \/ tx!GetLeave(t) \/ tx!GetReturn(t)
    /\ UNCHANGED <<rxV, uartV, progV, histV, at>>

-----------------------------------------------------------------------------
(* The hardware: the line, the display timer and the interrupt handlers *)

\* The UART completes a byte from the PC.  A byte time is long (87 us): RxThread
\* has gone back to sleep, for the next byte or for room in RxFIFO.
LineIn ==
    /\ sent["pc"] < MaxIn
    /\ ~ rdrf /\ isr = "out"
    /\ "Rx" \in waiters["RxSemaphore"] \cup waiters["RxSpace"]
    /\ overran' = (overran \/ ("Rx" \in waiters["RxSpace"] /\ count["RxSemaphore"] > 0))
    /\ sent' = [sent EXCEPT !["pc"] = @ + 1]
    /\ rdrf' = TRUE
    /\ rxData' = <<"pc", sent'["pc"]>>
    /\ UNCHANGED <<osV, rxV, txV, TempData, isr, tdre, txData, tie, progV, at,
                   delivered, wire, ticks>>

\* The transmit buffer moves to the line.
LineOut ==
    /\ ~ tdre
    /\ tdre' = TRUE
    /\ wire' = Append(wire, txData)
    /\ UNCHANGED <<osV, rxV, txV, TempData, isr, rdrf, rxData, txData, tie, progV, at,
                   sent, delivered, ticks, overran>>

\* UART_ISR, receive half (RIE is always set).
UART_ISR_Receive ==
    /\ isr = "out" /\ ~ masked
    /\ rdrf \/ (tie /\ tdre)
    /\ isr' = "transmit"
    /\ \/ /\ rdrf
          /\ TempData' = rxData
          /\ rdrf' = FALSE
          /\ OS_SemaphoreSignal("RxSemaphore")
       \/ /\ ~ rdrf
          /\ UNCHANGED <<TempData, rdrf, osV>>
    /\ UNCHANGED <<rxV, txV, rxData, tdre, txData, tie, progV, histV, at>>

\* Faults of the transmit half: it leaves TIE set, does not look at TDRE, or
\* clears TIE without signalling.
TransmitKeepsTIE ==
    /\ isr = "transmit"
    /\ isr' = "out"
    /\ \/ /\ tie /\ tdre
          /\ OS_SemaphoreSignal("TxSemaphore")
       \/ /\ ~ (tie /\ tdre)
          /\ UNCHANGED osV
    /\ UNCHANGED <<rxV, txV, TempData, rdrf, rxData, tdre, txData, tie, progV, histV, at>>

TransmitIgnoresTDRE ==
    /\ isr = "transmit"
    /\ isr' = "out"
    /\ \/ /\ tie
          /\ tie' = FALSE
          /\ OS_SemaphoreSignal("TxSemaphore")
       \/ /\ ~ tie
          /\ UNCHANGED <<tie, osV>>
    /\ UNCHANGED <<rxV, txV, TempData, rdrf, rxData, tdre, txData, progV, histV, at>>

TransmitForgetsSignal ==
    /\ isr = "transmit"
    /\ isr' = "out"
    /\ tie' = (tie /\ ~ tdre)
    /\ UNCHANGED <<osV, rxV, txV, TempData, rdrf, rxData, tdre, txData, progV, histV, at>>

\* UART_ISR, transmit half.
UART_ISR_Transmit ==
    /\ isr = "transmit"
    /\ isr' = "out"
    /\ \/ /\ tie /\ tdre
          /\ tie' = FALSE
          /\ OS_SemaphoreSignal("TxSemaphore")
       \/ /\ ~ (tie /\ tdre)
          /\ UNCHANGED <<tie, osV>>
    /\ UNCHANGED <<rxV, txV, TempData, rdrf, rxData, tdre, txData, progV, histV, at>>

\* DisplayCallback of the timer interrupt wakes DisplayThread.
DisplayTick ==
    /\ ticks < MaxTexts
    /\ isr = "out" /\ ~ masked
    /\ ticks' = ticks + 1
    /\ OS_SemaphoreSignal("DisplaySemaphore")
    /\ UNCHANGED <<rxV, txV, uartV, progV, at, sent, delivered, wire, overran>>

-----------------------------------------------------------------------------
(* RxThread and TxThread *)

\* Fault: RxThread does not wait for a byte.
RxWaitSkipped ==
    /\ Step("Rx", "wait", "put")
    /\ UNCHANGED <<osV, rxV, txV, uartV, progV, histV>>

RxWait ==
    /\ Step("Rx", "wait", "put")
    /\ OS_SemaphoreWait("RxSemaphore", "Rx")
    /\ UNCHANGED <<rxV, txV, uartV, progV, histV>>

RxPut ==
    /\ Step("Rx", "put", "wait")
    /\ rx!PutCall("Rx", TempData)
    /\ UNCHANGED <<txV, uartV, progV, histV>>

TxWait ==
    /\ Step("Tx", "wait", "get")
    /\ OS_SemaphoreWait("TxSemaphore", "Tx")
    /\ UNCHANGED <<rxV, txV, uartV, progV, histV>>

TxGet ==
    /\ Step("Tx", "get", "enable")
    /\ tx!GetCall("Tx")
    /\ UNCHANGED <<rxV, uartV, progV, histV>>

\* FIFO_Get(&TxFIFO, &UART2_D): the load is a write to the data register.
TxWrite ==
    /\ Running("Tx")
    /\ tx!GetLoad("Tx")
    /\ txData' = txItem'["Tx"]
    /\ tdre' = FALSE
    /\ UNCHANGED <<rxV, TempData, isr, rdrf, rxData, tie, progV, histV, at>>

\* Fault: TxThread does not enable the transmit interrupt.
TxEnableForgotten ==
    /\ Step("Tx", "enable", "wait")
    /\ UNCHANGED <<osV, rxV, txV, uartV, progV, histV>>

TxEnable ==
    /\ Step("Tx", "enable", "wait")
    /\ tie' = TRUE
    /\ UNCHANGED <<osV, rxV, txV, TempData, isr, rdrf, rxData, tdre, txData, progV, histV>>

-----------------------------------------------------------------------------
(* ProtocolThread: HandlePacket, MyPacket_Get and MyPacket_Put *)

ProtocolIn ==
    /\ Step("Protocol", "in", "got")
    /\ rx!GetCall("Protocol")
    /\ UNCHANGED <<txV, uartV, progV, histV>>

\* Fault: NbBytesInPkt is not reset.
ProtocolGotNoReset ==
    \E next \in {"in", "packet"} :
        /\ Step("Protocol", "got", next)
        /\ next = "packet" => NbBytesInPkt + 1 = PacketBytes
        /\ delivered' = Append(delivered, rxItem["Protocol"])
        /\ NbBytesInPkt' = NbBytesInPkt + 1
        /\ UNCHANGED <<osV, rxV, txV, uartV, printed, masked, sent, wire, ticks, overran>>

\* UART_InChar has returned; a complete packet is answered or not.
ProtocolGot ==
    \E next \in {"in", "packet"} :
        /\ Step("Protocol", "got", next)
        /\ next = "packet" => NbBytesInPkt + 1 = PacketBytes
        /\ delivered' = Append(delivered, rxItem["Protocol"])
        /\ NbBytesInPkt' = (NbBytesInPkt + 1) % PacketBytes
        /\ UNCHANGED <<osV, rxV, txV, uartV, printed, masked, sent, wire, ticks, overran>>

\* MyPacket_Put takes PacketSemaphore,
ProtocolPacket ==
    /\ Step("Protocol", "packet", "out")
    /\ OS_SemaphoreWait("PacketSemaphore", "Protocol")
    /\ UNCHANGED <<rxV, txV, uartV, progV, histV>>

\* calls UART_OutChar for each byte,
ProtocolOut ==
    \E next \in {"out", "close"} :
        /\ Step("Protocol", "out", next)
        /\ sent' = [sent EXCEPT !["packet"] = @ + 1]
        /\ (next = "close") = (sent'["packet"] % PacketBytes = 0)
        /\ tx!PutCall("Protocol", <<"packet", sent'["packet"]>>)
        /\ UNCHANGED <<rxV, uartV, progV, delivered, wire, ticks, overran>>

\* and gives the semaphore back.
ProtocolClose ==
    /\ Step("Protocol", "close", "in")
    /\ OS_SemaphoreSignal("PacketSemaphore")
    /\ UNCHANGED <<rxV, txV, uartV, progV, histV>>

-----------------------------------------------------------------------------
(* DisplayThread and printToUART *)

DisplayWait ==
    /\ Step("Display", "wait", "print")
    /\ OS_SemaphoreWait("DisplaySemaphore", "Display")
    /\ UNCHANGED <<rxV, txV, uartV, progV, histV>>

\* OS_DisableInterrupts
DisplayPrint ==
    /\ Step("Display", "print", "out")
    /\ masked' = TRUE
    /\ printed' = 0
    /\ UNCHANGED <<osV, rxV, txV, uartV, NbBytesInPkt, histV>>

\* UART_OutChar(buffer[i]): the kernel call inside ends with CPSIE, which
\* unmasks the interrupts that printToUART masked.
DisplayOut ==
    /\ printed < TextBytes
    /\ Step("Display", "out", "out")
    /\ printed' = printed + 1
    /\ sent' = [sent EXCEPT !["text"] = @ + 1]
    /\ tx!PutCall("Display", <<"text", sent'["text"]>>)
    /\ masked' = FALSE
    /\ UNCHANGED <<rxV, uartV, NbBytesInPkt, delivered, wire, ticks, overran>>

\* OS_EnableInterrupts
DisplayDone ==
    /\ printed = TextBytes
    /\ Step("Display", "out", "wait")
    /\ masked' = FALSE
    /\ UNCHANGED <<osV, rxV, txV, uartV, NbBytesInPkt, printed, histV>>

-----------------------------------------------------------------------------

Hardware == LineIn \/ LineOut \/ UART_ISR_Receive \/ UART_ISR_Transmit \/ DisplayTick

Program ==
    \/ \E t \in threads : InRxFIFO(t) \/ InTxFIFO(t)
    \/ RxWait \/ RxPut
    \/ TxWait \/ TxGet \/ TxWrite \/ TxEnable
    \/ ProtocolIn \/ ProtocolGot \/ ProtocolPacket \/ ProtocolOut \/ ProtocolClose
    \/ DisplayWait \/ DisplayPrint \/ DisplayOut \/ DisplayDone

Next == Hardware \/ Program

\* The processor never idles while a thread is ready, handlers run when their
\* interrupt is pending, and the transmitter shifts.  Nothing obliges the PC to
\* send or the display timer to tick.
Fairness ==
    /\ WF_vars(Program)
    /\ WF_vars(UART_ISR_Receive)
    /\ WF_vars(UART_ISR_Transmit)
    /\ WF_vars(LineOut)

Spec == Init /\ [][Next]_vars /\ Fairness

-----------------------------------------------------------------------------
(* Properties *)

TypeOK ==
    /\ rx!TypeOK /\ tx!TypeOK
    /\ at \in [threads -> {"wait", "put", "get", "enable", "in", "got", "packet", "out",
                           "close", "print"}]
    /\ {TempData, rxData} \subseteq InBytes /\ txData \in OutBytes
    /\ {masked, rdrf, tdre, tie, overran} \subseteq BOOLEAN
    /\ isr \in {"out", "transmit"}
    /\ NbBytesInPkt \in 0 .. PacketBytes - 1
    /\ printed \in 0 .. TextBytes
    /\ delivered \in Seq(InBytes) /\ wire \in Seq(OutBytes)

\* TxThread writes UART2_D only when the transmit buffer is empty: the token
\* that TxSemaphore, TxThread and TIE pass around is never doubled, so no byte
\* overwrites one that has not left.
NoTransmitOverrun == [][TxWrite => tdre]_vars

\* The bytes of x among the first n of s.
SentBy(x, s, n) == Cardinality({j \in 1 .. n : s[j][1] = x})

\* The bytes of each source leave on the line in the order they were handed to
\* UART_OutChar, none lost, none twice: the n-th byte of a source on the line is its
\* n-th byte.
InOrder ==
    \A i \in DOMAIN wire : wire[i][1] \in Texts /\ wire[i][2] = SentBy(wire[i][1], wire, i)

\* UART_InChar returns exactly the bytes that arrived, in order, until two of
\* them arrive while RxThread waits for room in RxFIFO: only then is the
\* one-byte mailbox TempData overwritten before RxThread has copied it.
LosslessUnlessFull ==
    overran \/ \A i \in DOMAIN delivered : delivered[i] = <<"pc", i>>

Asleep == \A t \in threads : ~ Ready(t)

\* When a byte is all that remains to happen, it happens: with every thread
\* asleep and the UART idle nothing is left in either FIFO, the text in
\* progress is complete and packets are whole on the line.
NothingStuck ==
    Asleep /\ isr = "out" /\ ~ rdrf /\ tdre /\ ~ tie =>
        /\ rxFIFO.NbBytes = 0 /\ txFIFO.NbBytes = 0
        /\ Len(delivered) = sent["pc"]
        /\ Len(wire) = sent["packet"] + sent["text"]
        /\ sent["packet"] % PacketBytes = 0 /\ sent["text"] = ticks * TextBytes

\* Every byte handed to UART_OutChar eventually leaves on the line: the bytes
\* still inside TxFIFO, TxThread and the transmit buffer run out again and again.
AllSent == []<>(Len(wire) = sent["packet"] + sent["text"])

\* MyPacket_Put returns true "if a valid packet was sent": its bytes follow one
\* another on the line.
PacketContiguous ==
    \A i \in 1 .. Len(wire) - 1 :
        wire[i][1] = "packet" /\ wire[i][2] % PacketBytes # 0 => wire[i + 1][1] = "packet"

=============================================================================
