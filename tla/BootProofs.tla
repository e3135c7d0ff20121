----------------------------- MODULE BootProofs -----------------------------
(***************************************************************************)
(* Start-up hands over what the other modules begin with, and serves what  *)
(* arrived meanwhile: for every size of the FIFOs and any number of        *)
(* interrupts, at any moment, while InitModulesThread runs.                *)
(***************************************************************************)
EXTENDS Boot, SequenceTheorems, TLAPS

\* What the statements before the next one have created or enabled.
Past(kind) ==
    {InitModulesThread[k].what : k \in {j \in 1 .. pc - 1 : InitModulesThread[j].does = kind}}

\* InitModulesThread is at pc, and has done what comes before it.
Progress ==
    /\ pc \in 1 .. Len(InitModulesThread) + 1
    /\ Booting <=> pc <= Len(InitModulesThread)
    /\ existing = Past("OS_SemaphoreCreate")
    /\ created \ {"InitModulesThread"} = Past("OS_ThreadCreate")
    /\ enabled = Past("enable")
    /\ masked \in BOOLEAN /\ (~ Booting => ~ masked)

\* The signals a semaphore has got since it was created are in its count, or were
\* taken by RxThread; before that they are missed.
Signals ==
    /\ {count, signalled, missed} \subseteq [semaphores -> Nat]
    /\ \A s \in semaphores :
           /\ s \notin existing => count[s] = 0 /\ missed[s] = signalled[s]
           /\ s \in existing /\ s # "RxSemaphore" =>
                  count[s] = InitialCount(s) + signalled[s] - missed[s]
           /\ s # "PushButtonSemaphore" => missed[s] = 0

\* Every byte read has been signalled, and TempData is the last.
Bytes ==
    /\ arrived \in 0 .. MaxBytes /\ rdrf \in BOOLEAN /\ TempData \in Nat
    /\ arrived = TempData + (IF rdrf THEN 1 ELSE 0)
    /\ delivered \in Seq(1 .. MaxBytes)
    /\ TempData = signalled["RxSemaphore"]
    /\ signalled["RxSemaphore"] = count["RxSemaphore"] + Len(delivered)
    /\ arrived > 0 => "UART" \in enabled

\* RxThread delivers what TempData held, never less than the bytes before.
Served ==
    /\ \A k \in DOMAIN delivered : delivered[k] \in k .. TempData
    /\ \A k \in 2 .. Len(delivered) : delivered[k] >= delivered[k - 1]

IInv == Progress /\ Signals /\ Bytes /\ Served

-----------------------------------------------------------------------------
(* The 31 statements *)

Kinds == {"OS_DisableInterrupts", "OS_EnableInterrupts", "OS_SemaphoreCreate",
          "OS_ThreadCreate", "OS_ThreadDelete", "enable"}

Names == {"", "UART", "PIT", "PORT"} \cup semaphores
         \cup {"InitModulesThread", "RxThread", "OutputThread", "VoltageThread", "CurrentThread",
               "ProtocolThread", "PushButtonThread", "TxThread", "CalcThread", "DisplayThread"}

Statements == [does : Kinds, what : Names, value : Nat]

\* The elements of a concatenation.
LEMMA Joined ==
    ASSUME NEW s \in Seq(Statements), NEW t \in Seq(Statements)
    PROVE  /\ s \o t \in Seq(Statements) /\ Len(s \o t) = Len(s) + Len(t)
           /\ \A i \in 1 .. Len(s) : (s \o t)[i] = s[i]
           /\ \A i \in 1 .. Len(t) : (s \o t)[Len(s) + i] = t[i]
  <1>1. /\ s \o t \in Seq(Statements) /\ Len(s \o t) = Len(s) + Len(t)
        /\ \A i \in 1 .. Len(s) + Len(t) :
               (s \o t)[i] = IF i <= Len(s) THEN s[i] ELSE t[i - Len(s)]
    BY ConcatProperties
  <1>2. \A i \in 1 .. Len(s) : (s \o t)[i] = s[i]
    BY <1>1
  <1>3. ASSUME NEW i \in 1 .. Len(t) PROVE (s \o t)[Len(s) + i] = t[i]
    <2>1. /\ Len(s) + i \in 1 .. Len(s) + Len(t) /\ ~ (Len(s) + i <= Len(s))
          /\ (Len(s) + i) - Len(s) = i
      OBVIOUS
    <2> QED BY <1>1, <2>1
  <1> QED BY <1>1, <1>2, <1>3

LEMMA StatementTypes ==
    /\ OS_DisableInterrupts \in Statements /\ OS_EnableInterrupts \in Statements
    /\ \A x \in Names : /\ create(x, 0) \in Statements /\ create(x, 1) \in Statements
                        /\ create(x, FIFO_SIZE) \in Statements
                        /\ thread(x) \in Statements /\ delete(x) \in Statements
                        /\ enable(x) \in Statements
  <1>1. "" \in Names
    BY DEF Names
  <1> QED BY <1>1, BootAssumption DEF Statements, Kinds, OS_DisableInterrupts,
             OS_EnableInterrupts, create, thread, delete, enable

\* The statements of UART_Init.
LEMMA UARTStatements ==
    /\ UART_Init \in Seq(Statements) /\ Len(UART_Init) = 11
    /\ UART_Init[1] = create("TxSemaphore", 1) /\ UART_Init[2] = create("RxSemaphore", 0)
    /\ UART_Init[3] = enable("UART")
    /\ UART_Init[4] = create("RxAccess", 1) /\ UART_Init[5] = create("RxSpace", FIFO_SIZE)
    /\ UART_Init[6] = create("RxItems", 0)
    /\ UART_Init[7] = create("TxAccess", 1) /\ UART_Init[8] = create("TxSpace", FIFO_SIZE)
    /\ UART_Init[9] = create("TxItems", 0)
    /\ UART_Init[10] = thread("TxThread") /\ UART_Init[11] = thread("RxThread")
  <1> DEFINE a == <<create("TxSemaphore", 1), create("RxSemaphore", 0), enable("UART")>>
             b == <<create("RxAccess", 1), create("RxSpace", FIFO_SIZE), create("RxItems", 0)>>
             c == <<create("TxAccess", 1), create("TxSpace", FIFO_SIZE), create("TxItems", 0)>>
             d == <<thread("TxThread"), thread("RxThread")>>
  <1>1. UART_Init = ((a \o b) \o c) \o d
    BY DEF UART_Init, FIFO_Init
  <1>2. /\ a \in Seq(Statements) /\ Len(a) = 3 /\ a[1] = create("TxSemaphore", 1)
        /\ a[2] = create("RxSemaphore", 0) /\ a[3] = enable("UART")
    <2>1. {"TxSemaphore", "RxSemaphore", "UART"} \subseteq Names
      BY DEF Names, semaphores
    <2>2. {create("TxSemaphore", 1), create("RxSemaphore", 0), enable("UART")}
              \subseteq Statements
      BY <2>1, StatementTypes
    <2> QED BY <2>2
  <1>3. /\ b \in Seq(Statements) /\ Len(b) = 3 /\ b[1] = create("RxAccess", 1)
        /\ b[2] = create("RxSpace", FIFO_SIZE) /\ b[3] = create("RxItems", 0)
    <2>1. {"RxAccess", "RxSpace", "RxItems"} \subseteq Names
      BY DEF Names, semaphores
    <2>2. {create("RxAccess", 1), create("RxSpace", FIFO_SIZE), create("RxItems", 0)}
              \subseteq Statements
      BY <2>1, StatementTypes
    <2> QED BY <2>2
  <1>4. /\ c \in Seq(Statements) /\ Len(c) = 3 /\ c[1] = create("TxAccess", 1)
        /\ c[2] = create("TxSpace", FIFO_SIZE) /\ c[3] = create("TxItems", 0)
    <2>1. {"TxAccess", "TxSpace", "TxItems"} \subseteq Names
      BY DEF Names, semaphores
    <2>2. {create("TxAccess", 1), create("TxSpace", FIFO_SIZE), create("TxItems", 0)}
              \subseteq Statements
      BY <2>1, StatementTypes
    <2> QED BY <2>2
  <1>5. /\ d \in Seq(Statements) /\ Len(d) = 2
        /\ d[1] = thread("TxThread") /\ d[2] = thread("RxThread")
    <2>1. {"TxThread", "RxThread"} \subseteq Names
      BY DEF Names, semaphores
    <2>2. {thread("TxThread"), thread("RxThread")} \subseteq Statements
      BY <2>1, StatementTypes
    <2> QED BY <2>2
  <1> HIDE DEF a, b, c, d
  <1> DEFINE ab == a \o b
             abc == ab \o c
             abcd == abc \o d
  <1>6. /\ ab \in Seq(Statements) /\ Len(ab) = 6
        /\ \A i \in 1 .. 3 : ab[i] = a[i] /\ ab[3 + i] = b[i]
    <2>1. /\ ab \in Seq(Statements) /\ Len(ab) = Len(a) + Len(b)
          /\ \A i \in 1 .. Len(a) : ab[i] = a[i]
          /\ \A i \in 1 .. Len(b) : ab[Len(a) + i] = b[i]
      BY <1>2, <1>3, Joined
    <2> HIDE DEF ab
    <2> QED BY <1>2, <1>3, <2>1
  <1> HIDE DEF ab
  <1>7. /\ abc \in Seq(Statements) /\ Len(abc) = 9
        /\ \A i \in 1 .. 6 : abc[i] = ab[i]
        /\ \A i \in 1 .. 3 : abc[6 + i] = c[i]
    <2>1. /\ abc \in Seq(Statements) /\ Len(abc) = Len(ab) + Len(c)
          /\ \A i \in 1 .. Len(ab) : abc[i] = ab[i]
          /\ \A i \in 1 .. Len(c) : abc[Len(ab) + i] = c[i]
      BY <1>4, <1>6, Joined
    <2> HIDE DEF abc
    <2> QED BY <1>4, <1>6, <2>1
  <1> HIDE DEF abc
  <1>8. /\ abcd \in Seq(Statements) /\ Len(abcd) = 11
        /\ \A i \in 1 .. 9 : abcd[i] = abc[i]
        /\ \A i \in 1 .. 2 : abcd[9 + i] = d[i]
    <2>1. /\ abcd \in Seq(Statements) /\ Len(abcd) = Len(abc) + Len(d)
          /\ \A i \in 1 .. Len(abc) : abcd[i] = abc[i]
          /\ \A i \in 1 .. Len(d) : abcd[Len(abc) + i] = d[i]
      BY <1>5, <1>7, Joined
    <2> HIDE DEF abcd
    <2> QED BY <1>5, <1>7, <2>1
  <1>9. UART_Init = abcd
    BY <1>1 DEF ab, abc
  <1> HIDE DEF abcd
  <1>10. /\ abcd[1] = a[1] /\ abcd[2] = a[2] /\ abcd[3] = a[3]
         /\ abcd[4] = b[1] /\ abcd[5] = b[2] /\ abcd[6] = b[3]
    <2>1. abcd[1] = abc[1] /\ abcd[2] = abc[2] /\ abcd[3] = abc[3]
          /\ abcd[4] = abc[4] /\ abcd[5] = abc[5] /\ abcd[6] = abc[6]
      BY <1>8
    <2>2. abc[1] = ab[1] /\ abc[2] = ab[2] /\ abc[3] = ab[3]
          /\ abc[4] = ab[4] /\ abc[5] = ab[5] /\ abc[6] = ab[6]
      BY <1>7
    <2>3. ab[1] = a[1] /\ ab[2] = a[2] /\ ab[3] = a[3]
          /\ ab[3 + 1] = b[1] /\ ab[3 + 2] = b[2] /\ ab[3 + 3] = b[3]
      BY <1>6
    <2> QED BY <2>1, <2>2, <2>3
  <1>11. abcd[7] = c[1] /\ abcd[8] = c[2] /\ abcd[9] = c[3]
    <2>1. abcd[7] = abc[7] /\ abcd[8] = abc[8] /\ abcd[9] = abc[9]
      BY <1>8
    <2>2. abc[6 + 1] = c[1] /\ abc[6 + 2] = c[2] /\ abc[6 + 3] = c[3]
      BY <1>7
    <2> QED BY <2>1, <2>2
  <1>12. abcd[10] = d[1] /\ abcd[11] = d[2]
    <2>1. abcd[9 + 1] = d[1] /\ abcd[9 + 2] = d[2]
      BY <1>8
    <2> QED BY <2>1
  <1> QED BY <1>2, <1>3, <1>4, <1>5, <1>8, <1>9, <1>10, <1>11, <1>12

\* Those of MyPacket_Init.
LEMMA MyPacketStatements ==
    /\ MyPacket_Init \in Seq(Statements) /\ Len(MyPacket_Init) = 12
    /\ MyPacket_Init[1] = create("PacketSemaphore", 1)
    /\ \A i \in 1 .. 11 : MyPacket_Init[1 + i] = UART_Init[i]
  <1> DEFINE a == <<create("PacketSemaphore", 1)>>
             b == UART_Init
             ab == a \o b
  <1>1. a \in Seq(Statements) /\ Len(a) = 1 /\ a[1] = create("PacketSemaphore", 1)
    <2>1. "PacketSemaphore" \in Names
      BY DEF Names, semaphores
    <2> QED BY <2>1, StatementTypes
  <1>2. b \in Seq(Statements) /\ Len(b) = 11
    BY UARTStatements
  <1>3. MyPacket_Init = ab
    BY DEF MyPacket_Init
  <1> HIDE DEF a, b
  <1>4. /\ ab \in Seq(Statements) /\ Len(ab) = 12 /\ ab[1] = a[1]
        /\ \A i \in 1 .. 11 : ab[1 + i] = b[i]
    <2>1. /\ ab \in Seq(Statements) /\ Len(ab) = Len(a) + Len(b)
          /\ \A i \in 1 .. Len(a) : ab[i] = a[i]
          /\ \A i \in 1 .. Len(b) : ab[Len(a) + i] = b[i]
      BY <1>1, <1>2, Joined
    <2> HIDE DEF ab
    <2> QED BY <1>1, <1>2, <2>1
  <1> QED BY <1>1, <1>3, <1>4 DEF b

\* Those of Meter_Init.
LEMMA MeterStatements ==
    /\ Meter_Init \in Seq(Statements) /\ Len(Meter_Init) = 7
    /\ Meter_Init[1] = create("Voltage", 0)
    /\ Meter_Init[2] = create("Current", 0)
    /\ Meter_Init[3] = create("Calc", 0)
    /\ Meter_Init[4] = thread("CalcThread")
    /\ Meter_Init[5] = thread("VoltageThread")
    /\ Meter_Init[6] = thread("CurrentThread")
    /\ Meter_Init[7] = enable("PIT")
  <1>1. {"Voltage", "Current", "Calc", "CalcThread", "VoltageThread", "CurrentThread", "PIT"}
            \subseteq Names
    BY DEF Names, semaphores
  <1>2. {create("Voltage", 0), create("Current", 0), create("Calc", 0), thread("CalcThread"),
          thread("VoltageThread"), thread("CurrentThread"), enable("PIT")} \subseteq Statements
    BY <1>1, StatementTypes
  <1> QED BY <1>2 DEF Meter_Init

\* Those of DAC_Init and Protocol_Init.
LEMMA DACStatements ==
    /\ DAC_Init \in Seq(Statements) /\ Len(DAC_Init) = 2
    /\ DAC_Init[1] = create("OutputSemaphore", 0)
    /\ DAC_Init[2] = thread("OutputThread")
    /\ Protocol_Init \in Seq(Statements) /\ Len(Protocol_Init) = 1
    /\ Protocol_Init[1] = thread("ProtocolThread")
  <1>1. {"OutputSemaphore", "OutputThread", "ProtocolThread"} \subseteq Names
    BY DEF Names, semaphores
  <1>2. {create("OutputSemaphore", 0), thread("OutputThread"), thread("ProtocolThread")}
            \subseteq Statements
    BY <1>1, StatementTypes
  <1> QED BY <1>2 DEF DAC_Init, Protocol_Init

\* Those of Interface_Init.
LEMMA InterfaceStatements ==
    /\ Interface_Init \in Seq(Statements) /\ Len(Interface_Init) = 6
    /\ Interface_Init[1] = enable("PORT") /\ Interface_Init[2] = create("PrintSemaphore", 1)
    /\ Interface_Init[3] = create("PushButtonSemaphore", 0)
    /\ Interface_Init[4] = create("DisplaySemaphore", 0)
    /\ Interface_Init[5] = thread("PushButtonThread")
    /\ Interface_Init[6] = thread("DisplayThread")
  <1> DEFINE a == Debounce_Init
             b == Display_Init
             c == <<create("PushButtonSemaphore", 0), create("DisplaySemaphore", 0),
                    thread("PushButtonThread"), thread("DisplayThread")>>
             ab == a \o b
             abc == ab \o c
  <1>1. Interface_Init = abc
    BY DEF Interface_Init
  <1>2. /\ a \in Seq(Statements) /\ Len(a) = 1 /\ a[1] = enable("PORT")
        /\ b \in Seq(Statements) /\ Len(b) = 1 /\ b[1] = create("PrintSemaphore", 1)
    <2>1. {"PORT", "PrintSemaphore"} \subseteq Names
      BY DEF Names, semaphores
    <2>2. {enable("PORT"), create("PrintSemaphore", 1)} \subseteq Statements
      BY <2>1, StatementTypes
    <2> QED BY <2>2 DEF Debounce_Init, Display_Init
  <1>3. /\ c \in Seq(Statements) /\ Len(c) = 4
        /\ c[1] = create("PushButtonSemaphore", 0)
        /\ c[2] = create("DisplaySemaphore", 0)
        /\ c[3] = thread("PushButtonThread")
        /\ c[4] = thread("DisplayThread")
    <2>1. {"PushButtonSemaphore", "DisplaySemaphore", "PushButtonThread", "DisplayThread"}
              \subseteq Names
      BY DEF Names, semaphores
    <2>2. {create("PushButtonSemaphore", 0), create("DisplaySemaphore", 0),
            thread("PushButtonThread"), thread("DisplayThread")} \subseteq Statements
      BY <2>1, StatementTypes
    <2> QED BY <2>2
  <1> HIDE DEF a, b, c
  <1>4. ab \in Seq(Statements) /\ Len(ab) = 2 /\ ab[1] = a[1] /\ ab[2] = b[1]
    <2>1. /\ ab \in Seq(Statements) /\ Len(ab) = Len(a) + Len(b)
          /\ \A i \in 1 .. Len(a) : ab[i] = a[i]
          /\ \A i \in 1 .. Len(b) : ab[Len(a) + i] = b[i]
      BY <1>2, Joined
    <2> HIDE DEF ab
    <2>2. ab[1 + 1] = b[1] /\ ab[1] = a[1]
      BY <1>2, <2>1
    <2> QED BY <1>2, <2>1, <2>2
  <1> HIDE DEF ab
  <1>5. /\ abc \in Seq(Statements) /\ Len(abc) = 6 /\ abc[1] = ab[1] /\ abc[2] = ab[2]
        /\ \A i \in 1 .. 4 : abc[2 + i] = c[i]
    <2>1. /\ abc \in Seq(Statements) /\ Len(abc) = Len(ab) + Len(c)
          /\ \A i \in 1 .. Len(ab) : abc[i] = ab[i]
          /\ \A i \in 1 .. Len(c) : abc[Len(ab) + i] = c[i]
      BY <1>3, <1>4, Joined
    <2> HIDE DEF abc
    <2> QED BY <1>3, <1>4, <2>1
  <1> HIDE DEF abc
  <1>6. /\ abc[2 + 1] = c[1] /\ abc[2 + 2] = c[2] /\ abc[2 + 3] = c[3] /\ abc[2 + 4] = c[4]
    BY <1>5
  <1> QED BY <1>1, <1>2, <1>3, <1>4, <1>5, <1>6

\* The statements of InitModulesThread, piece by piece.
LEMMA Pieces ==
    /\ Len(InitModulesThread) = 31
    /\ InitModulesThread[1] = OS_DisableInterrupts
    /\ \A i \in 1 .. 12 : InitModulesThread[1 + i] = MyPacket_Init[i]
    /\ \A i \in 1 .. 7 : InitModulesThread[13 + i] = Meter_Init[i]
    /\ \A i \in 1 .. 2 : InitModulesThread[20 + i] = DAC_Init[i]
    /\ \A i \in 1 .. 6 : InitModulesThread[22 + i] = Interface_Init[i]
    /\ InitModulesThread[29] = Protocol_Init[1]
    /\ InitModulesThread[30] = OS_EnableInterrupts
    /\ InitModulesThread[31] = delete("InitModulesThread")
  <1> DEFINE a == <<OS_DisableInterrupts>>
             g == <<OS_EnableInterrupts, delete("InitModulesThread")>>
             p1 == a \o MyPacket_Init
             p2 == p1 \o Meter_Init
             p3 == p2 \o DAC_Init
             p4 == p3 \o Interface_Init
             p5 == p4 \o Protocol_Init
             p6 == p5 \o g
  <1>1. InitModulesThread = p6
    BY DEF InitModulesThread
  <1>2. /\ a \in Seq(Statements) /\ Len(a) = 1 /\ a[1] = OS_DisableInterrupts
        /\ g \in Seq(Statements) /\ Len(g) = 2
        /\ g[1] = OS_EnableInterrupts /\ g[2] = delete("InitModulesThread")
    <2>1. "InitModulesThread" \in Names
      BY DEF Names
    <2> QED BY <2>1, StatementTypes
  <1> HIDE DEF a, g
  <1>3. /\ p1 \in Seq(Statements) /\ Len(p1) = 13
        /\ \A i \in 1 .. 1 : p1[i] = a[i]
        /\ \A i \in 1 .. 12 : p1[1 + i] = MyPacket_Init[i]
    <2>1. /\ p1 \in Seq(Statements) /\ Len(p1) = Len(a) + Len(MyPacket_Init)
          /\ \A i \in 1 .. Len(a) : p1[i] = a[i]
          /\ \A i \in 1 .. Len(MyPacket_Init) : p1[Len(a) + i] = MyPacket_Init[i]
      BY <1>2, MyPacketStatements, Joined
    <2> HIDE DEF p1
    <2> QED BY <1>2, MyPacketStatements, <2>1
  <1> HIDE DEF p1
  <1>4. /\ p2 \in Seq(Statements) /\ Len(p2) = 20
        /\ \A i \in 1 .. 13 : p2[i] = p1[i]
        /\ \A i \in 1 .. 7 : p2[13 + i] = Meter_Init[i]
    <2>1. /\ p2 \in Seq(Statements) /\ Len(p2) = Len(p1) + Len(Meter_Init)
          /\ \A i \in 1 .. Len(p1) : p2[i] = p1[i]
          /\ \A i \in 1 .. Len(Meter_Init) : p2[Len(p1) + i] = Meter_Init[i]
      BY <1>3, MeterStatements, Joined
    <2> HIDE DEF p2
    <2> QED BY <1>3, MeterStatements, <2>1
  <1> HIDE DEF p2
  <1>5. /\ p3 \in Seq(Statements) /\ Len(p3) = 22
        /\ \A i \in 1 .. 20 : p3[i] = p2[i]
        /\ \A i \in 1 .. 2 : p3[20 + i] = DAC_Init[i]
    <2>1. /\ p3 \in Seq(Statements) /\ Len(p3) = Len(p2) + Len(DAC_Init)
          /\ \A i \in 1 .. Len(p2) : p3[i] = p2[i]
          /\ \A i \in 1 .. Len(DAC_Init) : p3[Len(p2) + i] = DAC_Init[i]
      BY <1>4, DACStatements, Joined
    <2> HIDE DEF p3
    <2> QED BY <1>4, DACStatements, <2>1
  <1> HIDE DEF p3
  <1>6. /\ p4 \in Seq(Statements) /\ Len(p4) = 28
        /\ \A i \in 1 .. 22 : p4[i] = p3[i]
        /\ \A i \in 1 .. 6 : p4[22 + i] = Interface_Init[i]
    <2>1. /\ p4 \in Seq(Statements) /\ Len(p4) = Len(p3) + Len(Interface_Init)
          /\ \A i \in 1 .. Len(p3) : p4[i] = p3[i]
          /\ \A i \in 1 .. Len(Interface_Init) : p4[Len(p3) + i] = Interface_Init[i]
      BY <1>5, InterfaceStatements, Joined
    <2> HIDE DEF p4
    <2> QED BY <1>5, InterfaceStatements, <2>1
  <1> HIDE DEF p4
  <1>7. /\ p5 \in Seq(Statements) /\ Len(p5) = 29
        /\ \A i \in 1 .. 28 : p5[i] = p4[i]
        /\ \A i \in 1 .. 1 : p5[28 + i] = Protocol_Init[i]
    <2>1. /\ p5 \in Seq(Statements) /\ Len(p5) = Len(p4) + Len(Protocol_Init)
          /\ \A i \in 1 .. Len(p4) : p5[i] = p4[i]
          /\ \A i \in 1 .. Len(Protocol_Init) : p5[Len(p4) + i] = Protocol_Init[i]
      BY <1>6, DACStatements, Joined
    <2> HIDE DEF p5
    <2> QED BY <1>6, DACStatements, <2>1
  <1> HIDE DEF p5
  <1>8. /\ p6 \in Seq(Statements) /\ Len(p6) = 31
        /\ \A i \in 1 .. 29 : p6[i] = p5[i]
        /\ \A i \in 1 .. 2 : p6[29 + i] = g[i]
    <2>1. /\ p6 \in Seq(Statements) /\ Len(p6) = Len(p5) + Len(g)
          /\ \A i \in 1 .. Len(p5) : p6[i] = p5[i]
          /\ \A i \in 1 .. Len(g) : p6[Len(p5) + i] = g[i]
      BY <1>7, <1>2, Joined
    <2> HIDE DEF p6
    <2> QED BY <1>7, <1>2, <2>1
  <1> HIDE DEF p6
  <1>9. ASSUME NEW i \in 1 .. 28 PROVE p6[i] = p4[i]
    <2>1. i \in 1 .. 29
      OBVIOUS
    <2>2. p6[i] = p5[i]
      BY <1>8, <2>1
    <2>3. p5[i] = p4[i]
      BY <1>7
    <2> QED BY <2>2, <2>3
  <1>10. ASSUME NEW i \in 1 .. 22 PROVE p6[i] = p3[i]
    <2>1. i \in 1 .. 28
      OBVIOUS
    <2>2. p6[i] = p4[i]
      BY <1>9, <2>1
    <2>3. p4[i] = p3[i]
      BY <1>6
    <2> QED BY <2>2, <2>3
  <1>11. ASSUME NEW i \in 1 .. 20 PROVE p6[i] = p2[i]
    <2>1. i \in 1 .. 22
      OBVIOUS
    <2>2. p6[i] = p3[i]
      BY <1>10, <2>1
    <2>3. p3[i] = p2[i]
      BY <1>5
    <2> QED BY <2>2, <2>3
  <1>12. ASSUME NEW i \in 1 .. 13 PROVE p6[i] = p1[i]
    <2>1. i \in 1 .. 20
      OBVIOUS
    <2>2. p6[i] = p2[i]
      BY <1>11, <2>1
    <2>3. p2[i] = p1[i]
      BY <1>4
    <2> QED BY <2>2, <2>3
  <1>13. p6[1] = a[1] /\ \A i \in 1 .. 12 : p6[1 + i] = MyPacket_Init[i]
    <2>1. \A i \in 1 .. 12 : 1 + i \in 1 .. 13
      OBVIOUS
    <2> QED BY <1>3, <1>12, <2>1
  <1>14. \A i \in 1 .. 7 : p6[13 + i] = Meter_Init[i]
    <2>1. \A i \in 1 .. 7 : 13 + i \in 1 .. 20
      OBVIOUS
    <2> QED BY <1>4, <1>11, <2>1
  <1>15. \A i \in 1 .. 2 : p6[20 + i] = DAC_Init[i]
    <2>1. \A i \in 1 .. 2 : 20 + i \in 1 .. 22
      OBVIOUS
    <2> QED BY <1>5, <1>10, <2>1
  <1>16. \A i \in 1 .. 6 : p6[22 + i] = Interface_Init[i]
    <2>1. \A i \in 1 .. 6 : 22 + i \in 1 .. 28
      OBVIOUS
    <2> QED BY <1>6, <1>9, <2>1
  <1>17. p6[29] = Protocol_Init[1]
    <2>1. p5[28 + 1] = Protocol_Init[1]
      BY <1>7
    <2> QED BY <1>8, <2>1
  <1>18. p6[30] = g[1] /\ p6[31] = g[2]
    <2>1. p6[29 + 1] = g[1] /\ p6[29 + 2] = g[2]
      BY <1>8
    <2> QED BY <2>1
  <1> QED BY <1>1, <1>2, <1>8, <1>13, <1>14, <1>15, <1>16, <1>17, <1>18

\* The statements of InitModulesThread, one by one.
LEMMA Text ==
    /\ Len(InitModulesThread) = 31
    /\ InitModulesThread[1] = OS_DisableInterrupts
    /\ InitModulesThread[2] = create("PacketSemaphore", 1)
    /\ InitModulesThread[3] = create("TxSemaphore", 1)
    /\ InitModulesThread[4] = create("RxSemaphore", 0)
    /\ InitModulesThread[5] = enable("UART")
    /\ InitModulesThread[6] = create("RxAccess", 1)
    /\ InitModulesThread[7] = create("RxSpace", FIFO_SIZE)
    /\ InitModulesThread[8] = create("RxItems", 0)
    /\ InitModulesThread[9] = create("TxAccess", 1)
    /\ InitModulesThread[10] = create("TxSpace", FIFO_SIZE)
    /\ InitModulesThread[11] = create("TxItems", 0)
    /\ InitModulesThread[12] = thread("TxThread")
    /\ InitModulesThread[13] = thread("RxThread")
    /\ InitModulesThread[14] = create("Voltage", 0)
    /\ InitModulesThread[15] = create("Current", 0)
    /\ InitModulesThread[16] = create("Calc", 0)
    /\ InitModulesThread[17] = thread("CalcThread")
    /\ InitModulesThread[18] = thread("VoltageThread")
    /\ InitModulesThread[19] = thread("CurrentThread")
    /\ InitModulesThread[20] = enable("PIT")
    /\ InitModulesThread[21] = create("OutputSemaphore", 0)
    /\ InitModulesThread[22] = thread("OutputThread")
    /\ InitModulesThread[23] = enable("PORT")
    /\ InitModulesThread[24] = create("PrintSemaphore", 1)
    /\ InitModulesThread[25] = create("PushButtonSemaphore", 0)
    /\ InitModulesThread[26] = create("DisplaySemaphore", 0)
    /\ InitModulesThread[27] = thread("PushButtonThread")
    /\ InitModulesThread[28] = thread("DisplayThread")
    /\ InitModulesThread[29] = thread("ProtocolThread")
    /\ InitModulesThread[30] = OS_EnableInterrupts
    /\ InitModulesThread[31] = delete("InitModulesThread")
  <1>1. /\ MyPacket_Init[1] = create("PacketSemaphore", 1)
        /\ MyPacket_Init[2] = create("TxSemaphore", 1)
        /\ MyPacket_Init[3] = create("RxSemaphore", 0)
        /\ MyPacket_Init[4] = enable("UART")
        /\ MyPacket_Init[5] = create("RxAccess", 1)
        /\ MyPacket_Init[6] = create("RxSpace", FIFO_SIZE)
        /\ MyPacket_Init[7] = create("RxItems", 0)
        /\ MyPacket_Init[8] = create("TxAccess", 1)
        /\ MyPacket_Init[9] = create("TxSpace", FIFO_SIZE)
        /\ MyPacket_Init[10] = create("TxItems", 0)
        /\ MyPacket_Init[11] = thread("TxThread")
        /\ MyPacket_Init[12] = thread("RxThread")
    <2>1. /\ MyPacket_Init[1 + 1] = UART_Init[1]
          /\ MyPacket_Init[1 + 2] = UART_Init[2]
          /\ MyPacket_Init[1 + 3] = UART_Init[3]
          /\ MyPacket_Init[1 + 4] = UART_Init[4]
          /\ MyPacket_Init[1 + 5] = UART_Init[5]
          /\ MyPacket_Init[1 + 6] = UART_Init[6]
          /\ MyPacket_Init[1 + 7] = UART_Init[7]
          /\ MyPacket_Init[1 + 8] = UART_Init[8]
          /\ MyPacket_Init[1 + 9] = UART_Init[9]
          /\ MyPacket_Init[1 + 10] = UART_Init[10]
          /\ MyPacket_Init[1 + 11] = UART_Init[11]
      BY MyPacketStatements
    <2> QED BY <2>1, UARTStatements, MyPacketStatements
  <1>2. /\ InitModulesThread[2] = create("PacketSemaphore", 1)
        /\ InitModulesThread[3] = create("TxSemaphore", 1)
        /\ InitModulesThread[4] = create("RxSemaphore", 0)
        /\ InitModulesThread[5] = enable("UART")
        /\ InitModulesThread[6] = create("RxAccess", 1)
        /\ InitModulesThread[7] = create("RxSpace", FIFO_SIZE)
        /\ InitModulesThread[8] = create("RxItems", 0)
        /\ InitModulesThread[9] = create("TxAccess", 1)
        /\ InitModulesThread[10] = create("TxSpace", FIFO_SIZE)
        /\ InitModulesThread[11] = create("TxItems", 0)
        /\ InitModulesThread[12] = thread("TxThread")
        /\ InitModulesThread[13] = thread("RxThread")
    <2>1. /\ InitModulesThread[1 + 1] = MyPacket_Init[1]
          /\ InitModulesThread[1 + 2] = MyPacket_Init[2]
          /\ InitModulesThread[1 + 3] = MyPacket_Init[3]
          /\ InitModulesThread[1 + 4] = MyPacket_Init[4]
          /\ InitModulesThread[1 + 5] = MyPacket_Init[5]
          /\ InitModulesThread[1 + 6] = MyPacket_Init[6]
          /\ InitModulesThread[1 + 7] = MyPacket_Init[7]
          /\ InitModulesThread[1 + 8] = MyPacket_Init[8]
          /\ InitModulesThread[1 + 9] = MyPacket_Init[9]
          /\ InitModulesThread[1 + 10] = MyPacket_Init[10]
          /\ InitModulesThread[1 + 11] = MyPacket_Init[11]
          /\ InitModulesThread[1 + 12] = MyPacket_Init[12]
      BY Pieces
    <2> QED BY <2>1, <1>1
  <1>3. /\ InitModulesThread[14] = create("Voltage", 0)
        /\ InitModulesThread[15] = create("Current", 0)
        /\ InitModulesThread[16] = create("Calc", 0)
        /\ InitModulesThread[17] = thread("CalcThread")
        /\ InitModulesThread[18] = thread("VoltageThread")
        /\ InitModulesThread[19] = thread("CurrentThread")
        /\ InitModulesThread[20] = enable("PIT")
    <2>1. /\ InitModulesThread[13 + 1] = Meter_Init[1]
          /\ InitModulesThread[13 + 2] = Meter_Init[2]
          /\ InitModulesThread[13 + 3] = Meter_Init[3]
          /\ InitModulesThread[13 + 4] = Meter_Init[4]
          /\ InitModulesThread[13 + 5] = Meter_Init[5]
          /\ InitModulesThread[13 + 6] = Meter_Init[6]
          /\ InitModulesThread[13 + 7] = Meter_Init[7]
      BY Pieces
    <2> QED BY <2>1, MeterStatements
  <1>4. /\ InitModulesThread[21] = create("OutputSemaphore", 0)
        /\ InitModulesThread[22] = thread("OutputThread")
    <2>1. /\ InitModulesThread[20 + 1] = DAC_Init[1]
          /\ InitModulesThread[20 + 2] = DAC_Init[2]
      BY Pieces
    <2> QED BY <2>1, DACStatements
  <1>5. /\ InitModulesThread[23] = enable("PORT")
        /\ InitModulesThread[24] = create("PrintSemaphore", 1)
        /\ InitModulesThread[25] = create("PushButtonSemaphore", 0)
        /\ InitModulesThread[26] = create("DisplaySemaphore", 0)
        /\ InitModulesThread[27] = thread("PushButtonThread")
        /\ InitModulesThread[28] = thread("DisplayThread")
    <2>1. /\ InitModulesThread[22 + 1] = Interface_Init[1]
          /\ InitModulesThread[22 + 2] = Interface_Init[2]
          /\ InitModulesThread[22 + 3] = Interface_Init[3]
          /\ InitModulesThread[22 + 4] = Interface_Init[4]
          /\ InitModulesThread[22 + 5] = Interface_Init[5]
          /\ InitModulesThread[22 + 6] = Interface_Init[6]
      BY Pieces
    <2> QED BY <2>1, InterfaceStatements
  <1> QED BY Pieces, DACStatements, <1>2, <1>3, <1>4, <1>5

-----------------------------------------------------------------------------
(* What the order of the statements says *)

LEMMA ThreadNames ==
    threads = {"InitModulesThread", "RxThread", "OutputThread", "VoltageThread", "CurrentThread",
               "ProtocolThread", "PushButtonThread", "TxThread", "CalcThread", "DisplayThread"}
  BY DEF threads, priority

\* The place of each semaphore's creation.
Place(s) ==
    CASE s = "PacketSemaphore" -> 2
      [] s = "TxSemaphore" -> 3
      [] s = "RxSemaphore" -> 4
      [] s = "RxAccess" -> 6
      [] s = "RxSpace" -> 7
      [] s = "RxItems" -> 8
      [] s = "TxAccess" -> 9
      [] s = "TxSpace" -> 10
      [] s = "TxItems" -> 11
      [] s = "Voltage" -> 14
      [] s = "Current" -> 15
      [] s = "Calc" -> 16
      [] s = "OutputSemaphore" -> 21
      [] s = "PrintSemaphore" -> 24
      [] s = "PushButtonSemaphore" -> 25
      [] s = "DisplaySemaphore" -> 26

\* Where a semaphore or a thread is created, and where an interrupt is enabled.
Creations == {2, 3, 4, 6, 7, 8, 9, 10, 11, 14, 15, 16, 21, 24, 25, 26}
Starts == {12, 13, 17, 18, 19, 22, 27, 28, 29}
Enabling == {5, 20, 23}

LEMMA Places ==
    ASSUME NEW k \in 1 .. 31
    PROVE  \/ k \in Creations
           \/ k \in Starts
           \/ k \in Enabling
           \/ k \in {1, 30, 31}
  BY DEF Creations, Starts, Enabling

\* Each semaphore is created once, with its initial count.
LEMMA Creates ==
    ASSUME NEW k \in Creations
    PROVE  LET line == InitModulesThread[k]
           IN  /\ line.does = "OS_SemaphoreCreate"
               /\ line.what \in semaphores /\ Place(line.what) = k
               /\ line.value = InitialCount(line.what)
  <1>1. CASE k \in {2, 3, 4, 6}
    BY <1>1, Text DEF create, semaphores, Place, InitialCount
  <1>2. CASE k \in {7, 8, 9, 10}
    BY <1>2, Text DEF create, semaphores, Place, InitialCount
  <1>3. CASE k \in {11, 14, 15, 16}
    BY <1>3, Text DEF create, semaphores, Place, InitialCount
  <1>4. CASE k \in {21, 24, 25, 26}
    BY <1>4, Text DEF create, semaphores, Place, InitialCount
  <1> QED BY <1>1, <1>2, <1>3, <1>4 DEF Creations

\* The threads.
LEMMA StartsThreads ==
    ASSUME NEW k \in Starts
    PROVE  LET line == InitModulesThread[k]
           IN  line.does = "OS_ThreadCreate" /\ line.what \in threads \ {"InitModulesThread"}
  <1>1. CASE k \in {12, 13, 17, 18}
    BY <1>1, Text, ThreadNames DEF thread
  <1>2. CASE k \in {19, 22, 27, 28}
    BY <1>2, Text, ThreadNames DEF thread
  <1>3. CASE k \in {29}
    BY <1>3, Text, ThreadNames DEF thread
  <1> QED BY <1>1, <1>2, <1>3 DEF Starts

\* The interrupts, each after the semaphores of its handler, but for the button's.
LEMMA Enables ==
    ASSUME NEW k \in Enabling
    PROVE  LET line == InitModulesThread[k]
           IN  /\ line.does = "enable" /\ line.what \in {"UART", "PIT", "PORT"}
               /\ line.what = "UART" => k > Place("RxSemaphore")
               /\ line.what = "PIT" => k > Place("Voltage") /\ k > Place("Current")
  <1>1. CASE k \in {5, 20, 23}
    BY <1>1, Text DEF enable, Place
  <1> QED BY <1>1 DEF Enabling

\* The rest: InitModulesThread masks, unmasks and, at the end, deletes itself.
LEMMA Others ==
    /\ InitModulesThread[1].does = "OS_DisableInterrupts"
    /\ InitModulesThread[30].does = "OS_EnableInterrupts"
    /\ InitModulesThread[31].does = "OS_ThreadDelete"
    /\ InitModulesThread[31].what = "InitModulesThread"
  <1>1. InitModulesThread[1].does = "OS_DisableInterrupts"
    <2>1. OS_DisableInterrupts.does = "OS_DisableInterrupts"
      BY DEF OS_DisableInterrupts
    <2> QED BY <2>1, Text
  <1>2. InitModulesThread[30].does = "OS_EnableInterrupts"
    <2>1. OS_EnableInterrupts.does = "OS_EnableInterrupts"
      BY DEF OS_EnableInterrupts
    <2> QED BY <2>1, Text
  <1>3. delete("InitModulesThread").does = "OS_ThreadDelete"
    BY DEF delete
  <1>4. delete("InitModulesThread").what = "InitModulesThread"
    BY DEF delete
  <1>5. InitModulesThread[31] = delete("InitModulesThread")
    BY Text
  <1> QED BY <1>1, <1>2, <1>3, <1>4, <1>5

\* Every semaphore and every thread is created.
LEMMA Complete ==
    /\ \A s \in semaphores : /\ Place(s) \in 1 .. 31
                             /\ InitModulesThread[Place(s)].does = "OS_SemaphoreCreate"
                             /\ InitModulesThread[Place(s)].what = s
    /\ \A t \in threads \ {"InitModulesThread"} :
           \E k \in 1 .. 30 : /\ InitModulesThread[k].does = "OS_ThreadCreate"
                              /\ InitModulesThread[k].what = t
  <1>1. ASSUME NEW s \in semaphores
        PROVE  /\ Place(s) \in 1 .. 31 /\ InitModulesThread[Place(s)].does = "OS_SemaphoreCreate"
               /\ InitModulesThread[Place(s)].what = s
    BY Text DEF semaphores, Place, create
  <1>2. ASSUME NEW t \in threads \ {"InitModulesThread"}
        PROVE  \E k \in 1 .. 30 : /\ InitModulesThread[k].does = "OS_ThreadCreate"
                                  /\ InitModulesThread[k].what = t
    BY Text, ThreadNames DEF thread
  <1> QED BY <1>1, <1>2

-----------------------------------------------------------------------------
(* The invariant holds at reset *)

\* The counts at creation are numbers.
LEMMA InitialCountType == \A s \in semaphores : InitialCount(s) \in Nat
  BY BootAssumption DEF InitialCount

LEMMA InitOK == Init => IInv
  <1> SUFFICES ASSUME Init PROVE IInv
    OBVIOUS
  <1>1. pc = 1 /\ created = {"InitModulesThread"} /\ existing = {} /\ enabled = {}
    BY DEF Init
  <1>2. \A kind : Past(kind) = {}
    BY <1>1 DEF Past
  <1>3. Progress
    <2>1. pc \in 1 .. Len(InitModulesThread) + 1 /\ (Booting <=> pc <= Len(InitModulesThread))
      BY <1>1, Text DEF Booting
    <2>2. /\ existing = Past("OS_SemaphoreCreate")
          /\ created \ {"InitModulesThread"} = Past("OS_ThreadCreate")
          /\ enabled = Past("enable")
      BY <1>1, <1>2
    <2>3. masked \in BOOLEAN /\ ~ masked
      BY DEF Init
    <2> QED BY <2>1, <2>2, <2>3 DEF Progress
  <1>4. /\ count = [s \in semaphores |-> 0] /\ signalled = [s \in semaphores |-> 0]
        /\ missed = [s \in semaphores |-> 0]
    BY DEF Init
  <1>5. Signals
    <2>1. {count, signalled, missed} \subseteq [semaphores -> Nat]
      BY <1>4
    <2>2. \A s \in semaphores : count[s] = 0 /\ missed[s] = 0 /\ signalled[s] = 0
      BY <1>4
    <2> QED BY <1>1, <2>1, <2>2 DEF Signals
  <1>6. Bytes
    <2>1. "RxSemaphore" \in semaphores
      BY DEF semaphores
    <2>2. count["RxSemaphore"] = 0 /\ signalled["RxSemaphore"] = 0
      BY <1>4, <2>1
    <2>3. arrived = 0 /\ rdrf = FALSE /\ TempData = 0 /\ delivered = <<>>
      BY DEF Init
    <2>4. delivered \in Seq(1 .. MaxBytes) /\ Len(delivered) = 0
      BY <2>3
    <2>5. MaxBytes \in Nat
      BY BootAssumption
    <2>6. TempData + (IF rdrf THEN 1 ELSE 0) = 0
      BY <2>3
    <2>7. arrived \in 0 .. MaxBytes /\ TempData \in Nat
      BY <2>3, <2>5
    <2>8. rdrf \in BOOLEAN
      BY <2>3
    <2> QED BY <2>2, <2>3, <2>4, <2>6, <2>7, <2>8 DEF Bytes
  <1>7. Served
    BY DEF Init, Served
  <1> QED BY <1>3, <1>5, <1>6, <1>7 DEF IInv

-----------------------------------------------------------------------------
(* What has been done by pc *)

\* A semaphore exists once InitModulesThread is past its place.
LEMMA Existing ==
    ASSUME Progress, NEW s \in semaphores
    PROVE  s \in existing <=> Place(s) < pc
  <1>1. pc \in 1 .. 32 /\ existing = Past("OS_SemaphoreCreate")
    BY Text DEF Progress
  <1>2. ASSUME s \in existing PROVE Place(s) < pc
    <2>1. PICK k \in 1 .. pc - 1 : /\ InitModulesThread[k].does = "OS_SemaphoreCreate"
                                   /\ InitModulesThread[k].what = s
      BY <1>1, <1>2 DEF Past
    <2>2. k \in 1 .. 31
      BY <1>1
    <2>3. k \in Creations
      BY <2>1, <2>2, Places, StartsThreads, Enables, Others
    <2> QED BY <1>1, <2>1, <2>3, Creates
  <1>3. ASSUME Place(s) < pc PROVE s \in existing
    <2>1. Place(s) \in 1 .. pc - 1
      BY <1>1, <1>3, Complete
    <2> QED BY <1>1, <2>1, Complete DEF Past
  <1> QED BY <1>2, <1>3

\* An interrupt that is enabled was enabled by a statement before pc.
LEMMA EnabledBefore ==
    ASSUME Progress, NEW irq \in enabled
    PROVE  /\ irq \in {"UART", "PIT", "PORT"}
           /\ irq = "UART" => "RxSemaphore" \in existing
           /\ irq = "PIT" => {"Voltage", "Current"} \subseteq existing
  <1>1. pc \in 1 .. 32 /\ enabled = Past("enable")
    BY Text DEF Progress
  <1>2. PICK k \in 1 .. pc - 1 : /\ InitModulesThread[k].does = "enable"
                                 /\ InitModulesThread[k].what = irq
    BY <1>1 DEF Past
  <1>3. k \in 1 .. 31 /\ k < pc
    BY <1>1
  <1>4. k \in Enabling
    BY <1>2, <1>3, Places, StartsThreads, Creates, Others
  <1>5. {"RxSemaphore", "Voltage", "Current"} \subseteq semaphores
    BY DEF semaphores
  <1>6. \A s \in {"RxSemaphore", "Voltage", "Current"} : Place(s) \in 1 .. 31
    BY <1>5, Complete
  <1>7. CASE irq = "UART"
    <2>1. Place("RxSemaphore") < pc
      BY <1>1, <1>2, <1>3, <1>4, <1>6, <1>7, Enables
    <2> QED BY <1>5, <1>7, <2>1, Existing
  <1>8. CASE irq = "PIT"
    <2>1. Place("Voltage") < pc /\ Place("Current") < pc
      BY <1>1, <1>2, <1>3, <1>4, <1>6, <1>8, Enables
    <2> QED BY <1>5, <1>8, <2>1, Existing
  <1>9. irq \in {"UART", "PIT", "PORT"}
    BY <1>2, <1>4, Enables
  <1> QED BY <1>7, <1>8, <1>9

\* A statement adds itself to what has been done.
LEMMA PastGrows ==
    ASSUME pc \in 1 .. 31, pc' = pc + 1, NEW CONSTANT kind
    PROVE  /\ InitModulesThread[pc].does = kind => Past(kind)' = Past(kind) \cup {What}
           /\ InitModulesThread[pc].does # kind => Past(kind)' = Past(kind)
  <1>1. Past(kind)' =
            {InitModulesThread[k].what : k \in {j \in 1 .. pc : InitModulesThread[j].does = kind}}
    <2>1. pc' - 1 = pc
      OBVIOUS
    <2> QED BY <2>1 DEF Past
  <1>2. \A j : j \in 1 .. pc <=> j \in 1 .. pc - 1 \/ j = pc
    OBVIOUS
  <1>3. ASSUME InitModulesThread[pc].does = kind
        PROVE  {j \in 1 .. pc : InitModulesThread[j].does = kind}
                   = {j \in 1 .. pc - 1 : InitModulesThread[j].does = kind} \cup {pc}
    BY <1>2, <1>3
  <1>4. ASSUME InitModulesThread[pc].does # kind
        PROVE  {j \in 1 .. pc : InitModulesThread[j].does = kind}
                   = {j \in 1 .. pc - 1 : InitModulesThread[j].does = kind}
    BY <1>2, <1>4
  <1> QED BY <1>1, <1>3, <1>4 DEF Past, What

-----------------------------------------------------------------------------
(* The statements of InitModulesThread *)

\* A statement is executed while InitModulesThread exists, before its end.
LEMMA Executing ==
    ASSUME Progress, NEW kind, Executes(kind)
    PROVE  /\ Booting /\ pc \in 1 .. 31 /\ pc' = pc + 1
           /\ InitModulesThread[pc].does = kind
           /\ UNCHANGED <<rdrf, TempData, arrived, ticks, presses, signalled, missed, delivered>>
  <1>1. Booting
    BY DEF Executes, Running, Booting
  <1>2. pc \in 1 .. 31
    BY <1>1, Text DEF Progress
  <1> QED BY <1>1, <1>2 DEF Executes

\* Which statement is executed, by where it is.
LEMMA ByKind ==
    ASSUME NEW k \in 1 .. 31
    PROVE  /\ InitModulesThread[k].does = "OS_SemaphoreCreate" => k \in Creations
           /\ InitModulesThread[k].does = "OS_ThreadCreate" => k \in Starts
           /\ InitModulesThread[k].does = "enable" => k \in Enabling
           /\ InitModulesThread[k].does = "OS_ThreadDelete" => k = 31
           /\ k = 31 => InitModulesThread[k].does = "OS_ThreadDelete"
  <1>1. CASE k \in Creations
    <2>1. InitModulesThread[k].does = "OS_SemaphoreCreate" /\ k # 31
      BY <1>1, Creates DEF Creations
    <2> QED BY <1>1, <2>1
  <1>2. CASE k \in Starts
    <2>1. InitModulesThread[k].does = "OS_ThreadCreate" /\ k # 31
      BY <1>2, StartsThreads DEF Starts
    <2> QED BY <1>2, <2>1
  <1>3. CASE k \in Enabling
    <2>1. InitModulesThread[k].does = "enable" /\ k # 31
      BY <1>3, Enables DEF Enabling
    <2> QED BY <1>3, <2>1
  <1>4. CASE k \in {1, 30, 31}
    BY <1>4, Others
  <1> QED BY <1>1, <1>2, <1>3, <1>4, Places

\* The thread goes on, and the sets keep to what it has done.
LEMMA StatementProgress == Progress /\ Statement => Progress'
  <1> SUFFICES ASSUME Progress, Statement PROVE Progress'
    OBVIOUS
  <1> DEFINE does == InitModulesThread[pc].does
  <1>1. Booting /\ pc \in 1 .. 31 /\ pc' = pc + 1
    BY Executing DEF Statement, Mask, Unmask, EnableIRQ, OS_SemaphoreCreate, OS_ThreadCreate,
       OS_ThreadDelete
  <1>2. Len(InitModulesThread)' = 31 /\ Len(InitModulesThread) = 31 /\ pc' \in 1 .. 32
    BY <1>1, Text
  <1>3. /\ existing = Past("OS_SemaphoreCreate") /\ enabled = Past("enable")
        /\ created \ {"InitModulesThread"} = Past("OS_ThreadCreate")
        /\ masked \in BOOLEAN
    BY DEF Progress
  <1>4. ASSUME NEW CONSTANT kind
        PROVE  /\ does = kind => Past(kind)' = Past(kind) \cup {What}
               /\ does # kind => Past(kind)' = Past(kind)
    BY <1>1, PastGrows
  <1>5. ASSUME does # "OS_ThreadDelete", created \subseteq created'
        PROVE  Booting' <=> pc' <= 31
    <2>1. pc # 31
      BY <1>1, <1>5, ByKind
    <2> QED BY <1>1, <1>5, <2>1 DEF Booting
  <1>6. CASE Mask
    <2>1. /\ does = "OS_DisableInterrupts"
          /\ UNCHANGED <<existing, created, enabled>> /\ masked' = TRUE
      BY <1>6 DEF Mask, Executes
    <2>2. (Booting' <=> pc' <= 31) /\ pc # 31
      BY <1>1, <1>5, <2>1, ByKind
    <2>3. /\ Past("OS_SemaphoreCreate")' = Past("OS_SemaphoreCreate")
          /\ Past("enable")' = Past("enable")
          /\ Past("OS_ThreadCreate")' = Past("OS_ThreadCreate")
      BY <1>4, <2>1
    <2>4. Booting'
      BY <1>1, <2>2
    <2>5. masked' \in BOOLEAN /\ (~ Booting' => ~ masked')
      BY <2>1, <2>4
    <2> QED BY <1>2, <1>3, <2>1, <2>2, <2>3, <2>5 DEF Progress
  <1>7. CASE Unmask
    <2>1. /\ does = "OS_EnableInterrupts"
          /\ UNCHANGED <<existing, created, enabled>> /\ masked' = FALSE
      BY <1>7 DEF Unmask, Executes
    <2>2. Booting' <=> pc' <= 31
      BY <1>5, <2>1
    <2>3. /\ Past("OS_SemaphoreCreate")' = Past("OS_SemaphoreCreate")
          /\ Past("enable")' = Past("enable")
          /\ Past("OS_ThreadCreate")' = Past("OS_ThreadCreate")
      BY <1>4, <2>1
    <2>5. masked' \in BOOLEAN /\ (~ Booting' => ~ masked')
      BY <2>1
    <2> QED BY <1>2, <1>3, <2>1, <2>2, <2>3, <2>5 DEF Progress
  <1>8. CASE EnableIRQ
    <2>1. /\ does = "enable" /\ enabled' = enabled \cup {What}
          /\ UNCHANGED <<existing, created>> /\ masked' = masked
      BY <1>8 DEF EnableIRQ, Executes
    <2>2. (Booting' <=> pc' <= 31) /\ pc # 31
      BY <1>1, <1>5, <2>1, ByKind
    <2>3. /\ Past("OS_SemaphoreCreate")' = Past("OS_SemaphoreCreate")
          /\ Past("enable")' = Past("enable") \cup {What}
          /\ Past("OS_ThreadCreate")' = Past("OS_ThreadCreate")
      BY <1>4, <2>1
    <2>4. Booting'
      BY <1>1, <2>2
    <2>5. masked' \in BOOLEAN /\ (~ Booting' => ~ masked')
      BY <1>3, <2>1, <2>4
    <2> QED BY <1>2, <1>3, <2>1, <2>2, <2>3, <2>5 DEF Progress
  <1>9. CASE OS_SemaphoreCreate
    <2>1. /\ does = "OS_SemaphoreCreate" /\ existing' = existing \cup {What}
          /\ UNCHANGED <<enabled, created>> /\ masked' = FALSE
      BY <1>9 DEF OS_SemaphoreCreate, Executes
    <2>2. Booting' <=> pc' <= 31
      BY <1>5, <2>1
    <2>3. /\ Past("OS_SemaphoreCreate")' = Past("OS_SemaphoreCreate") \cup {What}
          /\ Past("enable")' = Past("enable")
          /\ Past("OS_ThreadCreate")' = Past("OS_ThreadCreate")
      BY <1>4, <2>1
    <2>5. masked' \in BOOLEAN /\ (~ Booting' => ~ masked')
      BY <2>1
    <2> QED BY <1>2, <1>3, <2>1, <2>2, <2>3, <2>5 DEF Progress
  <1>10. CASE OS_ThreadCreate
    <2>1. /\ does = "OS_ThreadCreate" /\ created' = created \cup {What}
          /\ UNCHANGED <<enabled, existing>> /\ masked' = FALSE
      BY <1>10 DEF OS_ThreadCreate, Executes
    <2>2. Booting' <=> pc' <= 31
      BY <1>5, <2>1
    <2>3. /\ Past("OS_SemaphoreCreate")' = Past("OS_SemaphoreCreate")
          /\ Past("enable")' = Past("enable")
          /\ Past("OS_ThreadCreate")' = Past("OS_ThreadCreate") \cup {What}
      BY <1>4, <2>1
    <2>4. What # "InitModulesThread"
      BY <1>1, <2>1, ByKind, StartsThreads DEF What
    <2>5. masked' \in BOOLEAN /\ (~ Booting' => ~ masked')
      BY <2>1
    <2>6. created' \ {"InitModulesThread"} = (created \ {"InitModulesThread"}) \cup {What}
      BY <2>1, <2>4
    <2> QED BY <1>2, <1>3, <2>1, <2>2, <2>3, <2>5, <2>6 DEF Progress
  <1>11. CASE OS_ThreadDelete
    <2>1. /\ does = "OS_ThreadDelete" /\ created' = created \ {What}
          /\ UNCHANGED <<enabled, existing>> /\ masked' = FALSE
      BY <1>11 DEF OS_ThreadDelete, Executes
    <2>2. pc = 31 /\ What = "InitModulesThread"
      BY <1>1, <2>1, ByKind, Others DEF What
    <2>3. /\ Past("OS_SemaphoreCreate")' = Past("OS_SemaphoreCreate")
          /\ Past("enable")' = Past("enable")
          /\ Past("OS_ThreadCreate")' = Past("OS_ThreadCreate")
      BY <1>4, <2>1
    <2>4. Booting' <=> pc' <= 31
      BY <1>1, <2>1, <2>2 DEF Booting
    <2>5. masked' \in BOOLEAN /\ (~ Booting' => ~ masked')
      BY <2>1
    <2>6. created' \ {"InitModulesThread"} = created \ {"InitModulesThread"}
      BY <2>1, <2>2
    <2> QED BY <1>2, <1>3, <2>1, <2>3, <2>4, <2>5, <2>6 DEF Progress
  <1> QED BY <1>6, <1>7, <1>8, <1>9, <1>10, <1>11 DEF Statement

\* A semaphore is created before anything has counted on it.
LEMMA StatementSignals ==
    ASSUME Progress, Signals, Statement, Progress'
    PROVE  Signals' /\ count'["RxSemaphore"] = count["RxSemaphore"]
  <1>1. /\ Booting /\ pc \in 1 .. 31 /\ pc' = pc + 1
        /\ UNCHANGED <<signalled, missed, delivered, arrived, TempData, rdrf>>
    BY Executing DEF Statement, Mask, Unmask, EnableIRQ, OS_SemaphoreCreate, OS_ThreadCreate,
       OS_ThreadDelete
  <1>2. CASE existing' = existing /\ count' = count
    BY <1>1, <1>2 DEF Signals
  <1>3. CASE OS_SemaphoreCreate
    <2> DEFINE s == What
    <2>1. /\ InitModulesThread[pc].does = "OS_SemaphoreCreate"
          /\ existing' = existing \cup {s}
          /\ count' = [count EXCEPT ![s] = InitModulesThread[pc].value]
      BY <1>3 DEF OS_SemaphoreCreate, Executes
    <2>2. s \in semaphores /\ Place(s) = pc /\ InitModulesThread[pc].value = InitialCount(s)
      BY <1>1, <2>1, ByKind, Creates DEF What
    <2>3. s \notin existing
      BY <1>1, <2>2, Existing
    <2>4. InitialCount(s) \in Nat /\ count' = [count EXCEPT ![s] = InitialCount(s)]
      BY <2>1, <2>2, InitialCountType
    <2> HIDE DEF s
    <2>5. {count, signalled, missed} \subseteq [semaphores -> Nat]
      BY DEF Signals
    <2>6. count' \in [semaphores -> Nat] /\ count'[s] = InitialCount(s)
      BY <2>2, <2>4, <2>5
    <2>7. \A x \in semaphores \ {s} : count'[x] = count[x]
      BY <2>2, <2>4, <2>5
    <2>8. count[s] = 0 /\ missed[s] = signalled[s] /\ signalled[s] \in Nat
      BY <2>2, <2>3, <2>5 DEF Signals
    <2>9. ASSUME NEW x \in semaphores
          PROVE  /\ x \notin existing' => count'[x] = 0 /\ missed'[x] = signalled'[x]
                 /\ x \in existing' /\ x # "RxSemaphore" =>
                        count'[x] = InitialCount(x) + signalled'[x] - missed'[x]
                 /\ x # "PushButtonSemaphore" => missed'[x] = 0
      <3>1. CASE x = s
        <4>1. x \in existing' /\ (x # "PushButtonSemaphore" => missed'[x] = 0)
          BY <1>1, <2>1, <3>1 DEF Signals
        <4>2. count'[x] = InitialCount(x) + signalled'[x] - missed'[x]
          BY <1>1, <2>4, <2>6, <2>8, <3>1
        <4> QED BY <4>1, <4>2
      <3>2. CASE x # s
        <4>1. (x \in existing' <=> x \in existing) /\ count'[x] = count[x]
          BY <2>1, <2>7, <3>2
        <4> QED BY <1>1, <4>1 DEF Signals
      <3> QED BY <3>1, <3>2
    <2>10. {count', signalled', missed'} \subseteq [semaphores -> Nat]
      BY <1>1, <2>5, <2>6
    <2>11. Signals'
      BY <2>9, <2>10 DEF Signals
    <2>12. count'["RxSemaphore"] = count["RxSemaphore"]
      <3>1. "RxSemaphore" \in semaphores
        BY DEF semaphores
      <3>2. CASE s = "RxSemaphore"
        BY <2>6, <2>8, <3>2 DEF InitialCount
      <3> QED BY <2>7, <3>1, <3>2
    <2> QED BY <2>11, <2>12
  <1> QED BY <1>2, <1>3 DEF Statement, Mask, Unmask, EnableIRQ, OS_ThreadCreate, OS_ThreadDelete

\* A statement leaves the bytes alone.
LEMMA StatementKeeps == IInv /\ Statement => IInv'
  <1> SUFFICES ASSUME IInv, Statement PROVE IInv'
    OBVIOUS
  <1>1. Progress /\ Signals /\ Bytes /\ Served
    BY DEF IInv
  <1>2. Progress'
    BY <1>1, StatementProgress
  <1>3. Signals' /\ count'["RxSemaphore"] = count["RxSemaphore"]
    BY <1>1, <1>2, StatementSignals
  <1>4. /\ UNCHANGED <<signalled, delivered, arrived, TempData, rdrf>>
        /\ enabled \subseteq enabled'
    BY <1>1, Executing DEF Statement, Mask, Unmask, EnableIRQ, OS_SemaphoreCreate,
       OS_ThreadCreate, OS_ThreadDelete
  <1>5. Bytes'
    BY <1>1, <1>3, <1>4 DEF Bytes
  <1>6. Served'
    BY <1>1, <1>4 DEF Served
  <1> QED BY <1>2, <1>3, <1>5, <1>6 DEF IInv

-----------------------------------------------------------------------------
(* The interrupts and RxThread *)

\* Where the program does not move, its progress stands.
LEMMA ProgressStands ==
    Progress /\ UNCHANGED <<pc, masked, enabled, existing, created>> => Progress'
  BY DEF Progress, Past, Booting

\* A handler signals semaphores that exist, but for the button's.
LEMMA SignalKeeps ==
    ASSUME Signals, UNCHANGED existing, NEW S \in SUBSET semaphores,
           S \subseteq existing \cup {"PushButtonSemaphore"}, OS_SemaphoreSignal(S)
    PROVE  /\ Signals'
           /\ \A s \in S \cap existing :
                  count'[s] = count[s] + 1 /\ signalled'[s] = signalled[s] + 1
           /\ \A s \in semaphores \ S : count'[s] = count[s] /\ signalled'[s] = signalled[s]
  <1>1. \A s \in semaphores :
            /\ count[s] \in Nat /\ signalled[s] \in Nat /\ missed[s] \in Nat
            /\ count'[s] = IF s \in S \cap existing THEN count[s] + 1 ELSE count[s]
            /\ signalled'[s] = IF s \in S THEN signalled[s] + 1 ELSE signalled[s]
            /\ missed'[s] = IF s \in S \ existing THEN missed[s] + 1 ELSE missed[s]
    BY DEF OS_SemaphoreSignal, Signals
  <1>2. {count', signalled', missed'} \subseteq [semaphores -> Nat]
    <2>1. count' \in [semaphores -> Nat]
      BY <1>1 DEF OS_SemaphoreSignal
    <2>2. signalled' \in [semaphores -> Nat]
      BY <1>1 DEF OS_SemaphoreSignal
    <2>3. missed' \in [semaphores -> Nat]
      BY <1>1 DEF OS_SemaphoreSignal
    <2> QED BY <2>1, <2>2, <2>3
  <1>3. ASSUME NEW s \in semaphores
        PROVE  /\ s \notin existing' => count'[s] = 0 /\ missed'[s] = signalled'[s]
               /\ s \in existing' /\ s # "RxSemaphore" =>
                      count'[s] = InitialCount(s) + signalled'[s] - missed'[s]
               /\ s # "PushButtonSemaphore" => missed'[s] = 0
    <2>1. /\ s \notin existing => count[s] = 0 /\ missed[s] = signalled[s]
          /\ s \in existing /\ s # "RxSemaphore" =>
                 count[s] = InitialCount(s) + signalled[s] - missed[s]
          /\ s # "PushButtonSemaphore" => missed[s] = 0
      BY DEF Signals
    <2>2. s \in S /\ s # "PushButtonSemaphore" => s \in existing
      OBVIOUS
    <2>3. InitialCount(s) \in Nat
      BY InitialCountType
    <2>4. CASE s \in S /\ s \in existing
      BY <1>1, <2>1, <2>3, <2>4
    <2>5. CASE s \in S /\ s \notin existing
      BY <1>1, <2>1, <2>2, <2>5
    <2>6. CASE s \notin S
      BY <1>1, <2>1, <2>6
    <2> QED BY <2>4, <2>5, <2>6
  <1>4. Signals'
    BY <1>2, <1>3 DEF Signals
  <1> QED BY <1>1, <1>4

LEMMA LineInKeeps == IInv /\ LineIn => IInv'
  <1> SUFFICES ASSUME IInv, LineIn PROVE IInv'
    OBVIOUS
  <1>1. Progress /\ Signals /\ Bytes /\ Served
    BY DEF IInv
  <1>2. Progress'
    BY <1>1, ProgressStands DEF LineIn
  <1>3. Signals'
    BY <1>1 DEF Signals, LineIn
  <1>4. Bytes'
    <2>1. /\ arrived \in 0 .. MaxBytes /\ TempData \in Nat /\ arrived = TempData
      BY <1>1 DEF LineIn, Bytes
    <2>2. arrived' \in 0 .. MaxBytes /\ arrived' = TempData' + 1 /\ TempData' \in Nat
      BY <2>1, BootAssumption DEF LineIn
    <2>3. rdrf' = TRUE /\ rdrf' \in BOOLEAN
      BY DEF LineIn
    <2>4. arrived' = TempData' + (IF rdrf' THEN 1 ELSE 0)
      BY <2>2, <2>3
    <2>5. "UART" \in enabled' /\ UNCHANGED <<delivered, TempData, signalled, count>>
      BY DEF LineIn
    <2> QED BY <1>1, <2>2, <2>3, <2>4, <2>5 DEF Bytes
  <1>5. Served'
    BY <1>1 DEF Served, LineIn
  <1> QED BY <1>2, <1>3, <1>4, <1>5 DEF IInv

LEMMA UARTKeeps == IInv /\ UART_ISR => IInv'
  <1> SUFFICES ASSUME IInv, UART_ISR PROVE IInv'
    OBVIOUS
  <1>1. Progress /\ Signals /\ Bytes /\ Served
    BY DEF IInv
  <1>2. /\ "UART" \in enabled /\ rdrf /\ TempData' = arrived /\ rdrf' = FALSE
        /\ OS_SemaphoreSignal({"RxSemaphore"})
        /\ UNCHANGED <<pc, masked, enabled, existing, created, delivered, arrived>>
    BY DEF UART_ISR, Handled
  <1>3. Progress'
    BY <1>1, <1>2, ProgressStands
  <1>4. "RxSemaphore" \in existing
    BY <1>1, <1>2, EnabledBefore
  <1>5. "RxSemaphore" \in semaphores
    BY DEF semaphores
  <1>6. /\ Signals' /\ count'["RxSemaphore"] = count["RxSemaphore"] + 1
        /\ signalled'["RxSemaphore"] = signalled["RxSemaphore"] + 1
    BY <1>1, <1>2, <1>4, <1>5, SignalKeeps
  <1>7. /\ arrived \in 0 .. MaxBytes /\ TempData \in Nat /\ arrived = TempData + 1
        /\ count["RxSemaphore"] \in Nat /\ delivered \in Seq(1 .. MaxBytes)
        /\ TempData = signalled["RxSemaphore"]
        /\ signalled["RxSemaphore"] = count["RxSemaphore"] + Len(delivered)
    BY <1>1, <1>2, <1>5 DEF Bytes, Signals
  <1>8. Bytes'
    <2>1. arrived' = TempData' + (IF rdrf' THEN 1 ELSE 0)
      BY <1>2, <1>7
    <2>2. rdrf' \in BOOLEAN
      BY <1>2
    <2>3. /\ arrived' \in 0 .. MaxBytes /\ TempData' \in Nat
          /\ TempData' = signalled'["RxSemaphore"]
      BY <1>2, <1>6, <1>7
    <2>4. signalled'["RxSemaphore"] = count'["RxSemaphore"] + Len(delivered')
      <3>1. delivered' = delivered /\ Len(delivered) \in Nat
        BY <1>2, <1>7
      <3> QED BY <1>6, <1>7, <3>1
    <2>5. delivered' \in Seq(1 .. MaxBytes) /\ "UART" \in enabled'
      BY <1>2, <1>7
    <2> QED BY <2>1, <2>2, <2>3, <2>4, <2>5 DEF Bytes
  <1>9. Served'
    <2>1. TempData' = TempData + 1 /\ delivered' = delivered
      BY <1>2, <1>7
    <2>2. DOMAIN delivered \subseteq Nat
      BY <1>7
    <2>3. \A k \in DOMAIN delivered : delivered[k] \in k .. TempData + 1
      BY <1>1, <1>7, <2>2 DEF Served
    <2> QED BY <1>1, <2>1, <2>3 DEF Served
  <1> QED BY <1>3, <1>6, <1>8, <1>9 DEF IInv

\* The other handlers leave RxSemaphore and the bytes alone.
LEMMA HandlerKeeps ==
    ASSUME IInv, NEW irq \in {"PIT", "PORT"}, Handled(irq), NEW S \in SUBSET semaphores,
           irq = "PIT" => S = {"Voltage", "Current"},
           irq = "PORT" => S = {"PushButtonSemaphore"},
           OS_SemaphoreSignal(S), UNCHANGED <<rdrf, TempData, arrived>>
    PROVE  IInv'
  <1>1. Progress /\ Signals /\ Bytes /\ Served
    BY DEF IInv
  <1>2. /\ irq \in enabled
        /\ UNCHANGED <<pc, masked, enabled, existing, created, delivered>>
    BY DEF Handled
  <1>3. Progress'
    BY <1>1, <1>2, ProgressStands
  <1>4. S \subseteq existing \cup {"PushButtonSemaphore"} /\ "RxSemaphore" \notin S
    BY <1>1, <1>2, EnabledBefore
  <1>5. "RxSemaphore" \in semaphores
    BY DEF semaphores
  <1>6. /\ Signals' /\ count'["RxSemaphore"] = count["RxSemaphore"]
        /\ signalled'["RxSemaphore"] = signalled["RxSemaphore"]
    BY <1>1, <1>2, <1>4, <1>5, SignalKeeps
  <1>7. Bytes'
    BY <1>1, <1>2, <1>6 DEF Bytes
  <1>8. Served'
    BY <1>1, <1>2 DEF Served
  <1> QED BY <1>3, <1>6, <1>7, <1>8 DEF IInv

LEMMA RxThreadKeeps == IInv /\ RxThread => IInv'
  <1> SUFFICES ASSUME IInv, RxThread PROVE IInv'
    OBVIOUS
  <1>1. Progress /\ Signals /\ Bytes /\ Served
    BY DEF IInv
  <1>2. /\ count["RxSemaphore"] > 0
        /\ count' = [count EXCEPT !["RxSemaphore"] = @ - 1]
        /\ delivered' = Append(delivered, TempData)
        /\ UNCHANGED <<pc, masked, enabled, existing, created, rdrf, TempData, arrived,
                       signalled, missed>>
    BY DEF RxThread
  <1>3. Progress'
    BY <1>1, <1>2, ProgressStands
  <1>4. "RxSemaphore" \in semaphores
    BY DEF semaphores
  <1>5. /\ {count, signalled, missed} \subseteq [semaphores -> Nat]
        /\ \A s \in semaphores : s \notin existing => count[s] = 0
    BY <1>1 DEF Signals
  <1>6. /\ count["RxSemaphore"] \in Nat /\ count'["RxSemaphore"] = count["RxSemaphore"] - 1
        /\ \A s \in semaphores \ {"RxSemaphore"} : count'[s] = count[s]
        /\ count' \in [semaphores -> Nat]
    BY <1>2, <1>4, <1>5
  <1>7. Signals'
    <2>1. "RxSemaphore" \in existing
      BY <1>2, <1>4, <1>5
    <2>2. {count', signalled', missed'} \subseteq [semaphores -> Nat]
      BY <1>2, <1>5, <1>6
    <2>3. ASSUME NEW s \in semaphores
          PROVE  /\ s \notin existing' => count'[s] = 0 /\ missed'[s] = signalled'[s]
                 /\ s \in existing' /\ s # "RxSemaphore" =>
                        count'[s] = InitialCount(s) + signalled'[s] - missed'[s]
                 /\ s # "PushButtonSemaphore" => missed'[s] = 0
      <3>1. CASE s = "RxSemaphore"
        BY <1>1, <1>2, <2>1, <3>1 DEF Signals
      <3>2. CASE s # "RxSemaphore"
        BY <1>1, <1>2, <1>6, <3>2 DEF Signals
      <3> QED BY <3>1, <3>2
    <2> QED BY <2>2, <2>3 DEF Signals
  <1>8. /\ arrived \in 0 .. MaxBytes /\ TempData \in Nat
        /\ arrived = TempData + (IF rdrf THEN 1 ELSE 0)
        /\ delivered \in Seq(1 .. MaxBytes) /\ TempData = signalled["RxSemaphore"]
        /\ signalled["RxSemaphore"] = count["RxSemaphore"] + Len(delivered)
    BY <1>1 DEF Bytes
  <1>9. TempData <= arrived /\ MaxBytes \in Nat
    BY <1>8, BootAssumption
  <1> DEFINE n == Len(delivered)
  <1>10. n \in Nat /\ TempData >= n + 1
    BY <1>2, <1>6, <1>8
  <1>11. TempData \in 1 .. MaxBytes
    BY <1>8, <1>9, <1>10
  <1>12. /\ delivered' \in Seq(1 .. MaxBytes) /\ Len(delivered') = n + 1
         /\ \A k \in 1 .. n : delivered'[k] = delivered[k]
         /\ delivered'[n + 1] = TempData
    BY <1>2, <1>8, <1>11
  <1>13. Bytes'
    <2>1. signalled'["RxSemaphore"] = count'["RxSemaphore"] + Len(delivered')
      BY <1>2, <1>6, <1>8, <1>10, <1>12
    <2> QED BY <1>1, <1>2, <1>12, <2>1 DEF Bytes
  <1>14. /\ \A k \in 1 .. n : delivered[k] \in k .. TempData
         /\ \A k \in 2 .. n : delivered[k] >= delivered[k - 1]
    BY <1>1, <1>8 DEF Served
  <1> DEFINE d == delivered'
  <1>15. \A k \in 1 .. n + 1 : d[k] \in k .. TempData
    <2>1. ASSUME NEW k \in 1 .. n + 1 PROVE d[k] \in k .. TempData
      <3>1. CASE k = n + 1
        BY <1>10, <1>12, <1>11, <3>1
      <3>2. CASE k \in 1 .. n
        BY <1>12, <1>14, <3>2
      <3> QED BY <1>10, <3>1, <3>2
    <2> QED BY <2>1
  <1>16. \A k \in 2 .. n + 1 : d[k] >= d[k - 1]
    <2>1. ASSUME NEW k \in 2 .. n + 1 PROVE d[k] >= d[k - 1]
      <3>1. CASE k = n + 1
        <4>1. k - 1 \in 1 .. n /\ k - 1 = n
          BY <1>10, <3>1
        <4>2. delivered[n] \in n .. TempData /\ d[k - 1] = delivered[n]
          BY <1>12, <1>14, <4>1
        <4> QED BY <1>10, <1>11, <1>12, <3>1, <4>2
      <3>2. CASE k \in 2 .. n
        <4>1. k \in 1 .. n /\ k - 1 \in 1 .. n
          BY <1>10, <3>2
        <4> QED BY <1>12, <1>14, <3>2, <4>1
      <3> QED BY <1>10, <3>1, <3>2
    <2> QED BY <2>1
  <1>17. Served'
    <2>1. DOMAIN delivered' = 1 .. n + 1 /\ TempData' = TempData
      BY <1>2, <1>12
    <2> QED BY <1>12, <1>15, <1>16, <2>1 DEF Served
  <1> QED BY <1>3, <1>7, <1>13, <1>17 DEF IInv

LEMMA NextOK == IInv /\ [Next]_vars => IInv'
  <1> SUFFICES ASSUME IInv, [Next]_vars PROVE IInv'
    OBVIOUS
  <1>1. CASE Statement
    BY <1>1, StatementKeeps
  <1>2. CASE LineIn
    BY <1>2, LineInKeeps
  <1>3. CASE UART_ISR
    BY <1>3, UARTKeeps
  <1>4. CASE PIT_ISR
    <2>1. {"Voltage", "Current"} \in SUBSET semaphores
      BY DEF semaphores
    <2> QED BY <1>4, <2>1, HandlerKeeps DEF PIT_ISR
  <1>5. CASE Debounce_SW1_ISR
    <2>1. {"PushButtonSemaphore"} \in SUBSET semaphores
      BY DEF semaphores
    <2> QED BY <1>5, <2>1, HandlerKeeps DEF Debounce_SW1_ISR
  <1>6. CASE RxThread
    BY <1>6, RxThreadKeeps
  <1>7. CASE UNCHANGED vars
    BY <1>7 DEF vars, IInv, Progress, Past, Booting, Signals, Bytes, Served
  <1> QED BY <1>1, <1>2, <1>3, <1>4, <1>5, <1>6, <1>7 DEF Next, Interrupt

\* Whatever the handlers do meanwhile, what exists is what the statements before pc
\* created, every signal since is counted, and TempData holds the last byte signalled.
THEOREM Invariant == Spec => []IInv
  <1> QED BY InitOK, NextOK, PTL DEF Spec

-----------------------------------------------------------------------------
(* What follows *)

\* The sets and counts of the invariant are within their types.
LEMMA Typed == IInv => TypeOK
  <1> SUFFICES ASSUME IInv PROVE TypeOK
    OBVIOUS
  <1>1. Progress /\ Signals /\ Bytes
    BY DEF IInv
  <1>2. \A k \in 1 .. pc - 1 : k \in 1 .. 31
    BY <1>1, Text DEF Progress
  <1>3. existing \subseteq semaphores
    <2>1. ASSUME NEW s \in existing PROVE s \in semaphores
      <3>1. PICK k \in 1 .. pc - 1 : /\ InitModulesThread[k].does = "OS_SemaphoreCreate"
                                     /\ InitModulesThread[k].what = s
        BY <1>1, <2>1 DEF Progress, Past
      <3> QED BY <1>2, <3>1, ByKind, Creates
    <2> QED BY <2>1
  <1>4. created \subseteq threads
    <2>1. ASSUME NEW t \in created, t # "InitModulesThread" PROVE t \in threads
      <3>1. PICK k \in 1 .. pc - 1 : /\ InitModulesThread[k].does = "OS_ThreadCreate"
                                     /\ InitModulesThread[k].what = t
        BY <1>1, <2>1 DEF Progress, Past
      <3> QED BY <1>2, <3>1, ByKind, StartsThreads
    <2>2. "InitModulesThread" \in threads
      BY ThreadNames
    <2> QED BY <2>1, <2>2
  <1>5. enabled \subseteq {"UART", "PIT", "PORT"}
    BY <1>1, EnabledBefore
  <1>6. TempData \in 0 .. MaxBytes
    <2>1. /\ arrived \in 0 .. MaxBytes /\ TempData \in Nat
          /\ arrived = TempData + (IF rdrf THEN 1 ELSE 0)
      BY <1>1 DEF Bytes
    <2> QED BY <2>1, BootAssumption
  <1>7. count \in [semaphores -> Nat]
    BY <1>1 DEF Signals
  <1>8. delivered \in Seq(1 .. MaxBytes)
    BY <1>1 DEF Bytes
  <1>9. pc \in 1 .. Len(InitModulesThread) + 1 /\ masked \in BOOLEAN
    BY <1>1 DEF Progress
  <1> QED BY <1>3, <1>4, <1>5, <1>6, <1>7, <1>8, <1>9 DEF TypeOK

\* Counts, sets and bytes stay in their types.
THEOREM TypeCorrect == Spec => []TypeOK
  <1> QED BY Invariant, Typed, PTL

\* Booting makes the state the other modules begin in, with every signal sent
\* meanwhile but the button's.
THEOREM HandedOver == Spec => []HandsOver
  <1>1. ASSUME IInv PROVE HandsOver
    <2> SUFFICES ASSUME ~ Booting
                 PROVE  /\ ~ masked
                        /\ existing = semaphores /\ created = threads \ {"InitModulesThread"}
                        /\ \A s \in semaphores :
                               /\ s # "PushButtonSemaphore" => missed[s] = 0
                               /\ s # "RxSemaphore" =>
                                      count[s] = InitialCount(s) + signalled[s] - missed[s]
      BY DEF HandsOver
    <2>1. Progress /\ Signals /\ TypeOK
      BY <1>1, Typed DEF IInv
    <2>2. pc = 32 /\ ~ masked
      BY <2>1, Text DEF Progress
    <2>3. existing = semaphores
      <3>1. ASSUME NEW s \in semaphores PROVE s \in existing
        <4>1. Place(s) < pc
          BY <2>2, Complete
        <4> QED BY <2>1, <4>1, Existing
      <3> QED BY <2>1, <3>1 DEF TypeOK
    <2>4. created = threads \ {"InitModulesThread"}
      <3>1. ASSUME NEW t \in threads \ {"InitModulesThread"} PROVE t \in created
        <4>1. PICK k \in 1 .. 30 : /\ InitModulesThread[k].does = "OS_ThreadCreate"
                                   /\ InitModulesThread[k].what = t
          BY Complete
        <4>2. k \in 1 .. pc - 1
          BY <2>2
        <4>3. t \in Past("OS_ThreadCreate")
          BY <4>1, <4>2 DEF Past
        <4> QED BY <2>1, <4>3 DEF Progress
      <3>2. "InitModulesThread" \notin created /\ created \subseteq threads
        BY <2>1 DEF Booting, TypeOK
      <3> QED BY <3>1, <3>2
    <2>5. ASSUME NEW s \in semaphores
          PROVE  /\ s # "PushButtonSemaphore" => missed[s] = 0
                 /\ s # "RxSemaphore" => count[s] = InitialCount(s) + signalled[s] - missed[s]
      BY <2>1, <2>3 DEF Signals
    <2> QED BY <2>2, <2>3, <2>4, <2>5
  <1> QED BY <1>1, Invariant, PTL

\* RxThread puts one byte for each that arrived, the same or a later one, in order.
THEOREM OneByteEach == Spec => []BytesServed
  <1>1. ASSUME IInv PROVE BytesServed
    <2>1. Signals /\ Bytes /\ Served
      BY <1>1 DEF IInv
    <2>2. /\ arrived \in 0 .. MaxBytes /\ TempData \in Nat
          /\ arrived = TempData + (IF rdrf THEN 1 ELSE 0)
          /\ delivered \in Seq(1 .. MaxBytes) /\ TempData = signalled["RxSemaphore"]
          /\ signalled["RxSemaphore"] = count["RxSemaphore"] + Len(delivered)
      BY <2>1 DEF Bytes
    <2>3. TempData <= arrived /\ arrived \in Nat
      BY <2>2, BootAssumption
    <2>4. ASSUME NEW k \in DOMAIN delivered PROVE delivered[k] \in k .. arrived
      <3>1. delivered[k] \in k .. TempData /\ k \in Nat
        BY <2>1, <2>2 DEF Served
      <3> QED BY <2>2, <2>3, <3>1
    <2>5. ~ rdrf /\ count["RxSemaphore"] = 0 => Len(delivered) = arrived
      BY <2>2
    <2> QED BY <2>1, <2>4, <2>5 DEF BytesServed, Served
  <1> QED BY <1>1, Invariant, PTL

=============================================================================
