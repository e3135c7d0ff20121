---------------------------- MODULE SerialProofs ----------------------------
(***************************************************************************)
(* The serial port for FIFOs, packets and texts of any size and any number *)
(* of bytes.  First, what becomes of TxThread's token: the transmit buffer *)
(* is never written twice.  Then RxFIFO and TxFIFO are the FIFO of         *)
(* FIFO.tla, with all that is proved of it.  From that follow the types,   *)
(* where each thread may be and sleep, and how many bytes are at every     *)
(* place between the two ends of the line: nothing is stuck when nothing   *)
(* can move.  Last, which bytes these are: those from the PC come out in   *)
(* order unless the mailbox was overrun, those to the PC always.           *)
(***************************************************************************)
EXTENDS Serial, SequenceTheorems, FiniteSetTheorems, TLAPS

Places == {"wait", "put", "get", "enable", "in", "got", "packet", "out", "close", "print"}
Labels == {"idle"} \cup rx!PutLabels \cup rx!GetLabels

\* The kernel's tables and the places of the threads.
Kernel ==
    /\ count \in [semaphores -> Nat]
    /\ waiters \in [semaphores -> SUBSET threads]

Threaded ==
    /\ at \in [threads -> Places]
    /\ rxPc \in [threads -> Labels] /\ txPc \in [threads -> Labels]

Flags == /\ masked \in BOOLEAN /\ rdrf \in BOOLEAN /\ tdre \in BOOLEAN /\ tie \in BOOLEAN
         /\ overran \in BOOLEAN

\* TxThread is outside TxFIFO except between TxGet and TxEnable, and sleeps for its
\* token before TxGet only.
TxPlaces ==
    /\ at["Tx"] \in {"wait", "get", "enable"}
    /\ at["Tx"] # "enable" => txPc["Tx"] = "idle"
    /\ txPc["Tx"] \in {"idle"} \cup rx!GetLabels
    /\ waiters["TxSemaphore"] \subseteq {"Tx"}
    /\ "Tx" \in waiters["TxSemaphore"] => at["Tx"] = "get"

\* TxThread holds the token from its wait to TxEnable.
Holding == at["Tx"] \in {"get", "enable"} /\ "Tx" \notin waiters["TxSemaphore"]

\* There is one token: in TxSemaphore, in TxThread's hands, or as TIE with the handler.
Token ==
    \/ count["TxSemaphore"] = 1 /\ ~ Holding /\ ~ tie
    \/ count["TxSemaphore"] = 0 /\ Holding /\ ~ tie
    \/ count["TxSemaphore"] = 0 /\ ~ Holding /\ tie

\* The transmit buffer is full only while the handler waits for it, or while
\* TxThread has just filled it.
Buffered ==
    \/ tdre
    \/ tie
    \/ at["Tx"] = "enable" /\ txPc["Tx"] \in {"get_loaded", "get_counted", "get_left", "idle"}

IInv == Kernel /\ Threaded /\ Flags /\ TxPlaces /\ Token /\ Buffered

-----------------------------------------------------------------------------
(* The kernel *)

\* The kernel call is the same whether a module or a FIFO of it makes it.
LEMMA SameKernel ==
    ASSUME NEW s, NEW t
    PROVE  /\ rx!OS_SemaphoreWait(s, t) <=> OS_SemaphoreWait(s, t)
           /\ tx!OS_SemaphoreWait(s, t) <=> OS_SemaphoreWait(s, t)
           /\ rx!OS_SemaphoreSignal(s) <=> OS_SemaphoreSignal(s)
           /\ tx!OS_SemaphoreSignal(s) <=> OS_SemaphoreSignal(s)
           /\ rx!Ready(t) <=> Ready(t)
           /\ tx!Ready(t) <=> Ready(t)
  <1>1. /\ rx!OS_SemaphoreWait(s, t) <=> OS_SemaphoreWait(s, t)
        /\ tx!OS_SemaphoreWait(s, t) <=> OS_SemaphoreWait(s, t)
    BY DEF rx!OS_SemaphoreWait, rx!Take, rx!Sleep, tx!OS_SemaphoreWait, tx!Take, tx!Sleep,
           OS_SemaphoreWait, Take, Sleep
  <1>2. /\ rx!OS_SemaphoreSignal(s) <=> OS_SemaphoreSignal(s)
        /\ tx!OS_SemaphoreSignal(s) <=> OS_SemaphoreSignal(s)
    BY Zenon DEF rx!OS_SemaphoreSignal, rx!Give, rx!HandOver, rx!Urgent,
           tx!OS_SemaphoreSignal, tx!Give, tx!HandOver, tx!Urgent,
           OS_SemaphoreSignal, Give, HandOver, Urgent
  <1>3. (rx!Ready(t) <=> Ready(t)) /\ (tx!Ready(t) <=> Ready(t))
    BY DEF rx!Ready, tx!Ready, Ready
  <1> QED BY <1>1, <1>2, <1>3

\* A step touches the kernel's tables at the semaphores of S only.
Touches(S) ==
    /\ Kernel'
    /\ \A u \in semaphores \ S : count'[u] = count[u] /\ waiters'[u] = waiters[u]

LEMMA CallOK ==
    ASSUME Kernel, NEW s \in semaphores, NEW t \in threads,
           OS_SemaphoreWait(s, t) \/ OS_SemaphoreSignal(s)
    PROVE  Touches({s})
  <1> USE DEF Kernel, Touches
  <1>1. CASE OS_SemaphoreWait(s, t)
    BY <1>1 DEF OS_SemaphoreWait, Take, Sleep
  <1>2. CASE OS_SemaphoreSignal(s)
    BY <1>2 DEF OS_SemaphoreSignal, Give, HandOver
  <1> QED BY <1>1, <1>2

\* A call of one of the semaphores of S, or of none.
LEMMA CallsOK ==
    ASSUME Kernel, NEW S, S \subseteq semaphores, NEW t \in threads,
           UNCHANGED osV \/ \E s \in S : OS_SemaphoreWait(s, t) \/ OS_SemaphoreSignal(s)
    PROVE  Touches(S)
  <1>1. CASE UNCHANGED osV
    BY <1>1 DEF osV, Kernel, Touches
  <1>2. ASSUME NEW s \in S, OS_SemaphoreWait(s, t) \/ OS_SemaphoreSignal(s)
        PROVE  Touches(S)
    BY <1>2, CallOK DEF Touches
  <1> QED BY <1>1, <1>2

-----------------------------------------------------------------------------
(* The FIFOs *)

\* What a step inside RxFIFO leaves alone.
LEMMA RxCalls ==
    ASSUME Kernel, Threaded, NEW t \in threads,
           rx!PutStep(t) \/ rx!GetStep(t) \/ rx!GetCall(t) \/ rx!PutCall(t, TempData)
    PROVE  Touches(rxSems) /\ rxPc' \in [threads -> Labels]
  <1> USE SameKernel DEF rx!PutStep, rx!GetStep, rx!GetCall, rx!PutCall, rx!PutEnter, rx!PutStore,
          rx!PutAdvance, rx!PutLeave, rx!PutReturn, rx!GetEnter, rx!GetLoad, rx!GetAdvance,
          rx!GetLeave, rx!GetReturn
  <1>1. rxPc' \in [threads -> Labels]
    BY DEF rx!Goto, Threaded, Labels, rx!PutLabels, rx!GetLabels
  <1>2. \/ UNCHANGED osV
        \/ \E s \in rxSems : OS_SemaphoreWait(s, t) \/ OS_SemaphoreSignal(s)
    BY DEF rxSems, rx!osVars, osV
  <1>3. rxSems \subseteq semaphores
    BY DEF semaphores
  <1> QED BY <1>1, <1>2, <1>3, CallsOK

\* A step inside TxFIFO moves its thread only.
LEMMA TxCalls ==
    ASSUME Kernel, Threaded, NEW t \in threads, NEW b,
           tx!PutStep(t) \/ tx!GetStep(t) \/ tx!GetCall(t) \/ tx!PutCall(t, b)
    PROVE  /\ Touches(txSems)
           /\ \E l \in Labels : txPc' = [txPc EXCEPT ![t] = l]
  <1> USE SameKernel DEF tx!PutStep, tx!GetStep, tx!GetCall, tx!PutCall, tx!PutEnter, tx!PutStore,
          tx!PutAdvance, tx!PutLeave, tx!PutReturn, tx!GetEnter, tx!GetLoad, tx!GetAdvance,
          tx!GetLeave, tx!GetReturn
  <1>1. \E l \in Labels : txPc' = [txPc EXCEPT ![t] = l]
    BY DEF tx!Goto, Labels, rx!PutLabels, rx!GetLabels
  <1>2. \/ UNCHANGED osV
        \/ \E s \in txSems : OS_SemaphoreWait(s, t) \/ OS_SemaphoreSignal(s)
    BY DEF txSems, tx!osVars, osV
  <1>3. txSems \subseteq semaphores
    BY DEF semaphores
  <1> QED BY <1>1, <1>2, <1>3, CallsOK

-----------------------------------------------------------------------------
(* The token *)

LEMMA TokenInit == Init => IInv
  <1> SUFFICES ASSUME Init PROVE IInv
    OBVIOUS
  <1>1. Kernel
    BY SerialAssumption DEF Init, OS_SemaphoreCreate, Kernel, InitialCount
  <1>2. Threaded
    BY DEF Init, Threaded, Places, Labels, rx!FIFO_Init, tx!FIFO_Init
  <1>3. Flags
    BY Zenon DEF Init, Flags
  <1>4. TxPlaces /\ Token
    BY DEF Init, TxPlaces, Token, Holding, OS_SemaphoreCreate, InitialCount, semaphores, threads,
           tx!FIFO_Init, rxSems, txSems
  <1>5. Buffered
    BY DEF Init, Buffered
  <1> QED BY <1>1, <1>2, <1>3, <1>4, <1>5 DEF IInv

\* Steps of the other threads that touch neither TxSemaphore nor the transmitter.
LEMMA Aside ==
    ASSUME IInv, NEW S, "TxSemaphore" \notin S, Touches(S), Threaded', Flags',
           UNCHANGED <<tie, tdre>>, at'["Tx"] = at["Tx"], txPc'["Tx"] = txPc["Tx"]
    PROVE  IInv'
  <1>1. /\ "TxSemaphore" \in semaphores
        /\ count'["TxSemaphore"] = count["TxSemaphore"]
        /\ waiters'["TxSemaphore"] = waiters["TxSemaphore"]
    BY DEF semaphores, Touches
  <1>2. TxPlaces'
    BY <1>1 DEF IInv, TxPlaces
  <1>3. Token' /\ Buffered'
    BY Zenon, <1>1 DEF IInv, Token, Holding, Buffered
  <1> QED BY <1>2, <1>3 DEF IInv, Touches

\* What a step of the running thread means for its places.
LEMMA StepAt ==
    ASSUME Threaded, NEW t \in threads, NEW from, NEW to \in Places, Step(t, from, to)
    PROVE  /\ at' \in [threads -> Places] /\ at[t] = from /\ at'[t] = to
           /\ \A u \in threads \ {t} : at'[u] = at[u]
           /\ rxPc[t] = "idle" /\ txPc[t] = "idle" /\ Ready(t)
  BY DEF Threaded, Step, Running

\* The line, the interrupt handler's halves and the display timer.
LEMMA HardwareOK == IInv /\ Hardware => IInv'
  <1> SUFFICES ASSUME IInv, Hardware PROVE IInv'
    OBVIOUS
  <1>1. UNCHANGED <<at, rxPc, txPc>> /\ Threaded'
    BY DEF Hardware, LineIn, LineOut, UART_ISR_Receive, UART_ISR_Transmit, DisplayTick,
       rxV, txV, IInv, Threaded
  <1>2. Flags'
    BY Zenon DEF Hardware, LineIn, LineOut, UART_ISR_Receive, UART_ISR_Transmit, DisplayTick,
       uartV, progV, histV, IInv, Flags
  <1>3. CASE LineIn \/ UART_ISR_Receive \/ DisplayTick
    <2>1. /\ UNCHANGED <<tie, tdre>>
          /\ \/ UNCHANGED osV
             \/ \E s \in {"RxSemaphore", "DisplaySemaphore"} : OS_SemaphoreSignal(s)
      BY <1>3 DEF LineIn, UART_ISR_Receive, DisplayTick, uartV
    <2>2. {"RxSemaphore", "DisplaySemaphore"} \subseteq semaphores /\ "Rx" \in threads
      BY DEF semaphores, threads
    <2>3. Touches({"RxSemaphore", "DisplaySemaphore"})
      BY <2>1, <2>2, CallsOK DEF IInv
    <2> QED BY <1>1, <1>2, <2>1, <2>3, Aside
  <1>4. CASE LineOut
    <2>1. tdre' /\ UNCHANGED <<osV, tie>>
      BY <1>4 DEF LineOut
    <2>2. Kernel' /\ TxPlaces'
      BY <1>1, <2>1 DEF osV, IInv, Kernel, TxPlaces
    <2>3. Token' /\ Buffered'
      BY Zenon, <1>1, <2>1 DEF osV, IInv, Token, Holding, Buffered
    <2> QED BY <1>1, <1>2, <2>2, <2>3 DEF IInv
  <1>5. CASE UART_ISR_Transmit
    <2>1. CASE UNCHANGED <<tie, osV>>
      <3>1. UNCHANGED tdre /\ Touches({})
        BY <1>5, <2>1 DEF UART_ISR_Transmit, IInv, Kernel, Touches, osV
      <3> QED BY <1>1, <1>2, <2>1, <3>1, Aside
    <2>2. CASE tie /\ tdre /\ ~ tie' /\ OS_SemaphoreSignal("TxSemaphore")
      <3>1. /\ count["TxSemaphore"] = 0 /\ ~ Holding /\ tdre'
            /\ at' = at /\ txPc' = txPc
        BY <1>1, <1>5, <2>2 DEF UART_ISR_Transmit, IInv, Token
      <3>2. /\ Kernel' /\ "TxSemaphore" \in semaphores
            /\ waiters["TxSemaphore"] \in SUBSET threads
        BY <2>2, CallOK DEF semaphores, threads, IInv, Touches, Kernel
      <3>3. CASE waiters["TxSemaphore"] = {}
        <4>1. count'["TxSemaphore"] = 1 /\ waiters' = waiters
          BY <2>2, <3>1, <3>2, <3>3
             DEF OS_SemaphoreSignal, Give, HandOver, IInv, Kernel
        <4>2. TxPlaces' /\ Buffered'
          BY <3>1, <4>1 DEF IInv, TxPlaces, Buffered
        <4>3. ~ Holding'
          BY <3>1, <4>1 DEF Holding
        <4>4. Token'
          BY Zenon, <2>2, <4>1, <4>3 DEF Token
        <4> QED BY <1>1, <1>2, <3>2, <4>2, <4>4 DEF IInv
      <3>4. CASE waiters["TxSemaphore"] # {}
        <4>1. waiters["TxSemaphore"] = {"Tx"} /\ at["Tx"] = "get"
          BY <3>4 DEF IInv, TxPlaces
        <4>2. count' = count /\ waiters'["TxSemaphore"] = {}
          BY <2>2, <3>2, <4>1 DEF OS_SemaphoreSignal, Give, HandOver, Urgent, IInv, Kernel
        <4>3. TxPlaces' /\ Buffered' /\ Holding'
          BY <3>1, <4>1, <4>2 DEF IInv, TxPlaces, Buffered, Holding
        <4>4. Token'
          BY Zenon, <2>2, <3>1, <4>2, <4>3 DEF Token
        <4> QED BY <1>1, <1>2, <3>2, <4>3, <4>4 DEF IInv
      <3> QED BY <3>3, <3>4
    <2> QED BY <1>5, <2>1, <2>2 DEF UART_ISR_Transmit
  <1> QED BY <1>3, <1>4, <1>5 DEF Hardware

\* A thread goes on inside one of the FIFOs.
LEMMA InsideOK ==
    ASSUME IInv, NEW t \in threads, InRxFIFO(t) \/ InTxFIFO(t)
    PROVE  IInv'
  <1>1. UNCHANGED <<at, tie, tdre>>
    BY DEF InRxFIFO, InTxFIFO, uartV
  <1>2. Flags'
    BY Zenon DEF InRxFIFO, InTxFIFO, uartV, progV, histV, IInv, Flags
  <1>3. CASE InRxFIFO(t)
    <2>1. Touches(rxSems) /\ rxPc' \in [threads -> Labels] /\ UNCHANGED txPc
      BY <1>3, RxCalls DEF InRxFIFO, txV, IInv
    <2>2. Threaded'
      BY <1>1, <2>1 DEF IInv, Threaded
    <2> QED BY <1>1, <1>2, <2>1, <2>2, Aside DEF rxSems
  <1>4. CASE InTxFIFO(t)
    <2>1. tx!PutStep(t) \/ tx!GetStep(t)
      BY <1>4 DEF InTxFIFO, tx!GetStep
    <2>2. PICK l \in Labels : txPc' = [txPc EXCEPT ![t] = l]
      BY <2>1, TxCalls DEF IInv
    <2>3. Touches(txSems) /\ UNCHANGED rxPc
      BY <1>4, <2>1, TxCalls DEF IInv, InTxFIFO, rxV
    <2>4. Threaded'
      BY <1>1, <2>2, <2>3 DEF IInv, Threaded
    <2>5. CASE t # "Tx"
      <3>1. txPc'["Tx"] = txPc["Tx"]
        BY <2>2, <2>5 DEF IInv, Threaded
      <3> QED BY <1>1, <1>2, <2>3, <2>4, <3>1, Aside DEF txSems
    <2>6. CASE t = "Tx"
      <3>1. ~ tx!PutStep("Tx")
        BY DEF IInv, TxPlaces, rx!GetLabels, tx!PutStep, tx!PutEnter, tx!PutStore, tx!PutAdvance,
               tx!PutLeave, tx!PutReturn, tx!Goto
      <3>2. /\ at["Tx"] = "enable" /\ at' = at
            /\ \/ txPc["Tx"] = "get_item" /\ txPc'["Tx"] = "get_access"
               \/ /\ txPc["Tx"] \in {"get_loaded", "get_counted", "get_left"}
                  /\ txPc'["Tx"] \in {"get_counted", "get_left", "idle"}
        BY <1>1, <1>4, <2>6, <3>1 DEF InTxFIFO, tx!GetEnter, tx!GetAdvance, tx!GetLeave,
           tx!GetReturn, tx!Goto, IInv, TxPlaces, Threaded
      <3>3. /\ "TxSemaphore" \in semaphores
            /\ count'["TxSemaphore"] = count["TxSemaphore"]
            /\ waiters'["TxSemaphore"] = waiters["TxSemaphore"]
        BY <2>3 DEF semaphores, txSems, Touches
      <3>4. TxPlaces'
        BY <3>2, <3>3 DEF IInv, TxPlaces, rx!GetLabels
      <3>5. Token'
        BY Zenon, <1>1, <3>3 DEF IInv, Token, Holding
      <3>6. tdre' = tdre /\ tie' = tie
        BY <1>1
      <3>7. Buffered'
        <4>1. CASE tdre \/ tie
          BY Zenon, <3>6, <4>1 DEF Buffered
        <4>2. CASE ~ (tdre \/ tie)
          BY <3>2, <4>2 DEF IInv, Buffered
        <4> QED BY <4>1, <4>2
      <3> QED BY <1>2, <2>3, <2>4, <3>4, <3>5, <3>7 DEF IInv, Touches
    <2> QED BY <2>5, <2>6
  <1> QED BY <1>3, <1>4

\* TxThread waits for the token, fetches a byte, fills the buffer and enables TIE.
LEMMA TxThreadOK == IInv /\ (TxWait \/ TxGet \/ TxWrite \/ TxEnable) => IInv'
  <1> SUFFICES ASSUME IInv, TxWait \/ TxGet \/ TxWrite \/ TxEnable PROVE IInv'
    OBVIOUS
  <1>1. /\ "Tx" \in threads /\ "TxSemaphore" \in semaphores
        /\ "Tx" \notin waiters["TxSemaphore"] /\ UNCHANGED rxPc
    BY DEF threads, semaphores, TxWait, TxGet, TxWrite, TxEnable, Step, Running, Ready, rxV
  <1>2. Flags'
    BY Zenon DEF TxWait, TxGet, TxWrite, TxEnable, uartV, progV, histV, IInv, Flags
  <1>3. CASE TxWait
    <2>1. /\ at["Tx"] = "wait" /\ at'["Tx"] = "get" /\ at' \in [threads -> Places]
          /\ UNCHANGED <<txPc, tie, tdre>> /\ OS_SemaphoreWait("TxSemaphore", "Tx")
      BY <1>1, <1>3, StepAt DEF TxWait, Places, IInv, txV, uartV
    <2>2. Kernel' /\ Threaded'
      BY <1>1, <2>1, CallOK DEF IInv, Threaded, Touches
    <2>3. ~ Holding
      BY <2>1 DEF Holding
    <2>4. CASE count["TxSemaphore"] > 0
      <3>1. count["TxSemaphore"] = 1 /\ ~ tie
        BY <2>3, <2>4 DEF IInv, Token
      <3>2. count'["TxSemaphore"] = 0 /\ waiters' = waiters
        BY <1>1, <2>1, <2>4, <3>1 DEF OS_SemaphoreWait, Take, Sleep, IInv, Kernel
      <3>3. TxPlaces' /\ Holding'
        BY <1>1, <2>1, <3>2 DEF IInv, TxPlaces, Holding
      <3>4. Token'
        BY Zenon, <2>1, <3>1, <3>2, <3>3 DEF Token
      <3>5. Buffered'
        BY <2>1, <3>1 DEF IInv, Buffered
      <3> QED BY <1>2, <2>2, <3>3, <3>4, <3>5 DEF IInv
    <2>5. CASE count["TxSemaphore"] = 0
      <3>1. tie
        BY <2>3, <2>5 DEF IInv, Token
      <3>2. count'["TxSemaphore"] = 0 /\ waiters'["TxSemaphore"] = {"Tx"}
        BY <1>1, <2>1, <2>5 DEF OS_SemaphoreWait, Take, Sleep, IInv, Kernel, TxPlaces
      <3>3. TxPlaces' /\ ~ Holding'
        BY <2>1, <3>2 DEF IInv, TxPlaces, Holding
      <3>4. Token' /\ Buffered'
        BY Zenon, <2>1, <3>1, <3>2, <3>3 DEF Token, Buffered
      <3> QED BY <1>2, <2>2, <3>3, <3>4 DEF IInv
    <2> QED BY <1>1, <2>4, <2>5 DEF IInv, Kernel
  <1>4. CASE TxGet
    <2>1. /\ at["Tx"] = "get" /\ at'["Tx"] = "enable" /\ at' \in [threads -> Places]
          /\ UNCHANGED <<tie, tdre>> /\ tx!GetCall("Tx")
      BY <1>1, <1>4, StepAt DEF TxGet, Places, IInv, uartV
    <2>2. PICK l \in Labels : txPc' = [txPc EXCEPT !["Tx"] = l]
      BY <1>1, <2>1, TxCalls DEF IInv
    <2>3. Touches(txSems)
      BY <1>1, <2>1, TxCalls DEF IInv
    <2>4. txPc'["Tx"] = "get_item" /\ Threaded'
      BY <1>1, <2>1, <2>2 DEF tx!GetCall, tx!Goto, IInv, Threaded
    <2>5. /\ count'["TxSemaphore"] = count["TxSemaphore"]
          /\ waiters'["TxSemaphore"] = waiters["TxSemaphore"]
      BY <1>1, <2>3 DEF txSems, Touches
    <2>6. TxPlaces' /\ Holding /\ Holding'
      BY <1>1, <2>1, <2>4, <2>5 DEF IInv, TxPlaces, Holding, rx!GetLabels
    <2>7. count["TxSemaphore"] = 0 /\ ~ tie
      BY <2>6 DEF IInv, Token
    <2>8. tdre
      BY <2>1, <2>7 DEF IInv, Buffered
    <2>9. Token' /\ Buffered'
      BY Zenon, <2>1, <2>5, <2>6, <2>7, <2>8 DEF Token, Buffered
    <2> QED BY <1>2, <2>3, <2>4, <2>6, <2>9 DEF IInv, Touches
  <1>5. CASE TxWrite
    <2>1. /\ at' = at /\ tie' = tie /\ txPc["Tx"] = "get_access" /\ txPc'["Tx"] = "get_loaded"
          /\ UNCHANGED <<count, waiters>> /\ Threaded' /\ Kernel'
      BY <1>1, <1>5 DEF TxWrite, tx!GetLoad, tx!Goto, tx!osVars, IInv, Threaded, Kernel, Labels,
         rx!GetLabels
    <2>2. at["Tx"] = "enable"
      BY <2>1 DEF IInv, TxPlaces
    <2>3. TxPlaces' /\ Buffered'
      BY <2>1, <2>2 DEF IInv, TxPlaces, Buffered, rx!GetLabels
    <2>4. Token'
      BY Zenon, <2>1 DEF IInv, Token, Holding
    <2> QED BY <1>2, <2>1, <2>3, <2>4 DEF IInv
  <1>6. CASE TxEnable
    <2>1. /\ at["Tx"] = "enable" /\ at'["Tx"] = "wait" /\ at' \in [threads -> Places] /\ tie'
          /\ UNCHANGED <<txPc, count, waiters>> /\ txPc["Tx"] = "idle"
      BY <1>1, <1>6, StepAt DEF TxEnable, Places, IInv, txV, osV
    <2>2. Kernel' /\ Threaded' /\ TxPlaces'
      BY <1>1, <2>1 DEF IInv, Kernel, Threaded, TxPlaces
    <2>3. Holding /\ ~ Holding'
      BY <1>1, <2>1 DEF Holding
    <2>4. count["TxSemaphore"] = 0
      BY <2>3 DEF IInv, Token
    <2>5. Token' /\ Buffered'
      BY Zenon, <2>1, <2>3, <2>4 DEF Token, Buffered
    <2> QED BY <1>2, <2>2, <2>5 DEF IInv
  <1> QED BY <1>3, <1>4, <1>5, <1>6

\* RxThread, ProtocolThread and DisplayThread between their calls of the FIFOs.
Others == \/ RxWait \/ RxPut \/ ProtocolIn \/ ProtocolGot \/ ProtocolPacket \/ ProtocolOut
          \/ ProtocolClose \/ DisplayWait \/ DisplayPrint \/ DisplayOut \/ DisplayDone

OtherSems == rxSems \cup txSems \cup {"RxSemaphore", "PacketSemaphore", "DisplaySemaphore"}

LEMMA OthersOK == IInv /\ Others => IInv'
  <1> SUFFICES ASSUME IInv, Others PROVE IInv'
    OBVIOUS
  <1>1. Flags' /\ UNCHANGED <<tie, tdre>>
    <2>1. Flags'
      BY Zenon DEF Others, RxWait, RxPut, ProtocolIn, ProtocolGot, ProtocolPacket, ProtocolOut,
         ProtocolClose, DisplayWait, DisplayPrint, DisplayOut, DisplayDone, uartV, progV, histV,
         IInv, Flags
    <2>2. UNCHANGED <<tie, tdre>>
      BY DEF Others, RxWait, RxPut, ProtocolIn, ProtocolGot, ProtocolPacket, ProtocolOut,
         ProtocolClose, DisplayWait, DisplayPrint, DisplayOut, DisplayDone, uartV
    <2> QED BY <2>1, <2>2
  <1>2. PICK t \in threads \ {"Tx"}, from \in Places, to \in Places : Step(t, from, to)
    BY DEF Others, RxWait, RxPut, ProtocolIn, ProtocolGot, ProtocolPacket, ProtocolOut,
       ProtocolClose, DisplayWait, DisplayPrint, DisplayOut, DisplayDone, threads, Places
  <1>3. at' \in [threads -> Places] /\ at'["Tx"] = at["Tx"]
    BY <1>2, StepAt DEF IInv, threads
  <1>4. OtherSems \subseteq semaphores /\ "TxSemaphore" \notin OtherSems
    BY DEF OtherSems, rxSems, txSems, semaphores
  <1>5. ASSUME NEW u \in threads,
               rx!GetCall(u) \/ rx!PutCall(u, TempData), UNCHANGED txPc
        PROVE  IInv'
    <2>1. Touches(rxSems) /\ rxPc' \in [threads -> Labels]
      BY <1>5, RxCalls DEF IInv
    <2>2. Threaded' /\ "TxSemaphore" \notin rxSems
      BY <1>3, <1>5, <2>1 DEF IInv, Threaded, rxSems
    <2> QED BY <1>1, <1>3, <1>5, <2>1, <2>2, Aside
  <1>6. ASSUME NEW u \in threads \ {"Tx"}, NEW b, tx!PutCall(u, b), UNCHANGED rxPc
        PROVE  IInv'
    <2>1. PICK l \in Labels : txPc' = [txPc EXCEPT ![u] = l]
      BY <1>6, TxCalls DEF IInv
    <2>2. Touches(txSems)
      BY <1>6, TxCalls DEF IInv
    <2>3. Threaded' /\ txPc'["Tx"] = txPc["Tx"] /\ "TxSemaphore" \notin txSems
      BY <1>3, <1>6, <2>1 DEF IInv, Threaded, txSems
    <2> QED BY <1>1, <1>3, <2>2, <2>3, Aside
  <1>7. ASSUME UNCHANGED <<rxPc, txPc>>,
               \/ UNCHANGED osV
               \/ \E s \in OtherSems, u \in threads :
                     OS_SemaphoreWait(s, u) \/ OS_SemaphoreSignal(s)
        PROVE  IInv'
    <2>1. Touches(OtherSems)
      BY <1>2, <1>4, <1>7, CallsOK DEF IInv
    <2>2. Threaded'
      BY <1>3, <1>7 DEF IInv, Threaded
    <2> QED BY <1>1, <1>3, <1>4, <1>7, <2>1, <2>2, Aside
  <1>8. CASE RxPut \/ ProtocolIn
    BY <1>5, <1>8 DEF RxPut, ProtocolIn, txV, threads
  <1>9. CASE ProtocolOut \/ DisplayOut
    BY <1>6, <1>9 DEF ProtocolOut, DisplayOut, rxV, threads
  <1>10. CASE ProtocolGot \/ DisplayPrint \/ DisplayDone
    BY <1>7, <1>10 DEF ProtocolGot, DisplayPrint, DisplayDone, rxV, txV
  <1>11. CASE RxWait \/ ProtocolPacket \/ ProtocolClose \/ DisplayWait
    <2>1. \E s \in OtherSems, u \in threads : OS_SemaphoreWait(s, u) \/ OS_SemaphoreSignal(s)
      BY <1>11 DEF RxWait, ProtocolPacket, ProtocolClose, DisplayWait, OtherSems, threads
    <2> QED BY <1>7, <1>11, <2>1 DEF RxWait, ProtocolPacket, ProtocolClose, DisplayWait, rxV, txV
  <1> QED BY <1>8, <1>9, <1>10, <1>11 DEF Others

\* Every step keeps the invariant.
LEMMA TokenStep == IInv /\ [Next]_vars => IInv'
  <1> SUFFICES ASSUME IInv, [Next]_vars PROVE IInv'
    OBVIOUS
  <1>1. CASE UNCHANGED vars
    <2>1. /\ UNCHANGED <<at, rxPc, txPc, count, waiters, tie, tdre>>
          /\ UNCHANGED <<masked, rdrf, overran>>
      BY <1>1 DEF vars, osV, rxV, txV, uartV, progV, histV
    <2>2. Kernel' /\ Threaded' /\ TxPlaces'
      BY <2>1 DEF IInv, Kernel, Threaded, TxPlaces
    <2>3. Flags' /\ Token' /\ Buffered'
      BY Zenon, <2>1 DEF IInv, Flags, Token, Holding, Buffered
    <2> QED BY <2>2, <2>3 DEF IInv
  <1>2. CASE Next
    <2>1. \/ Hardware \/ Others \/ TxWait \/ TxGet \/ TxWrite \/ TxEnable
          \/ \E t \in threads : InRxFIFO(t) \/ InTxFIFO(t)
      BY <1>2 DEF Next, Program, Others
    <2> QED BY <2>1, HardwareOK, OthersOK, TxThreadOK, InsideOK
  <1> QED BY <1>1, <1>2

-----------------------------------------------------------------------------

\* The token of the transmitter, and what the transmit buffer holds.
THEOREM Invariant == Spec => []IInv
  BY TokenInit, TokenStep, PTL DEF Spec

\* When TxThread writes UART2_D it holds the token, so the handler does not.
LEMMA WriteEmpty == IInv /\ TxWrite => tdre
  <1> SUFFICES ASSUME IInv, TxWrite PROVE tdre
    OBVIOUS
  <1>1. /\ txPc["Tx"] = "get_access" /\ "Tx" \notin waiters["TxSemaphore"]
    BY DEF TxWrite, tx!GetLoad, tx!Goto, Running, Ready, semaphores
  <1>2. at["Tx"] = "enable"
    BY <1>1 DEF IInv, TxPlaces
  <1>3. ~ tie
    BY <1>1, <1>2 DEF IInv, Token, Holding
  <1> QED BY <1>1, <1>3 DEF IInv, Buffered

\* TxThread never writes UART2_D while a byte is still in it.
THEOREM NoOverrun == Spec => NoTransmitOverrun
  <1>1. IInv /\ [Next]_vars => [TxWrite => tdre]_vars
    BY WriteEmpty
  <1> QED BY <1>1, Invariant, PTL DEF Spec, NoTransmitOverrun

-----------------------------------------------------------------------------
(* The FIFOs, each with its own semaphores *)

\* RxFIFO as a FIFO of its own, of which all is proved.
RxQ == INSTANCE FIFOProofs
        WITH Threads <- threads, Semaphores <- rxSems, Priority <- priority,
             count <- [s \in rxSems |-> count[s]], waiters <- [s \in rxSems |-> waiters[s]],
             fifo <- rxFIFO, pc <- rxPc, item <- rxItem,
             FIFO_SIZE <- RxSize, Bytes <- InBytes, Zero <- NoByte,
             SpaceAvailbale <- "RxSpace", BufferAccess <- "RxAccess",
             ItemsAvailable <- "RxItems"

TxQ == INSTANCE FIFOProofs
        WITH Threads <- threads, Semaphores <- txSems, Priority <- priority,
             count <- [s \in txSems |-> count[s]], waiters <- [s \in txSems |-> waiters[s]],
             fifo <- txFIFO, pc <- txPc, item <- txItem,
             FIFO_SIZE <- TxSize, Bytes <- OutBytes, Zero <- NoByte,
             SpaceAvailbale <- "TxSpace", BufferAccess <- "TxAccess",
             ItemsAvailable <- "TxItems"

LEMMA ThreadsFinite == RxQ!IsFiniteSet(threads) /\ TxQ!IsFiniteSet(threads)
  <1> DEFINE order == <<"Rx", "Protocol", "Tx", "Display">>
  <1>1. order \in Seq(threads)
    BY DEF threads
  <1>2. \A t \in threads : \E n \in 1 .. Len(order) : order[n] = t
    BY DEF threads
  <1> QED BY <1>1, <1>2 DEF RxQ!IsFiniteSet, TxQ!IsFiniteSet

\* What FIFO assumes of its constants.
LEMMA FIFOConstants == /\ RxQ!OSAssumption /\ RxQ!FIFOAssumption
                       /\ TxQ!OSAssumption /\ TxQ!FIFOAssumption
  <1>1. priority \in [threads -> Nat]
    BY DEF priority, threads
  <1>2. /\ RxSize \in Nat \ {0} /\ NoByte \in InBytes
        /\ {"RxSpace", "RxAccess", "RxItems"} \subseteq rxSems
    BY SerialAssumption DEF InBytes, rxSems
  <1>3. /\ TxSize \in Nat \ {0} /\ NoByte \in OutBytes
        /\ {"TxSpace", "TxAccess", "TxItems"} \subseteq txSems
    BY SerialAssumption DEF OutBytes, txSems
  <1> QED BY <1>1, <1>2, <1>3, ThreadsFinite
         DEF RxQ!OSAssumption, RxQ!FIFOAssumption, TxQ!OSAssumption, TxQ!FIFOAssumption

\* The bytes on their way, and the counters.
Data ==
    /\ TempData \in InBytes /\ rxData \in InBytes
    /\ sent \in [{"pc"} \cup Texts -> Nat]
    /\ NbBytesInPkt \in 0 .. PacketBytes - 1 /\ printed \in 0 .. TextBytes
    /\ isr \in {"out", "transmit"}

LEMMA DataInit == Init => Data
  BY SerialAssumption DEF Init, Data, InBytes, Texts

LEMMA DataStep == Data /\ [Next]_vars => Data'
  <1> SUFFICES ASSUME Data, [Next]_vars PROVE Data'
    OBVIOUS
  <1> USE SerialAssumption DEF Data
  <1>1. CASE UNCHANGED vars
    BY <1>1 DEF vars, uartV, progV, histV
  <1>2. CASE LineIn
    <2>1. sent'["pc"] \in Nat \ {0}
      BY <1>2 DEF LineIn
    <2>2. rxData' \in InBytes
      BY <1>2, <2>1 DEF LineIn, InBytes
    <2> QED BY <1>2, <2>2 DEF LineIn, progV
  <1>3. CASE LineOut \/ UART_ISR_Receive \/ UART_ISR_Transmit \/ DisplayTick
    BY <1>3 DEF LineOut, UART_ISR_Receive, UART_ISR_Transmit, DisplayTick, uartV, progV, histV
  <1>4. CASE \E t \in threads : InRxFIFO(t) \/ InTxFIFO(t)
    BY <1>4 DEF InRxFIFO, InTxFIFO, uartV, progV, histV
  <1>5. CASE RxWait \/ RxPut \/ TxWait \/ TxGet \/ TxWrite \/ TxEnable
    BY <1>5 DEF RxWait, RxPut, TxWait, TxGet, TxWrite, TxEnable, uartV, progV, histV
  <1>6. CASE ProtocolIn \/ ProtocolPacket \/ ProtocolOut \/ ProtocolClose
    BY <1>6 DEF ProtocolIn, ProtocolPacket, ProtocolOut, ProtocolClose, uartV, progV, histV
  <1>7. CASE ProtocolGot
    BY <1>7 DEF ProtocolGot, uartV
  <1>8. CASE DisplayWait \/ DisplayPrint \/ DisplayDone
    BY <1>8 DEF DisplayWait, DisplayPrint, DisplayDone, uartV, progV, histV
  <1>9. CASE DisplayOut
    <2>1. printed < TextBytes /\ printed' = printed + 1 /\ TextBytes \in Nat
      BY <1>9 DEF DisplayOut
    <2>2. printed' \in 0 .. TextBytes
      BY <2>1
    <2>3. /\ sent' \in [{"pc"} \cup Texts -> Nat]
          /\ UNCHANGED <<TempData, rxData, isr, NbBytesInPkt>>
      BY <1>9 DEF DisplayOut, uartV, Texts
    <2> QED BY <2>2, <2>3
  <1> QED BY <1>1, <1>2, <1>3, <1>4, <1>5, <1>6, <1>7, <1>8, <1>9 DEF Next, Hardware, Program

\* A kernel call of one of a FIFO's semaphores is the call of that FIFO.
LEMMA RxKernel ==
    ASSUME Kernel, NEW s \in rxSems, NEW t \in threads
    PROVE  /\ rx!OS_SemaphoreWait(s, t) => RxQ!OS_SemaphoreWait(s, t)
           /\ rx!OS_SemaphoreSignal(s) => RxQ!OS_SemaphoreSignal(s)
           /\ rx!Ready(t) => RxQ!Ready(t)
  <1> USE DEF Kernel, semaphores
  <1>1. rx!OS_SemaphoreWait(s, t) => RxQ!OS_SemaphoreWait(s, t)
    BY DEF rx!OS_SemaphoreWait, rx!Take, rx!Sleep,
           RxQ!OS_SemaphoreWait, RxQ!Take, RxQ!Sleep
  <1>2. rx!OS_SemaphoreSignal(s) => RxQ!OS_SemaphoreSignal(s)
    BY DEF rx!OS_SemaphoreSignal, rx!Give, rx!HandOver, rx!Urgent,
           RxQ!OS_SemaphoreSignal, RxQ!Give, RxQ!HandOver, RxQ!Urgent
  <1>3. rx!Ready(t) => RxQ!Ready(t)
    BY DEF rx!Ready, RxQ!Ready
  <1> QED BY <1>1, <1>2, <1>3

LEMMA TxKernel ==
    ASSUME Kernel, NEW s \in txSems, NEW t \in threads
    PROVE  /\ tx!OS_SemaphoreWait(s, t) => TxQ!OS_SemaphoreWait(s, t)
           /\ tx!OS_SemaphoreSignal(s) => TxQ!OS_SemaphoreSignal(s)
           /\ tx!Ready(t) => TxQ!Ready(t)
  <1> USE DEF Kernel, semaphores
  <1>1. tx!OS_SemaphoreWait(s, t) => TxQ!OS_SemaphoreWait(s, t)
    BY DEF tx!OS_SemaphoreWait, tx!Take, tx!Sleep,
           TxQ!OS_SemaphoreWait, TxQ!Take, TxQ!Sleep
  <1>2. tx!OS_SemaphoreSignal(s) => TxQ!OS_SemaphoreSignal(s)
    BY DEF tx!OS_SemaphoreSignal, tx!Give, tx!HandOver, tx!Urgent,
           TxQ!OS_SemaphoreSignal, TxQ!Give, TxQ!HandOver, TxQ!Urgent
  <1>3. tx!Ready(t) => TxQ!Ready(t)
    BY DEF tx!Ready, TxQ!Ready
  <1> QED BY <1>1, <1>2, <1>3

\* A step inside RxFIFO is a step of that FIFO.
LEMMA RxMoves ==
    ASSUME Kernel, NEW t \in threads
    PROVE  /\ rx!PutStep(t) => RxQ!PutStep(t)
           /\ rx!GetStep(t) => RxQ!GetStep(t)
           /\ rx!GetCall(t) => RxQ!GetCall(t)
           /\ \A b : rx!PutCall(t, b) => RxQ!PutCall(t, b)
  <1>1. \A s \in rxSems : /\ rx!OS_SemaphoreWait(s, t) => RxQ!OS_SemaphoreWait(s, t)
                          /\ rx!OS_SemaphoreSignal(s) => RxQ!OS_SemaphoreSignal(s)
    BY RxKernel
  <1>2. {"RxSpace", "RxAccess", "RxItems"} \subseteq rxSems
    BY DEF rxSems
  <1>3. \A from, to : rx!Goto(t, from, to) => RxQ!Goto(t, from, to)
    BY RxKernel, <1>2 DEF rx!Goto, RxQ!Goto
  <1>4. UNCHANGED rx!osVars => UNCHANGED RxQ!osVars
    BY DEF rx!osVars, RxQ!osVars
  <1>5. /\ rx!PutEnter(t) => RxQ!PutEnter(t)
        /\ rx!PutLeave(t) => RxQ!PutLeave(t)
        /\ rx!PutReturn(t) => RxQ!PutReturn(t)
        /\ rx!GetEnter(t) => RxQ!GetEnter(t)
        /\ rx!GetLeave(t) => RxQ!GetLeave(t)
        /\ rx!GetReturn(t) => RxQ!GetReturn(t)
        /\ rx!GetCall(t) => RxQ!GetCall(t)
        /\ \A b : rx!PutCall(t, b) => RxQ!PutCall(t, b)
    BY <1>1, <1>2, <1>3
       DEF rx!PutEnter, rx!PutLeave, rx!PutReturn, rx!GetEnter, rx!GetLeave, rx!GetReturn,
           rx!GetCall, rx!PutCall, RxQ!PutEnter, RxQ!PutLeave, RxQ!PutReturn, RxQ!GetEnter,
           RxQ!GetLeave, RxQ!GetReturn, RxQ!GetCall, RxQ!PutCall
  <1>6. /\ rx!PutStore(t) => RxQ!PutStore(t)
        /\ rx!PutAdvance(t) => RxQ!PutAdvance(t)
        /\ rx!GetLoad(t) => RxQ!GetLoad(t)
        /\ rx!GetAdvance(t) => RxQ!GetAdvance(t)
    BY <1>3, <1>4
       DEF rx!PutStore, rx!PutAdvance, rx!GetLoad, rx!GetAdvance, rx!After,
           RxQ!PutStore, RxQ!PutAdvance, RxQ!GetLoad, RxQ!GetAdvance, RxQ!After
  <1> QED BY Zenon, <1>5, <1>6 DEF rx!PutStep, RxQ!PutStep, rx!GetStep, RxQ!GetStep

\* A step inside TxFIFO is a step of that FIFO.
LEMMA TxMoves ==
    ASSUME Kernel, NEW t \in threads
    PROVE  /\ tx!PutStep(t) => TxQ!PutStep(t)
           /\ tx!GetStep(t) => TxQ!GetStep(t)
           /\ tx!GetCall(t) => TxQ!GetCall(t)
           /\ \A b : tx!PutCall(t, b) => TxQ!PutCall(t, b)
  <1>1. \A s \in txSems : /\ tx!OS_SemaphoreWait(s, t) => TxQ!OS_SemaphoreWait(s, t)
                          /\ tx!OS_SemaphoreSignal(s) => TxQ!OS_SemaphoreSignal(s)
    BY TxKernel
  <1>2. {"TxSpace", "TxAccess", "TxItems"} \subseteq txSems
    BY DEF txSems
  <1>3. \A from, to : tx!Goto(t, from, to) => TxQ!Goto(t, from, to)
    BY TxKernel, <1>2 DEF tx!Goto, TxQ!Goto
  <1>4. UNCHANGED tx!osVars => UNCHANGED TxQ!osVars
    BY DEF tx!osVars, TxQ!osVars
  <1>5. /\ tx!PutEnter(t) => TxQ!PutEnter(t)
        /\ tx!PutLeave(t) => TxQ!PutLeave(t)
        /\ tx!PutReturn(t) => TxQ!PutReturn(t)
        /\ tx!GetEnter(t) => TxQ!GetEnter(t)
        /\ tx!GetLeave(t) => TxQ!GetLeave(t)
        /\ tx!GetReturn(t) => TxQ!GetReturn(t)
        /\ tx!GetCall(t) => TxQ!GetCall(t)
        /\ \A b : tx!PutCall(t, b) => TxQ!PutCall(t, b)
    BY <1>1, <1>2, <1>3
       DEF tx!PutEnter, tx!PutLeave, tx!PutReturn, tx!GetEnter, tx!GetLeave, tx!GetReturn,
           tx!GetCall, tx!PutCall, TxQ!PutEnter, TxQ!PutLeave, TxQ!PutReturn, TxQ!GetEnter,
           TxQ!GetLeave, TxQ!GetReturn, TxQ!GetCall, TxQ!PutCall
  <1>6. /\ tx!PutStore(t) => TxQ!PutStore(t)
        /\ tx!PutAdvance(t) => TxQ!PutAdvance(t)
        /\ tx!GetLoad(t) => TxQ!GetLoad(t)
        /\ tx!GetAdvance(t) => TxQ!GetAdvance(t)
    BY <1>3, <1>4
       DEF tx!PutStore, tx!PutAdvance, tx!GetLoad, tx!GetAdvance, tx!After,
           TxQ!PutStore, TxQ!PutAdvance, TxQ!GetLoad, TxQ!GetAdvance, TxQ!After
  <1> QED BY Zenon, <1>5, <1>6 DEF tx!PutStep, TxQ!PutStep, tx!GetStep, TxQ!GetStep

\* A step that is in none of a FIFO's calls leaves that FIFO as it is.
LEMMA RxRests ==
    ASSUME NEW S, S \cap rxSems = {}, Touches(S), UNCHANGED rxV
    PROVE  UNCHANGED RxQ!vars
  <1>1. UNCHANGED <<[s \in rxSems |-> count[s]], [s \in rxSems |-> waiters[s]]>>
    BY DEF Touches, semaphores
  <1> QED BY <1>1 DEF rxV, RxQ!vars, RxQ!fifoVars, RxQ!osVars

LEMMA TxRests ==
    ASSUME NEW S, S \cap txSems = {}, Touches(S), UNCHANGED txV
    PROVE  UNCHANGED TxQ!vars
  <1>1. UNCHANGED <<[s \in txSems |-> count[s]], [s \in txSems |-> waiters[s]]>>
    BY DEF Touches, semaphores
  <1> QED BY <1>1 DEF txV, TxQ!vars, TxQ!fifoVars, TxQ!osVars

\* The steps in terms of the two FIFOs: a call of one of them, or of neither.
LEMMA Divided ==
    ASSUME IInv, Data, [Next]_vars
    PROVE  \/ \E t \in threads :
                 /\ rx!PutStep(t) \/ rx!GetStep(t) \/ rx!GetCall(t) \/ rx!PutCall(t, TempData)
                 /\ UNCHANGED txV
           \/ \E t \in threads, b \in OutBytes :
                 /\ tx!PutStep(t) \/ tx!GetStep(t) \/ tx!GetCall(t) \/ tx!PutCall(t, b)
                 /\ UNCHANGED rxV
           \/ \E S : S \cap (rxSems \cup txSems) = {} /\ Touches(S) /\ UNCHANGED <<rxV, txV>>
  <1> DEFINE Mine == {"RxSemaphore", "TxSemaphore", "PacketSemaphore", "DisplaySemaphore"}
  <1>1. Mine \subseteq semaphores /\ Mine \cap (rxSems \cup txSems) = {} /\ "Rx" \in threads
        /\ NoByte \in OutBytes
    BY DEF semaphores, rxSems, txSems, threads, OutBytes
  <1>2. CASE UNCHANGED vars
    <2>1. Touches(Mine)
      BY <1>1, <1>2, CallsOK DEF vars, IInv
    <2> QED BY Zenon, <1>1, <1>2, <2>1 DEF vars
  <1>3. CASE Hardware
    <2>1. UNCHANGED <<rxV, txV>> /\ (UNCHANGED osV \/ \E s \in Mine : OS_SemaphoreSignal(s))
      BY <1>3 DEF Hardware, LineIn, LineOut, UART_ISR_Receive, UART_ISR_Transmit, DisplayTick
    <2>2. Touches(Mine)
      BY <1>1, <2>1, CallsOK DEF IInv
    <2> QED BY <1>1, <2>1, <2>2
  <1>4. CASE \E t \in threads : InRxFIFO(t) \/ InTxFIFO(t)
    BY Zenon, <1>1, <1>4 DEF InRxFIFO, InTxFIFO, tx!GetStep
  <1>5. CASE RxPut \/ ProtocolIn
    BY <1>5 DEF RxPut, ProtocolIn, threads
  <1>6. CASE TxGet
    BY <1>1, <1>6 DEF TxGet, threads
  <1>7. CASE TxWrite
    BY <1>1, <1>7 DEF TxWrite, threads, tx!GetStep
  <1>8. CASE ProtocolOut
    <2>1. <<"packet", sent'["packet"]>> \in OutBytes
      BY <1>8 DEF ProtocolOut, Data, OutBytes, Texts
    <2> QED BY <1>8, <2>1 DEF ProtocolOut, threads
  <1>9. CASE DisplayOut
    <2>1. <<"text", sent'["text"]>> \in OutBytes
      BY <1>9 DEF DisplayOut, Data, OutBytes, Texts
    <2> QED BY <1>9, <2>1 DEF DisplayOut, threads
  <1>10. CASE RxWait \/ TxWait \/ ProtocolPacket \/ ProtocolClose \/ DisplayWait
    <2>1. UNCHANGED <<rxV, txV>>
          /\ \E s \in Mine, t \in threads : OS_SemaphoreWait(s, t) \/ OS_SemaphoreSignal(s)
      BY <1>10 DEF RxWait, TxWait, ProtocolPacket, ProtocolClose, DisplayWait, threads
    <2>2. Touches(Mine)
      BY <1>1, <2>1, CallsOK DEF IInv
    <2> QED BY <1>1, <2>1, <2>2
  <1>11. CASE TxEnable \/ ProtocolGot \/ DisplayPrint \/ DisplayDone
    <2>1. UNCHANGED <<rxV, txV, osV>>
      BY <1>11 DEF TxEnable, ProtocolGot, DisplayPrint, DisplayDone
    <2>2. Touches(Mine)
      BY <1>1, <2>1, CallsOK DEF IInv
    <2> QED BY <1>1, <2>1, <2>2
  <1> QED BY <1>2, <1>3, <1>4, <1>5, <1>6, <1>7, <1>8, <1>9, <1>10, <1>11 DEF Next, Program

\* Every step is one of RxFIFO or leaves it alone; and so for TxFIFO.
LEMMA RxNext == IInv /\ Data /\ [Next]_vars => [RxQ!Next]_(RxQ!vars)
  <1> SUFFICES ASSUME IInv, Data, [Next]_vars PROVE [RxQ!Next]_(RxQ!vars)
    OBVIOUS
  <1>1. TempData \in InBytes /\ Kernel
    BY DEF Data, IInv
  <1>2. ASSUME NEW t \in threads,
               rx!PutStep(t) \/ rx!GetStep(t) \/ rx!GetCall(t) \/ rx!PutCall(t, TempData)
        PROVE  RxQ!Next
    BY <1>1, <1>2, RxMoves DEF RxQ!Next
  <1>3. ASSUME NEW S, S \cap rxSems = {}, Touches(S), UNCHANGED rxV
        PROVE  UNCHANGED RxQ!vars
    BY <1>3, RxRests
  <1>4. ASSUME NEW t \in threads, NEW b \in OutBytes,
               tx!PutStep(t) \/ tx!GetStep(t) \/ tx!GetCall(t) \/ tx!PutCall(t, b)
        PROVE  Touches(txSems) /\ txSems \cap rxSems = {}
    BY <1>1, <1>4, TxCalls DEF IInv, txSems, rxSems
  <1> QED BY <1>2, <1>3, <1>4, Divided

LEMMA TxNext == IInv /\ Data /\ [Next]_vars => [TxQ!Next]_(TxQ!vars)
  <1> SUFFICES ASSUME IInv, Data, [Next]_vars PROVE [TxQ!Next]_(TxQ!vars)
    OBVIOUS
  <1>1. Kernel
    BY DEF IInv
  <1>2. ASSUME NEW t \in threads, NEW b \in OutBytes,
               tx!PutStep(t) \/ tx!GetStep(t) \/ tx!GetCall(t) \/ tx!PutCall(t, b)
        PROVE  TxQ!Next
    BY <1>1, <1>2, TxMoves DEF TxQ!Next
  <1>3. ASSUME NEW S, S \cap txSems = {}, Touches(S), UNCHANGED txV
        PROVE  UNCHANGED TxQ!vars
    BY <1>3, TxRests
  <1>4. ASSUME NEW t \in threads,
               rx!PutStep(t) \/ rx!GetStep(t) \/ rx!GetCall(t) \/ rx!PutCall(t, TempData)
        PROVE  Touches(rxSems) /\ rxSems \cap txSems = {}
    BY <1>1, <1>4, RxCalls DEF IInv, txSems, rxSems
  <1> QED BY <1>2, <1>3, <1>4, Divided

LEMMA FIFOsInit == Init => RxQ!Init /\ TxQ!Init
  <1> SUFFICES ASSUME Init PROVE RxQ!Init /\ TxQ!Init
    OBVIOUS
  <1>1. RxQ!FIFO_Init /\ TxQ!FIFO_Init
    BY DEF Init, rx!FIFO_Init, tx!FIFO_Init, RxQ!FIFO_Init, TxQ!FIFO_Init, rx!Slots, tx!Slots,
           RxQ!Slots, TxQ!Slots
  <1>2. /\ [s \in rxSems |-> count[s]] = [s \in rxSems |-> RxQ!InitialCount(s)]
        /\ [s \in txSems |-> count[s]] = [s \in txSems |-> TxQ!InitialCount(s)]
    BY DEF Init, OS_SemaphoreCreate, InitialCount, RxQ!InitialCount, TxQ!InitialCount,
           semaphores, rxSems, txSems
  <1>3. /\ [s \in rxSems |-> waiters[s]] = [s \in rxSems |-> {}]
        /\ [s \in txSems |-> waiters[s]] = [s \in txSems |-> {}]
    BY DEF Init, OS_SemaphoreCreate, semaphores
  <1> QED BY <1>1, <1>2, <1>3
         DEF RxQ!Init, TxQ!Init, RxQ!OS_SemaphoreCreate, TxQ!OS_SemaphoreCreate

\* What the hardware and the threads do to RxFIFO and TxFIFO is what FIFO lets its
\* threads do: the serial port's FIFOs have everything that is proved of FIFO.
THEOREM SerialFIFOs == Spec => RxQ!Spec /\ TxQ!Spec
  BY FIFOsInit, TokenInit, TokenStep, DataInit, DataStep, RxNext, TxNext, PTL
     DEF Spec, RxQ!Spec, TxQ!Spec

\* So RxFIFO and TxFIFO are two bounded queues, whatever preempts whom.
THEOREM SerialQueues == Spec => RxQ!LinearizableQueue /\ TxQ!LinearizableQueue
  <1>1. RxQ!Spec => RxQ!LinearizableQueue
    BY FIFOConstants, RxQ!Linearizable
  <1>2. TxQ!Spec => TxQ!LinearizableQueue
    BY FIFOConstants, TxQ!Linearizable
  <1> QED BY <1>1, <1>2, SerialFIFOs

-----------------------------------------------------------------------------
(* The steps of each thread *)

\* What is proved of the FIFOs, and of the token, holds in every state.
Base == /\ IInv /\ Data
        /\ RxQ!IInv /\ RxQ!RInv /\ RxQ!TypeOK /\ RxQ!NoLostWakeup
        /\ TxQ!IInv /\ TxQ!TypeOK /\ TxQ!NoLostWakeup

LEMMA BaseInvariant == Spec => []Base
  <1>1. RxQ!Spec => []RxQ!IInv /\ []RxQ!RInv /\ []RxQ!TypeOK /\ []RxQ!NoLostWakeup
    BY FIFOConstants, RxQ!Invariant, RxQ!RingInvariant, RxQ!TypeCorrect, RxQ!Wakeup
  <1>2. TxQ!Spec => []TxQ!IInv /\ []TxQ!TypeOK /\ []TxQ!NoLostWakeup
    BY FIFOConstants, TxQ!Invariant, TxQ!TypeCorrect, TxQ!Wakeup
  <1> QED BY <1>1, <1>2, SerialFIFOs, Invariant, DataInit, DataStep, PTL DEF Spec, Base

\* The actions of each thread.
RxActs == RxWait \/ RxPut \/ InRxFIFO("Rx") \/ InTxFIFO("Rx")
TxActs == TxWait \/ TxGet \/ TxWrite \/ TxEnable \/ InRxFIFO("Tx") \/ InTxFIFO("Tx")
ProtocolActs == \/ ProtocolIn \/ ProtocolGot \/ ProtocolPacket \/ ProtocolOut \/ ProtocolClose
                \/ InRxFIFO("Protocol") \/ InTxFIFO("Protocol")
DisplayActs == \/ DisplayWait \/ DisplayPrint \/ DisplayOut \/ DisplayDone
               \/ InRxFIFO("Display") \/ InTxFIFO("Display")

LEMMA Actors == Next => Hardware \/ RxActs \/ TxActs \/ ProtocolActs \/ DisplayActs
  BY DEF Next, Program, threads, RxActs, TxActs, ProtocolActs, DisplayActs

\* A step of t that touches s besides the semaphores of the FIFOs.
Frame(t, s) ==
    /\ Touches({s} \cup rxSems \cup txSems)
    /\ \A u \in threads \ {t} :
           at'[u] = at[u] /\ rxPc'[u] = rxPc[u] /\ txPc'[u] = txPc[u]

\* A step within a FIFO, of one thread.
LEMMA WithinRx ==
    ASSUME IInv, NEW t \in threads, NEW s \in semaphores,
           rx!PutStep(t) \/ rx!GetStep(t) \/ rx!GetCall(t) \/ rx!PutCall(t, TempData),
           UNCHANGED txPc, \A u \in threads \ {t} : at'[u] = at[u]
    PROVE  Frame(t, s)
  <1>1. Touches({s} \cup rxSems \cup txSems)
    BY RxCalls DEF IInv, Touches
  <1>2. \A u \in threads \ {t} : rxPc'[u] = rxPc[u]
    BY DEF IInv, Threaded, rx!PutStep, rx!GetStep, rx!GetCall, rx!PutCall, rx!PutEnter, rx!PutStore,
          rx!PutAdvance, rx!PutLeave, rx!PutReturn, rx!GetEnter, rx!GetLoad, rx!GetAdvance,
          rx!GetLeave, rx!GetReturn, rx!Goto
  <1> QED BY <1>1, <1>2 DEF Frame

LEMMA WithinTx ==
    ASSUME IInv, NEW t \in threads, NEW s \in semaphores, NEW b,
           tx!PutStep(t) \/ tx!GetStep(t) \/ tx!GetCall(t) \/ tx!PutCall(t, b),
           UNCHANGED rxPc, \A u \in threads \ {t} : at'[u] = at[u]
    PROVE  Frame(t, s)
  <1>1. Touches({s} \cup rxSems \cup txSems)
    BY TxCalls DEF IInv, Touches
  <1>2. \A u \in threads \ {t} : txPc'[u] = txPc[u]
    BY TxCalls DEF IInv, Threaded
  <1> QED BY <1>1, <1>2 DEF Frame

\* A step outside both FIFOs, of one thread.
LEMMA Without ==
    ASSUME IInv, NEW t \in threads, NEW s \in semaphores, UNCHANGED <<rxPc, txPc>>,
           \A u \in threads \ {t} : at'[u] = at[u],
           UNCHANGED osV \/ OS_SemaphoreWait(s, t) \/ OS_SemaphoreSignal(s)
    PROVE  Frame(t, s)
  <1>1. Touches({s})
    BY CallsOK DEF IInv
  <1>2. Touches({s} \cup rxSems \cup txSems)
    BY <1>1 DEF Touches
  <1> QED BY <1>2 DEF Frame

LEMMA Frames ==
    ASSUME IInv
    PROVE  /\ RxActs => Frame("Rx", "RxSemaphore")
           /\ TxActs => Frame("Tx", "TxSemaphore")
           /\ ProtocolActs => Frame("Protocol", "PacketSemaphore")
           /\ DisplayActs => Frame("Display", "DisplaySemaphore")
  <1>1. /\ {"RxSemaphore", "TxSemaphore", "PacketSemaphore", "DisplaySemaphore"} \subseteq semaphores
        /\ {"Rx", "Tx", "Protocol", "Display"} \subseteq threads
    BY DEF semaphores, threads
  <1>2. ASSUME NEW t \in threads, NEW s \in semaphores, InRxFIFO(t) \/ InTxFIFO(t)
        PROVE  Frame(t, s)
    BY <1>2, WithinRx, WithinTx DEF InRxFIFO, InTxFIFO, rxV, txV, tx!GetStep
  <1>3. ASSUME NEW t \in threads, NEW from, NEW to, Step(t, from, to)
        PROVE  \A u \in threads \ {t} : at'[u] = at[u]
    BY <1>3 DEF Step, IInv, Threaded
  <1>4. RxActs => Frame("Rx", "RxSemaphore")
    <2>1. CASE RxWait
      BY <1>1, <1>3, <2>1, Without DEF RxWait, rxV, txV
    <2>2. CASE RxPut
      BY <1>1, <1>3, <2>2, WithinRx DEF RxPut, txV
    <2> QED BY <1>1, <1>2, <2>1, <2>2 DEF RxActs
  <1>5. TxActs => Frame("Tx", "TxSemaphore")
    <2>1. CASE TxWait \/ TxEnable
      BY <1>1, <1>3, <2>1, Without DEF TxWait, TxEnable, rxV, txV
    <2>2. CASE TxGet
      BY <1>1, <1>3, <2>2, WithinTx DEF TxGet, rxV
    <2>3. CASE TxWrite
      <3>1. tx!GetStep("Tx") /\ UNCHANGED <<at, rxPc>>
        BY <2>3 DEF TxWrite, tx!GetStep, rxV
      <3> QED BY <1>1, <3>1, WithinTx
    <2> QED BY <1>1, <1>2, <2>1, <2>2, <2>3 DEF TxActs
  <1>6. ProtocolActs => Frame("Protocol", "PacketSemaphore")
    <2>1. CASE ProtocolGot \/ ProtocolPacket \/ ProtocolClose
      BY <1>1, <1>3, <2>1, Without DEF ProtocolGot, ProtocolPacket, ProtocolClose, rxV, txV
    <2>2. CASE ProtocolIn
      BY <1>1, <1>3, <2>2, WithinRx DEF ProtocolIn, txV
    <2>3. CASE ProtocolOut
      BY <1>1, <1>3, <2>3, WithinTx DEF ProtocolOut, rxV
    <2> QED BY <1>1, <1>2, <2>1, <2>2, <2>3 DEF ProtocolActs
  <1>7. DisplayActs => Frame("Display", "DisplaySemaphore")
    <2>1. CASE DisplayWait \/ DisplayPrint \/ DisplayDone
      BY <1>1, <1>3, <2>1, Without DEF DisplayWait, DisplayPrint, DisplayDone, rxV, txV
    <2>2. CASE DisplayOut
      BY <1>1, <1>3, <2>2, WithinTx DEF DisplayOut, rxV
    <2> QED BY <1>1, <1>2, <2>1, <2>2 DEF DisplayActs
  <1> QED BY <1>4, <1>5, <1>6, <1>7

-----------------------------------------------------------------------------
(* Types *)

Streams == delivered \in Seq(InBytes) /\ wire \in Seq(OutBytes) /\ txData \in OutBytes

LEMMA StreamsStep == Base /\ Base' /\ Streams /\ [Next]_vars => Streams'
  <1> SUFFICES ASSUME Base, Base', Streams, [Next]_vars PROVE Streams'
    OBVIOUS
  <1>1. /\ {"Protocol", "Tx"} \subseteq threads
        /\ rxItem \in [threads -> InBytes] /\ txItem' \in [threads -> OutBytes]
    BY DEF threads, Base, RxQ!TypeOK, TxQ!TypeOK
  <1>2. CASE LineOut
    BY <1>2 DEF LineOut, Streams
  <1>3. CASE TxWrite
    BY <1>1, <1>3 DEF TxWrite, Streams, histV
  <1>4. CASE ProtocolGot
    BY <1>1, <1>4 DEF ProtocolGot, Streams, uartV
  <1>5. ASSUME ~ LineOut, ~ TxWrite, ~ ProtocolGot
        PROVE  UNCHANGED <<delivered, wire, txData>>
    BY <1>5 DEF Next, Hardware, Program, LineIn, UART_ISR_Receive, UART_ISR_Transmit, DisplayTick,
       InRxFIFO, InTxFIFO, RxWait, RxPut, TxWait, TxGet, TxEnable, ProtocolIn, ProtocolPacket,
       ProtocolOut, ProtocolClose, DisplayWait, DisplayPrint, DisplayOut, DisplayDone,
       vars, uartV, histV
  <1> QED BY <1>2, <1>3, <1>4, <1>5 DEF Streams

\* Every variable of the serial port keeps its type.
THEOREM TypeCorrect == Spec => []TypeOK
  <1>1. Init => Streams
    BY DEF Init, Streams, OutBytes
  <1>2. Base /\ Streams => TypeOK
    <2> SUFFICES ASSUME Base, Streams PROVE TypeOK
      OBVIOUS
    <2>1. rx!TypeOK
      BY DEF Base, IInv, Kernel, RxQ!TypeOK, RxQ!TFIFO, RxQ!Slots, RxQ!PutLabels, RxQ!GetLabels,
         rx!TypeOK, rx!TFIFO, rx!Slots, rx!PutLabels, rx!GetLabels
    <2>2. tx!TypeOK
      BY DEF Base, IInv, Kernel, TxQ!TypeOK, TxQ!TFIFO, TxQ!Slots, TxQ!PutLabels, TxQ!GetLabels,
         tx!TypeOK, tx!TFIFO, tx!Slots, tx!PutLabels, tx!GetLabels
    <2>3. {masked, rdrf, tdre, tie, overran} \subseteq BOOLEAN
      BY DEF Base, IInv, Flags
    <2> QED BY <2>1, <2>2, <2>3 DEF TypeOK, Base, IInv, Threaded, Places, Data, Streams
  <1> QED BY <1>1, <1>2, BaseInvariant, StreamsStep, PTL DEF Spec

-----------------------------------------------------------------------------
(* Where the threads are *)

\* Only t waits for s, and then none is left.
Sleeper(t, s) == waiters[s] \subseteq {t} /\ (t \in waiters[s] => count[s] = 0)

\* RxThread puts, and sleeps for the next byte before it does.
RxPlaces ==
    /\ at["Rx"] \in {"wait", "put"}
    /\ txPc["Rx"] = "idle" /\ rxPc["Rx"] \in {"idle"} \cup rx!PutLabels
    /\ at["Rx"] = "put" => rxPc["Rx"] = "idle"
    /\ Sleeper("Rx", "RxSemaphore")
    /\ "Rx" \in waiters["RxSemaphore"] => at["Rx"] = "put"

\* TxThread has nothing to do with RxFIFO.
TxApart == rxPc["Tx"] = "idle" /\ Sleeper("Tx", "TxSemaphore")

\* ProtocolThread gets a byte, or puts those of one packet with PacketSemaphore
\* in its hands.
ProtocolPlaces ==
    /\ at["Protocol"] \in {"in", "got", "packet", "out", "close"}
    /\ rxPc["Protocol"] \in {"idle"} \cup rx!GetLabels
    /\ rxPc["Protocol"] # "idle" => at["Protocol"] = "got"
    /\ txPc["Protocol"] \in {"idle"} \cup rx!PutLabels
    /\ txPc["Protocol"] # "idle" => at["Protocol"] \in {"out", "close"}
    /\ waiters["PacketSemaphore"] = {}
    /\ count["PacketSemaphore"] = IF at["Protocol"] \in {"out", "close"} THEN 0 ELSE 1
    /\ at["Protocol"] # "out" => sent["packet"] % PacketBytes = 0

\* DisplayThread puts, and sleeps for the next tick before it prints.
DisplayPlaces ==
    /\ at["Display"] \in {"wait", "print", "out"}
    /\ rxPc["Display"] = "idle" /\ txPc["Display"] \in {"idle"} \cup rx!PutLabels
    /\ txPc["Display"] # "idle" => at["Display"] = "out"
    /\ Sleeper("Display", "DisplaySemaphore")
    /\ "Display" \in waiters["DisplaySemaphore"] => at["Display"] = "print"

AllPlaces == RxPlaces /\ TxApart /\ ProtocolPlaces /\ DisplayPlaces

\* A signal wakes the sleeper or leaves a unit.
LEMMA Signalled ==
    ASSUME Kernel, NEW s \in semaphores, NEW t \in threads, Sleeper(t, s), OS_SemaphoreSignal(s)
    PROVE  /\ Sleeper(t, s)' /\ waiters'[s] = {}
           /\ count'[s] = IF t \in waiters[s] THEN count[s] ELSE count[s] + 1
  BY DEF Kernel, Sleeper, OS_SemaphoreSignal, Give, HandOver

\* A wait takes a unit or puts the caller to sleep.
LEMMA Waited ==
    ASSUME Kernel, NEW s \in semaphores, NEW t \in threads, Sleeper(t, s), t \notin waiters[s],
           OS_SemaphoreWait(s, t)
    PROVE  /\ Sleeper(t, s)'
           /\ count[s] = IF t \in waiters'[s] THEN count'[s] ELSE count'[s] + 1
  BY DEF Kernel, Sleeper, OS_SemaphoreWait, Take, Sleep

\* What the hardware may do to the semaphores.
LEMMA HardwareSignals ==
    ASSUME IInv, Hardware, NEW s \in semaphores
    PROVE  /\ UNCHANGED <<at, rxPc, txPc>>
           /\ \/ count'[s] = count[s] /\ waiters'[s] = waiters[s]
              \/ /\ s \in {"RxSemaphore", "TxSemaphore", "DisplaySemaphore"}
                 /\ OS_SemaphoreSignal(s)
  <1>1. UNCHANGED <<at, rxPc, txPc>>
    BY DEF Hardware, LineIn, LineOut, UART_ISR_Receive, UART_ISR_Transmit, DisplayTick, rxV, txV
  <1>2. \/ UNCHANGED osV
        \/ \E r \in {"RxSemaphore", "TxSemaphore", "DisplaySemaphore"} : OS_SemaphoreSignal(r)
    BY DEF Hardware, LineIn, LineOut, UART_ISR_Receive, UART_ISR_Transmit, DisplayTick
  <1>3. ASSUME NEW r \in {"RxSemaphore", "TxSemaphore", "DisplaySemaphore"}, OS_SemaphoreSignal(r)
        PROVE  s = r \/ (count'[s] = count[s] /\ waiters'[s] = waiters[s])
    BY <1>3 DEF OS_SemaphoreSignal, Give, HandOver, IInv, Kernel
  <1> QED BY <1>1, <1>2, <1>3 DEF osV

\* A thread inside a FIFO.
LEMMA InsideRx ==
    ASSUME IInv, NEW t \in threads, InRxFIFO(t)
    PROVE  /\ UNCHANGED <<at, txPc>>
           /\ \/ rxPc[t] \in rx!PutLabels /\ rxPc'[t] \in {"idle"} \cup rx!PutLabels
              \/ rxPc[t] \in rx!GetLabels /\ rxPc'[t] \in {"idle"} \cup rx!GetLabels
  BY DEF InRxFIFO, IInv, Threaded, rx!PutStep, rx!GetStep, rx!PutEnter, rx!PutStore,
         rx!PutAdvance, rx!PutLeave, rx!PutReturn, rx!GetEnter, rx!GetLoad, rx!GetAdvance,
         rx!GetLeave, rx!GetReturn, rx!Goto, rx!PutLabels, rx!GetLabels, txV

LEMMA InsideTx ==
    ASSUME IInv, NEW t \in threads, InTxFIFO(t)
    PROVE  /\ UNCHANGED <<at, rxPc>>
           /\ \/ txPc[t] \in rx!PutLabels /\ txPc'[t] \in {"idle"} \cup rx!PutLabels
              \/ txPc[t] \in rx!GetLabels /\ txPc'[t] \in {"idle"} \cup rx!GetLabels
  BY DEF InTxFIFO, IInv, Threaded, tx!PutStep, tx!PutEnter, tx!PutStore,
         tx!PutAdvance, tx!PutLeave, tx!PutReturn, tx!GetEnter, tx!GetAdvance,
         tx!GetLeave, tx!GetReturn, tx!Goto, rx!PutLabels, rx!GetLabels, rxV

LEMMA RxPlacesStep == IInv /\ RxPlaces /\ [Next]_vars => RxPlaces'
  <1> SUFFICES ASSUME IInv, RxPlaces, [Next]_vars PROVE RxPlaces'
    OBVIOUS
  <1>1. /\ "Rx" \in threads /\ "RxSemaphore" \in semaphores
        /\ "RxSemaphore" \notin rxSems \cup txSems
    BY DEF threads, semaphores, rxSems, txSems
  <1>2. ASSUME at'["Rx"] = at["Rx"], rxPc'["Rx"] = rxPc["Rx"], txPc'["Rx"] = txPc["Rx"],
               count'["RxSemaphore"] = count["RxSemaphore"],
               waiters'["RxSemaphore"] = waiters["RxSemaphore"]
        PROVE  RxPlaces'
    BY <1>2 DEF RxPlaces, Sleeper
  <1>3. CASE UNCHANGED vars
    BY <1>2, <1>3 DEF vars, osV, rxV, txV
  <1>4. CASE Hardware
    <2>1. CASE OS_SemaphoreSignal("RxSemaphore")
      <3>1. Sleeper("Rx", "RxSemaphore")' /\ waiters'["RxSemaphore"] = {}
        BY <1>1, <2>1, Signalled DEF IInv, RxPlaces
      <3> QED BY <1>1, <1>4, <3>1, HardwareSignals DEF RxPlaces
    <2> QED BY <1>1, <1>2, <1>4, <2>1, HardwareSignals
  <1>5. ASSUME NEW t \in threads \ {"Rx"}, NEW s \in semaphores \ {"RxSemaphore"}, Frame(t, s)
        PROVE  RxPlaces'
    BY <1>1, <1>2, <1>5 DEF Frame, Touches
  <1>6. CASE TxActs \/ ProtocolActs \/ DisplayActs
    <2>1. Frame("Tx", "TxSemaphore") \/ Frame("Protocol", "PacketSemaphore")
          \/ Frame("Display", "DisplaySemaphore")
      BY <1>6, Frames
    <2> QED BY <1>5, <2>1 DEF threads, semaphores
  <1>7. CASE RxWait
    <2>1. "Rx" \notin waiters["RxSemaphore"] /\ OS_SemaphoreWait("RxSemaphore", "Rx")
      BY <1>1, <1>7 DEF RxWait, Step, Running, Ready
    <2>2. Sleeper("Rx", "RxSemaphore")'
      BY <1>1, <2>1, Waited DEF IInv, RxPlaces
    <2>3. at'["Rx"] = "put" /\ rxPc' = rxPc /\ txPc' = txPc /\ rxPc["Rx"] = "idle"
      BY <1>1, <1>7, StepAt DEF RxWait, Places, IInv, rxV, txV
    <2> QED BY <2>2, <2>3 DEF RxPlaces
  <1>8. CASE RxPut
    <2>1. /\ "Rx" \notin waiters["RxSemaphore"] /\ at'["Rx"] = "wait" /\ txPc' = txPc
          /\ rxPc'["Rx"] = "put_space"
      BY <1>1, <1>8, StepAt
         DEF RxPut, Step, Running, Ready, Places, IInv, Threaded, txV, rx!PutCall, rx!Goto
    <2>2. Frame("Rx", "RxSemaphore") /\ Touches(rxSems)
      BY <1>1, <1>8, Frames, RxCalls DEF RxActs, RxPut, IInv
    <2>3. Sleeper("Rx", "RxSemaphore")' /\ "Rx" \notin waiters'["RxSemaphore"]
      BY <1>1, <2>1, <2>2 DEF Touches, RxPlaces, Sleeper
    <2> QED BY <2>1, <2>3 DEF RxPlaces, rx!PutLabels
  <1>9. CASE InRxFIFO("Rx")
    <2>1. Touches(rxSems)
      BY <1>1, <1>9, RxCalls DEF InRxFIFO, IInv
    <2>2. /\ count'["RxSemaphore"] = count["RxSemaphore"]
          /\ waiters'["RxSemaphore"] = waiters["RxSemaphore"]
      BY <1>1, <2>1 DEF Touches
    <2>3. /\ UNCHANGED <<at, txPc>> /\ rxPc["Rx"] \in rx!PutLabels
          /\ rxPc'["Rx"] \in {"idle"} \cup rx!PutLabels
      BY <1>1, <1>9, InsideRx DEF RxPlaces, rx!PutLabels, rx!GetLabels
    <2> QED BY <2>2, <2>3 DEF RxPlaces, Sleeper, rx!PutLabels
  <1>10. ~ InTxFIFO("Rx")
    BY <1>1, InsideTx DEF RxPlaces, rx!PutLabels, rx!GetLabels
  <1> QED BY <1>3, <1>4, <1>6, <1>7, <1>8, <1>9, <1>10, Actors DEF RxActs

LEMMA TxApartStep == IInv /\ TxApart /\ [Next]_vars => TxApart'
  <1> SUFFICES ASSUME IInv, TxApart, [Next]_vars PROVE TxApart'
    OBVIOUS
  <1>1. /\ "Tx" \in threads /\ "TxSemaphore" \in semaphores
        /\ "TxSemaphore" \notin rxSems \cup txSems
    BY DEF threads, semaphores, rxSems, txSems
  <1>2. ASSUME rxPc'["Tx"] = rxPc["Tx"], count'["TxSemaphore"] = count["TxSemaphore"],
               waiters'["TxSemaphore"] = waiters["TxSemaphore"]
        PROVE  TxApart'
    BY <1>2 DEF TxApart, Sleeper
  <1>3. CASE UNCHANGED vars
    BY <1>2, <1>3 DEF vars, osV, rxV
  <1>4. CASE Hardware
    <2>1. CASE OS_SemaphoreSignal("TxSemaphore")
      BY <1>1, <1>4, <2>1, Signalled, HardwareSignals DEF IInv, TxApart
    <2> QED BY <1>1, <1>2, <1>4, <2>1, HardwareSignals
  <1>5. ASSUME NEW t \in threads \ {"Tx"}, NEW s \in semaphores \ {"TxSemaphore"}, Frame(t, s)
        PROVE  TxApart'
    BY <1>1, <1>2, <1>5 DEF Frame, Touches
  <1>6. CASE RxActs \/ ProtocolActs \/ DisplayActs
    <2>1. Frame("Rx", "RxSemaphore") \/ Frame("Protocol", "PacketSemaphore")
          \/ Frame("Display", "DisplaySemaphore")
      BY <1>6, Frames
    <2> QED BY <1>5, <2>1 DEF threads, semaphores
  <1>7. CASE TxWait
    <2>1. "Tx" \notin waiters["TxSemaphore"] /\ OS_SemaphoreWait("TxSemaphore", "Tx")
          /\ rxPc' = rxPc
      BY <1>1, <1>7 DEF TxWait, Step, Running, Ready, rxV
    <2> QED BY <1>1, <2>1, Waited DEF IInv, TxApart
  <1>8. CASE TxEnable
    BY <1>2, <1>8 DEF TxEnable, rxV, osV
  <1>9. CASE TxGet \/ TxWrite \/ InTxFIFO("Tx")
    <2>1. UNCHANGED rxPc /\ (tx!PutStep("Tx") \/ tx!GetStep("Tx") \/ tx!GetCall("Tx"))
      BY <1>9 DEF TxGet, TxWrite, InTxFIFO, tx!GetStep, rxV
    <2>2. Touches(txSems)
      BY <1>1, <2>1, TxCalls DEF IInv
    <2> QED BY <1>1, <1>2, <2>1, <2>2 DEF Touches
  <1>10. ~ InRxFIFO("Tx")
    BY <1>1, InsideRx DEF TxApart, rx!PutLabels, rx!GetLabels
  <1> QED BY <1>3, <1>4, <1>6, <1>7, <1>8, <1>9, <1>10, Actors DEF TxActs

LEMMA DisplayPlacesStep == IInv /\ DisplayPlaces /\ [Next]_vars => DisplayPlaces'
  <1> SUFFICES ASSUME IInv, DisplayPlaces, [Next]_vars PROVE DisplayPlaces'
    OBVIOUS
  <1>1. /\ "Display" \in threads /\ "DisplaySemaphore" \in semaphores
        /\ "DisplaySemaphore" \notin rxSems \cup txSems
    BY DEF threads, semaphores, rxSems, txSems
  <1>2. ASSUME at'["Display"] = at["Display"], rxPc'["Display"] = rxPc["Display"],
               txPc'["Display"] = txPc["Display"],
               count'["DisplaySemaphore"] = count["DisplaySemaphore"],
               waiters'["DisplaySemaphore"] = waiters["DisplaySemaphore"]
        PROVE  DisplayPlaces'
    BY <1>2 DEF DisplayPlaces, Sleeper
  <1>3. CASE UNCHANGED vars
    BY <1>2, <1>3 DEF vars, osV, rxV, txV
  <1>4. CASE Hardware
    <2>1. CASE OS_SemaphoreSignal("DisplaySemaphore")
      <3>1. Sleeper("Display", "DisplaySemaphore")' /\ waiters'["DisplaySemaphore"] = {}
        BY <1>1, <2>1, Signalled DEF IInv, DisplayPlaces
      <3> QED BY <1>1, <1>4, <3>1, HardwareSignals DEF DisplayPlaces
    <2> QED BY <1>1, <1>2, <1>4, <2>1, HardwareSignals
  <1>5. ASSUME NEW t \in threads \ {"Display"}, NEW s \in semaphores \ {"DisplaySemaphore"},
               Frame(t, s)
        PROVE  DisplayPlaces'
    BY <1>1, <1>2, <1>5 DEF Frame, Touches
  <1>6. CASE RxActs \/ TxActs \/ ProtocolActs
    <2>1. Frame("Rx", "RxSemaphore") \/ Frame("Tx", "TxSemaphore")
          \/ Frame("Protocol", "PacketSemaphore")
      BY <1>6, Frames
    <2> QED BY <1>5, <2>1 DEF threads, semaphores
  <1>7. CASE DisplayWait
    <2>1. /\ "Display" \notin waiters["DisplaySemaphore"]
          /\ OS_SemaphoreWait("DisplaySemaphore", "Display")
      BY <1>1, <1>7 DEF DisplayWait, Step, Running, Ready
    <2>2. Sleeper("Display", "DisplaySemaphore")'
      BY <1>1, <2>1, Waited DEF IInv, DisplayPlaces
    <2>3. at'["Display"] = "print" /\ rxPc' = rxPc /\ txPc' = txPc /\ txPc["Display"] = "idle"
      BY <1>1, <1>7, StepAt DEF DisplayWait, Places, IInv, rxV, txV
    <2> QED BY <2>2, <2>3 DEF DisplayPlaces
  <1>8. CASE DisplayPrint \/ DisplayDone
    <2>1. /\ UNCHANGED <<count, waiters, rxPc, txPc>>
          /\ "Display" \notin waiters["DisplaySemaphore"]
      BY <1>1, <1>8 DEF DisplayPrint, DisplayDone, Step, Running, Ready, osV, rxV, txV
    <2>2. at'["Display"] \in {"wait", "out"} /\ txPc["Display"] = "idle"
      BY <1>1, <1>8, StepAt DEF DisplayPrint, DisplayDone, Places, IInv
    <2> QED BY <2>1, <2>2 DEF DisplayPlaces, Sleeper
  <1>9. CASE DisplayOut
    <2>1. /\ at'["Display"] = "out" /\ "Display" \notin waiters["DisplaySemaphore"]
          /\ UNCHANGED rxPc /\ tx!PutCall("Display", <<"text", sent'["text"]>>)
      BY <1>1, <1>9, StepAt DEF DisplayOut, Step, Running, Ready, Places, IInv, rxV
    <2>2. Touches(txSems) /\ txPc'["Display"] = "put_space"
      BY <1>1, <2>1, TxCalls DEF IInv, Threaded, tx!PutCall, tx!Goto
    <2>3. /\ count'["DisplaySemaphore"] = count["DisplaySemaphore"]
          /\ waiters'["DisplaySemaphore"] = waiters["DisplaySemaphore"]
      BY <1>1, <2>2 DEF Touches
    <2> QED BY <2>1, <2>2, <2>3 DEF DisplayPlaces, Sleeper, rx!PutLabels
  <1>10. CASE InTxFIFO("Display")
    <2>1. Touches(txSems)
      BY <1>1, <1>10, TxCalls DEF InTxFIFO, IInv, tx!GetStep
    <2>2. /\ count'["DisplaySemaphore"] = count["DisplaySemaphore"]
          /\ waiters'["DisplaySemaphore"] = waiters["DisplaySemaphore"]
      BY <1>1, <2>1 DEF Touches
    <2>3. /\ UNCHANGED <<at, rxPc>> /\ txPc["Display"] \in rx!PutLabels
          /\ txPc'["Display"] \in {"idle"} \cup rx!PutLabels
      BY <1>1, <1>10, InsideTx DEF DisplayPlaces, rx!PutLabels, rx!GetLabels
    <2> QED BY <2>2, <2>3 DEF DisplayPlaces, Sleeper, rx!PutLabels
  <1>11. ~ InRxFIFO("Display")
    BY <1>1, InsideRx DEF DisplayPlaces, rx!PutLabels, rx!GetLabels
  <1> QED BY <1>3, <1>4, <1>6, <1>7, <1>8, <1>9, <1>10, <1>11, Actors DEF DisplayActs

LEMMA ProtocolPlacesStep == IInv /\ Data /\ ProtocolPlaces /\ [Next]_vars => ProtocolPlaces'
  <1> SUFFICES ASSUME IInv, Data, ProtocolPlaces, [Next]_vars PROVE ProtocolPlaces'
    OBVIOUS
  <1> DEFINE p == "Protocol"  ps == "PacketSemaphore"
  <1>1. /\ p \in threads /\ ps \in semaphores /\ ps \notin rxSems \cup txSems
    BY DEF threads, semaphores, rxSems, txSems
  <1>2. ASSUME at'[p] = at[p], rxPc'[p] = rxPc[p], txPc'[p] = txPc[p],
               count'[ps] = count[ps], waiters'[ps] = waiters[ps],
               sent'["packet"] = sent["packet"]
        PROVE  ProtocolPlaces'
    BY <1>2 DEF ProtocolPlaces
  <1>3. ~ ProtocolOut => sent'["packet"] = sent["packet"]
    BY DEF Data, Texts, Next, Hardware, Program, LineIn, LineOut, UART_ISR_Receive,
       UART_ISR_Transmit, DisplayTick,
       InRxFIFO, InTxFIFO, RxWait, RxPut, TxWait, TxGet, TxWrite, TxEnable, ProtocolIn,
       ProtocolGot, ProtocolPacket,
       ProtocolClose, DisplayWait, DisplayPrint, DisplayOut, DisplayDone, vars, histV
  <1>4. CASE UNCHANGED vars
    BY <1>2, <1>4 DEF vars, osV, rxV, txV, histV
  <1>5. CASE Hardware
    <2>1. ~ ProtocolOut
      BY <1>5, HardwareSignals, <1>1 DEF ProtocolOut, tx!PutCall, tx!Goto, IInv, Threaded
    <2> QED BY <1>1, <1>2, <1>3, <1>5, <2>1, HardwareSignals
  <1>6. CASE RxActs \/ TxActs \/ DisplayActs
    <2>1. Frame("Rx", "RxSemaphore") \/ Frame("Tx", "TxSemaphore")
          \/ Frame("Display", "DisplaySemaphore")
      BY <1>6, Frames
    <2>2. /\ at'[p] = at[p] /\ rxPc'[p] = rxPc[p] /\ txPc'[p] = txPc[p]
          /\ count'[ps] = count[ps] /\ waiters'[ps] = waiters[ps]
      BY <1>1, <2>1 DEF Frame, Touches, threads, semaphores
    <2>3. ~ ProtocolOut
      BY <1>1, <2>2 DEF ProtocolOut, tx!PutCall, tx!Goto, IInv, Threaded
    <2> QED BY <1>2, <1>3, <2>2, <2>3
  <1>7. CASE InRxFIFO(p) \/ InTxFIFO(p)
    <2>1. Touches(rxSems) \/ Touches(txSems)
      BY <1>1, <1>7, RxCalls, TxCalls DEF InRxFIFO, InTxFIFO, IInv, tx!GetStep
    <2>2. count'[ps] = count[ps] /\ waiters'[ps] = waiters[ps] /\ sent' = sent
      BY <1>1, <1>7, <2>1 DEF Touches, InRxFIFO, InTxFIFO, histV
    <2>3. CASE InRxFIFO(p)
      BY <1>1, <2>2, <2>3, InsideRx DEF ProtocolPlaces, rx!PutLabels, rx!GetLabels
    <2>4. CASE InTxFIFO(p)
      BY <1>1, <2>2, <2>4, InsideTx DEF ProtocolPlaces, rx!PutLabels, rx!GetLabels
    <2> QED BY <1>7, <2>3, <2>4
  <1>8. CASE ProtocolIn
    <2>1. /\ at[p] = "in" /\ at'[p] = "got" /\ UNCHANGED <<txPc, sent>> /\ txPc[p] = "idle"
          /\ rxPc'[p] = "get_item"
      BY <1>1, <1>8, StepAt
         DEF ProtocolIn, Places, IInv, Threaded, txV, histV, rx!GetCall, rx!Goto
    <2>2. count'[ps] = count[ps] /\ waiters'[ps] = waiters[ps]
      BY <1>1, <1>8, RxCalls DEF ProtocolIn, IInv, Touches
    <2> QED BY <2>1, <2>2 DEF ProtocolPlaces, rx!GetLabels
  <1>9. CASE ProtocolGot
    <2>1. /\ at[p] = "got" /\ at'[p] \in {"in", "packet"}
          /\ UNCHANGED <<rxPc, txPc, count, waiters, sent>>
          /\ rxPc[p] = "idle" /\ txPc[p] = "idle"
      BY <1>1, <1>9, StepAt DEF ProtocolGot, Places, IInv, rxV, txV, osV
    <2> QED BY <2>1 DEF ProtocolPlaces
  <1>10. CASE ProtocolPacket
    <2>1. /\ at[p] = "packet" /\ at'[p] = "out" /\ UNCHANGED <<rxPc, txPc, sent>>
          /\ rxPc[p] = "idle" /\ txPc[p] = "idle" /\ OS_SemaphoreWait(ps, p)
      BY <1>1, <1>10, StepAt DEF ProtocolPacket, Places, IInv, rxV, txV, histV
    <2>2. waiters'[ps] = {} /\ count'[ps] = 0
      BY <1>1, <2>1 DEF ProtocolPlaces, OS_SemaphoreWait, Take, Sleep, IInv, Kernel
    <2> QED BY <2>1, <2>2 DEF ProtocolPlaces
  <1>11. CASE ProtocolOut
    <2>1. PICK next \in {"out", "close"} :
              /\ Step("Protocol", "out", next)
              /\ (next = "close") = (sent'["packet"] % PacketBytes = 0)
      BY <1>11 DEF ProtocolOut
    <2>2. /\ at[p] = "out" /\ at'[p] = next /\ rxPc[p] = "idle"
      BY <1>1, <2>1, StepAt DEF Places, IInv
    <2>3. /\ rxPc' = rxPc /\ txPc'[p] = "put_space"
      BY <1>1, <1>11 DEF ProtocolOut, rxV, tx!PutCall, tx!Goto, IInv, Threaded
    <2>4. count'[ps] = count[ps] /\ waiters'[ps] = waiters[ps]
      BY <1>1, <1>11, TxCalls DEF ProtocolOut, IInv, Touches
    <2> QED BY <2>1, <2>2, <2>3, <2>4 DEF ProtocolPlaces, rx!PutLabels
  <1>12. CASE ProtocolClose
    <2>1. /\ at[p] = "close" /\ at'[p] = "in" /\ UNCHANGED <<rxPc, txPc, sent>>
          /\ rxPc[p] = "idle" /\ txPc[p] = "idle" /\ OS_SemaphoreSignal(ps)
      BY <1>1, <1>12, StepAt DEF ProtocolClose, Places, IInv, rxV, txV, histV
    <2>2. waiters'[ps] = {} /\ count'[ps] = 1
      BY <1>1, <2>1 DEF ProtocolPlaces, OS_SemaphoreSignal, Give, HandOver, IInv, Kernel
    <2> QED BY <2>1, <2>2 DEF ProtocolPlaces
  <1> QED BY <1>4, <1>5, <1>6, <1>7, <1>8, <1>9, <1>10, <1>11, <1>12, Actors DEF ProtocolActs

LEMMA PlacesInit == Init => AllPlaces
  <1> SUFFICES ASSUME Init PROVE AllPlaces
    OBVIOUS
  <1>1. /\ \A t \in threads : rxPc[t] = "idle" /\ txPc[t] = "idle"
        /\ \A s \in semaphores : waiters[s] = {} /\ count[s] = InitialCount(s)
        /\ at = [t \in threads |-> IF t = "Protocol" THEN "in" ELSE "wait"]
        /\ sent["packet"] = 0 /\ 0 % PacketBytes = 0
    BY SerialAssumption DEF Init, OS_SemaphoreCreate, rx!FIFO_Init, tx!FIFO_Init, Texts
  <1>2. /\ {"Rx", "Tx", "Protocol", "Display"} \subseteq threads
        /\ {"RxSemaphore", "TxSemaphore", "DisplaySemaphore", "PacketSemaphore"} \subseteq semaphores
        /\ InitialCount("PacketSemaphore") = 1
    BY DEF threads, semaphores, InitialCount
  <1> QED BY <1>1, <1>2
         DEF AllPlaces, RxPlaces, TxApart, ProtocolPlaces, DisplayPlaces, Sleeper, threads

-----------------------------------------------------------------------------
(* Counting the bytes *)

One(condition) == IF condition THEN 1 ELSE 0

\* A put has its byte in hand, a get has taken one out of the ring, or has
\* copied one that the ring still counts.
Storing(l) == One(l \in {"put_space", "put_access", "put_stored"})
Fetched(l) == One(l \in {"get_counted", "get_left", "idle"})
Loading(l) == One(l = "get_loaded")

\* RxThread was woken by a byte that it has not passed to FIFO_Put yet, or will be.
RxHeld == One(at["Rx"] = "put" /\ "Rx" \notin waiters["RxSemaphore"])
Woken == RxHeld + count["RxSemaphore"]

\* The bytes in RxFIFO, and in RxThread's call of FIFO_Put.
InRing == rxFIFO.NbBytes + Storing(rxPc["Rx"])

\* The bytes in TxFIFO that TxThread has not copied, and in the calls of FIFO_Put.
InTxRing == txFIFO.NbBytes - Loading(txPc["Tx"])
            + Storing(txPc["Protocol"]) + Storing(txPc["Display"])

\* A byte in the receive buffer, and in the transmit buffer.
Arrived == One(rdrf)
Filled == One(~ tdre)

\* ProtocolThread is about to return from UART_InChar with a byte.
Returning == IF at["Protocol"] = "got" THEN Fetched(rxPc["Protocol"]) ELSE 0

\* Every byte from the PC is in the receive buffer, announced by RxSemaphore, with
\* RxThread, in RxFIFO or with ProtocolThread, or was delivered.  (A byte that was
\* overwritten in TempData counts too: its successor is delivered twice.)
Received == sent["pc"] = Len(delivered) + Returning + InRing + Woken + Arrived

\* Every byte handed to UART_OutChar is with its sender, in TxFIFO, in the transmit
\* buffer or on the line.
HandedOver == sent["packet"] + sent["text"] = Len(wire) + Filled + InTxRing

\* DisplayThread serves a tick of the display timer.
Serving == One(\/ at["Display"] = "out"
               \/ at["Display"] = "print" /\ "Display" \notin waiters["DisplaySemaphore"])

\* Every tick is announced by DisplaySemaphore, with DisplayThread, or a whole text.
Printed ==
    /\ ticks \in Nat
    /\ sent["text"] = (ticks - count["DisplaySemaphore"] - Serving) * TextBytes
                      + (IF at["Display"] = "out" THEN printed ELSE 0)

Known == Base /\ AllPlaces /\ Streams

\* What a call does to the number of bytes in its ring.
LEMMA RxBytes ==
    ASSUME Base, NEW t \in threads
    PROVE  /\ rx!PutStep(t) =>
                 /\ rxPc[t] \in rx!PutLabels
                 /\ \/ /\ rxFIFO'.NbBytes = rxFIFO.NbBytes
                       /\ Storing(rxPc'[t]) = Storing(rxPc[t])
                    \/ /\ rxFIFO'.NbBytes = rxFIFO.NbBytes + 1
                       /\ Storing(rxPc[t]) = 1 /\ Storing(rxPc'[t]) = 0
           /\ rx!GetStep(t) =>
                 /\ rxPc[t] \in rx!GetLabels
                 /\ \/ /\ rxFIFO'.NbBytes = rxFIFO.NbBytes
                       /\ Fetched(rxPc'[t]) = Fetched(rxPc[t])
                    \/ /\ rxFIFO'.NbBytes = rxFIFO.NbBytes - 1
                       /\ Fetched(rxPc[t]) = 0 /\ Fetched(rxPc'[t]) = 1
           /\ rxFIFO.NbBytes \in Nat /\ rxPc \in [threads -> Labels]
  <1>1. /\ rxFIFO \in [Start : RxQ!Slots, End : RxQ!Slots, NbBytes : 0 .. RxSize,
                       Buffer : [RxQ!Slots -> InBytes]]
        /\ rxPc \in [threads -> Labels] /\ RxSize \in Nat
    BY SerialAssumption DEF Base, RxQ!TypeOK, RxQ!TFIFO, IInv, Threaded
  <1>2. CASE rx!PutAdvance(t)
    <2>1. /\ rxFIFO'.NbBytes = rxFIFO.NbBytes + 1
          /\ rxPc[t] = "put_stored" /\ rxPc'[t] = "put_counted"
      BY <1>1, <1>2 DEF rx!PutAdvance, rx!Goto
    <2> QED BY <1>1, <2>1 DEF rx!PutLabels, rx!GetLabels, Storing, One, rx!GetStep, rx!GetEnter,
            rx!GetLoad, rx!GetAdvance, rx!GetLeave, rx!GetReturn, rx!Goto
  <1>3. CASE rx!PutEnter(t) \/ rx!PutStore(t) \/ rx!PutLeave(t) \/ rx!PutReturn(t)
    <2>1. /\ rxFIFO'.NbBytes = rxFIFO.NbBytes
          /\ rxPc[t] \in rx!PutLabels /\ Storing(rxPc'[t]) = Storing(rxPc[t])
      BY <1>1, <1>3 DEF rx!PutEnter, rx!PutStore, rx!PutLeave, rx!PutReturn, rx!Goto,
         rx!PutLabels, Storing, One
    <2> QED BY <1>1, <2>1 DEF rx!PutLabels, rx!GetLabels, rx!GetStep, rx!GetEnter, rx!GetLoad,
            rx!GetAdvance, rx!GetLeave, rx!GetReturn, rx!Goto
  <1>4. CASE rx!GetAdvance(t)
    <2>1. /\ rxFIFO'.NbBytes = rxFIFO.NbBytes - 1
          /\ rxPc[t] = "get_loaded" /\ rxPc'[t] = "get_counted"
      BY <1>1, <1>4 DEF rx!GetAdvance, rx!Goto
    <2> QED BY <1>1, <2>1 DEF rx!PutLabels, rx!GetLabels, Fetched, One, rx!PutStep, rx!PutEnter,
            rx!PutStore, rx!PutAdvance, rx!PutLeave, rx!PutReturn, rx!Goto
  <1>5. CASE rx!GetEnter(t) \/ rx!GetLoad(t) \/ rx!GetLeave(t) \/ rx!GetReturn(t)
    <2>1. /\ rxFIFO'.NbBytes = rxFIFO.NbBytes
          /\ rxPc[t] \in rx!GetLabels /\ Fetched(rxPc'[t]) = Fetched(rxPc[t])
      BY <1>1, <1>5 DEF rx!GetEnter, rx!GetLoad, rx!GetLeave, rx!GetReturn, rx!Goto,
         rx!GetLabels, Fetched, One
    <2> QED BY <1>1, <2>1 DEF rx!PutLabels, rx!GetLabels, rx!PutStep, rx!PutEnter,
            rx!PutStore, rx!PutAdvance, rx!PutLeave, rx!PutReturn, rx!Goto
  <1> QED BY <1>1, <1>2, <1>3, <1>4, <1>5 DEF rx!PutStep, rx!GetStep

LEMMA TxBytes ==
    ASSUME Base, NEW t \in threads
    PROVE  /\ tx!PutStep(t) =>
                 /\ txPc[t] \in rx!PutLabels
                 /\ \/ /\ txFIFO'.NbBytes = txFIFO.NbBytes
                       /\ Storing(txPc'[t]) = Storing(txPc[t])
                    \/ /\ txFIFO'.NbBytes = txFIFO.NbBytes + 1
                       /\ Storing(txPc[t]) = 1 /\ Storing(txPc'[t]) = 0
           /\ tx!GetEnter(t) \/ tx!GetAdvance(t) \/ tx!GetLeave(t) \/ tx!GetReturn(t) =>
                 /\ txPc[t] \in rx!GetLabels
                 /\ \/ /\ txFIFO'.NbBytes = txFIFO.NbBytes
                       /\ Loading(txPc'[t]) = Loading(txPc[t])
                    \/ /\ txFIFO'.NbBytes = txFIFO.NbBytes - 1
                       /\ Loading(txPc[t]) = 1 /\ Loading(txPc'[t]) = 0
           /\ txFIFO.NbBytes \in Nat /\ txPc \in [threads -> Labels]
  <1>1. /\ txFIFO \in [Start : TxQ!Slots, End : TxQ!Slots, NbBytes : 0 .. TxSize,
                       Buffer : [TxQ!Slots -> OutBytes]]
        /\ txPc \in [threads -> Labels] /\ TxSize \in Nat
    BY SerialAssumption DEF Base, TxQ!TypeOK, TxQ!TFIFO, IInv, Threaded
  <1>2. CASE tx!PutAdvance(t)
    <2>1. /\ txFIFO'.NbBytes = txFIFO.NbBytes + 1
          /\ txPc[t] = "put_stored" /\ txPc'[t] = "put_counted"
      BY <1>1, <1>2 DEF tx!PutAdvance, tx!Goto
    <2> QED BY <1>1, <2>1 DEF rx!PutLabels, rx!GetLabels, Storing, One, tx!GetEnter, tx!GetAdvance,
            tx!GetLeave, tx!GetReturn, tx!Goto
  <1>3. CASE tx!PutEnter(t) \/ tx!PutStore(t) \/ tx!PutLeave(t) \/ tx!PutReturn(t)
    <2>1. /\ txFIFO'.NbBytes = txFIFO.NbBytes
          /\ txPc[t] \in rx!PutLabels /\ Storing(txPc'[t]) = Storing(txPc[t])
      BY <1>1, <1>3 DEF tx!PutEnter, tx!PutStore, tx!PutLeave, tx!PutReturn, tx!Goto,
         rx!PutLabels, Storing, One
    <2> QED BY <1>1, <2>1 DEF rx!PutLabels, rx!GetLabels, tx!GetEnter, tx!GetAdvance,
            tx!GetLeave, tx!GetReturn, tx!Goto
  <1>4. CASE tx!GetAdvance(t)
    <2>1. /\ txFIFO'.NbBytes = txFIFO.NbBytes - 1
          /\ txPc[t] = "get_loaded" /\ txPc'[t] = "get_counted"
      BY <1>1, <1>4 DEF tx!GetAdvance, tx!Goto
    <2> QED BY <1>1, <2>1 DEF rx!PutLabels, rx!GetLabels, Loading, One, tx!PutStep, tx!PutEnter,
            tx!PutStore, tx!PutAdvance, tx!PutLeave, tx!PutReturn, tx!Goto
  <1>5. CASE tx!GetEnter(t) \/ tx!GetLeave(t) \/ tx!GetReturn(t)
    <2>1. /\ txFIFO'.NbBytes = txFIFO.NbBytes
          /\ txPc[t] \in rx!GetLabels /\ Loading(txPc'[t]) = Loading(txPc[t])
      BY <1>1, <1>5 DEF tx!GetEnter, tx!GetLoad, tx!GetLeave, tx!GetReturn, tx!Goto,
         rx!GetLabels, Loading, One
    <2> QED BY <1>1, <2>1 DEF rx!PutLabels, rx!GetLabels, tx!PutStep, tx!PutEnter,
            tx!PutStore, tx!PutAdvance, tx!PutLeave, tx!PutReturn, tx!Goto
  <1> QED BY <1>1, <1>2, <1>3, <1>4, <1>5 DEF tx!PutStep, tx!GetStep

\* A unit of s is in its count or in its sleeper's hands.
LEMMA SignalCounted ==
    ASSUME Kernel, NEW s \in semaphores, NEW t \in threads, Sleeper(t, s), OS_SemaphoreSignal(s)
    PROVE  count'[s] + One(t \notin waiters'[s]) = count[s] + One(t \notin waiters[s]) + 1
  BY Signalled DEF One, Kernel

LEMMA WaitCounted ==
    ASSUME Kernel, NEW s \in semaphores, NEW t \in threads, Sleeper(t, s), t \notin waiters[s],
           OS_SemaphoreWait(s, t)
    PROVE  count'[s] + One(t \notin waiters'[s]) = count[s]
  BY Waited, CallOK DEF One, Kernel, Touches

\* What a step does to the bytes on their way from the PC: it is elsewhere,
Elsewhere ==
    /\ sent'["pc"] = sent["pc"]
    /\ UNCHANGED <<delivered, rxFIFO, rxItem, TempData, rxData, rdrf>>
    /\ Returning' = Returning /\ Woken' = Woken /\ rxPc'["Rx"] = rxPc["Rx"]
    /\ rxPc'["Protocol"] = "get_loaded" => rxPc["Protocol"] = "get_loaded"

\* a byte arrives,
Arrives ==
    /\ ~ rdrf /\ rdrf'
    /\ sent'["pc"] = sent["pc"] + 1 /\ rxData' = <<"pc", sent'["pc"]>>
    /\ UNCHANGED <<delivered, rxFIFO, rxItem, rxPc, TempData>>
    /\ Returning' = Returning /\ Woken' = Woken
    /\ overran' \/ Woken = 0

\* the handler moves it to TempData,
Announced ==
    /\ rdrf /\ ~ rdrf'
    /\ TempData' = rxData
    /\ UNCHANGED <<sent, delivered, rxFIFO, rxItem, rxPc, rxData>>
    /\ Returning' = Returning /\ Woken' = Woken + 1

\* RxThread passes it to FIFO_Put,
Taken ==
    /\ rxPc["Rx"] = "idle" /\ rxPc'["Rx"] = "put_space"
    /\ rxPc'["Protocol"] = rxPc["Protocol"]
    /\ rxItem' = [rxItem EXCEPT !["Rx"] = TempData]
    /\ UNCHANGED <<sent, delivered, rxFIFO, TempData, rxData, rdrf>>
    /\ Returning' = Returning /\ Woken = Woken' + 1

\* goes on with that call,
Puts ==
    /\ rx!PutStep("Rx")
    /\ rxPc'["Protocol"] = rxPc["Protocol"]
    /\ UNCHANGED <<sent, delivered, TempData, rxData, rdrf>>
    /\ Returning' = Returning /\ Woken' = Woken

\* ProtocolThread goes on with its call of FIFO_Get,
Gets ==
    /\ rx!GetStep("Protocol")
    /\ Returning = Fetched(rxPc["Protocol"]) /\ Returning' = Fetched(rxPc'["Protocol"])
    /\ rxPc'["Rx"] = rxPc["Rx"]
    /\ UNCHANGED <<sent, delivered, TempData, rxData, rdrf>>
    /\ Woken' = Woken

\* or has its byte.
Delivers ==
    /\ delivered' = Append(delivered, rxItem["Protocol"])
    /\ Returning = 1 /\ Returning' = 0
    /\ UNCHANGED <<sent, rxFIFO, rxItem, rxPc, TempData, rxData, rdrf>>
    /\ Woken' = Woken

LEMMA Receiving ==
    Known /\ [Next]_vars =>
        Elsewhere \/ Arrives \/ Announced \/ Taken \/ Puts \/ Gets \/ Delivers
  <1> SUFFICES ASSUME Known, [Next]_vars
               PROVE  Elsewhere \/ Arrives \/ Announced \/ Taken \/ Puts \/ Gets \/ Delivers
    OBVIOUS
  <1> DEFINE rs == "RxSemaphore"  p == "Protocol"
  <1>1. /\ "Rx" \in threads /\ p \in threads /\ rs \in semaphores /\ rs \notin rxSems \cup txSems
    BY DEF threads, semaphores, rxSems, txSems
  <1>2. IInv /\ Kernel /\ RxPlaces /\ ProtocolPlaces /\ Data
    BY DEF Known, Base, AllPlaces, IInv
  <1>3. /\ count[rs] \in Nat /\ count'[rs] \in Nat /\ rxPc \in [threads -> Labels]
    <2>1. count'[rs] \in Nat
      BY <1>1, <1>2, TokenStep DEF IInv, Kernel
    <2> QED BY <1>1, <1>2, <2>1 DEF IInv, Kernel, Threaded
  \* The steps that leave the receiving side alone.
  <1>4. ASSUME sent'["pc"] = sent["pc"], UNCHANGED <<delivered, rxFIFO, rxItem, TempData>>,
               UNCHANGED <<rxData, rdrf>>,
               Returning' = Returning, rxPc'["Rx"] = rxPc["Rx"], at'["Rx"] = at["Rx"],
               rxPc'[p] = "get_loaded" => rxPc[p] = "get_loaded",
               count'[rs] = count[rs], waiters'[rs] = waiters[rs]
        PROVE  Elsewhere
    BY Zenon, <1>4 DEF Elsewhere, Woken, RxHeld, One
  <1>5. CASE UNCHANGED vars
    BY <1>4, <1>5 DEF vars, osV, rxV, uartV, histV, Returning
  <1>6. CASE LineIn
    <2>1. /\ sent'["pc"] = sent["pc"] + 1 /\ ~ rdrf /\ rdrf' /\ rxData' = <<"pc", sent'["pc"]>>
          /\ UNCHANGED <<delivered, count, waiters, rxFIFO, rxItem, rxPc, at, TempData>>
      BY <1>2, <1>6 DEF LineIn, osV, rxV, Data
    <2>2. Woken' = Woken /\ Returning' = Returning
      BY <2>1 DEF Woken, RxHeld, Returning
    <2>3. overran' \/ Woken = 0
      <3>1. CASE "Rx" \in waiters[rs]
        BY <1>2, <3>1 DEF RxPlaces, Sleeper, Woken, RxHeld, One
      <3>2. CASE "Rx" \in waiters["RxSpace"] /\ count[rs] = 0
        <4>1. rxPc["Rx"] # "idle"
          BY <1>1, <3>2 DEF Known, Base, RxQ!IInv, RxQ!Sleeping, rxSems
        <4>2. at["Rx"] # "put"
          BY <1>2, <4>1 DEF RxPlaces
        <4> QED BY <3>2, <4>2 DEF Woken, RxHeld, One
      <3>3. CASE "Rx" \in waiters["RxSpace"] /\ count[rs] > 0
        BY Zenon, <1>6, <3>3 DEF LineIn
      <3> QED BY <1>3, <1>6, <3>1, <3>2, <3>3 DEF LineIn
    <2> QED BY Zenon, <2>1, <2>2, <2>3 DEF Arrives
  <1>7. CASE UART_ISR_Receive /\ rdrf
    <2>1. /\ rdrf /\ ~ rdrf' /\ TempData' = rxData /\ OS_SemaphoreSignal(rs)
          /\ UNCHANGED <<sent, delivered, rxFIFO, rxItem, rxPc, rxData, at>>
      BY <1>7 DEF UART_ISR_Receive, rxV, histV
    <2>2. count'[rs] + One("Rx" \notin waiters'[rs]) = count[rs] + One("Rx" \notin waiters[rs]) + 1
      BY <1>1, <1>2, <2>1, SignalCounted DEF RxPlaces
    <2>3. waiters'[rs] = {}
      BY <1>1, <1>2, <2>1, Signalled DEF RxPlaces
    <2>4. Woken' = Woken + 1
      <3>1. CASE "Rx" \in waiters[rs]
        BY <1>2, <1>3, <2>1, <2>2, <2>3, <3>1 DEF RxPlaces, Woken, RxHeld, One
      <3>2. CASE "Rx" \notin waiters[rs]
        BY <1>3, <2>1, <2>2, <2>3, <3>2 DEF Woken, RxHeld, One
      <3> QED BY <3>1, <3>2
    <2>5. Returning' = Returning
      BY <2>1 DEF Returning
    <2> QED BY Zenon, <2>1, <2>4, <2>5 DEF Announced
  <1>8. CASE LineOut \/ (UART_ISR_Receive /\ ~ rdrf) \/ UART_ISR_Transmit \/ DisplayTick
    <2>1. /\ UNCHANGED <<delivered, rxFIFO, rxItem, rxPc, TempData, rxData, rdrf, at>>
          /\ sent'["pc"] = sent["pc"]
      BY <1>8 DEF LineOut, UART_ISR_Receive, UART_ISR_Transmit, DisplayTick, rxV, uartV, histV
    <2>2. count'[rs] = count[rs] /\ waiters'[rs] = waiters[rs]
      BY <1>1, <1>2, <1>8 DEF LineOut, UART_ISR_Receive, UART_ISR_Transmit, DisplayTick, osV,
         OS_SemaphoreSignal, Give, HandOver, Kernel
    <2> QED BY <1>4, <2>1, <2>2 DEF Returning
  <1>9. CASE TxActs \/ DisplayActs
    <2>1. Frame("Tx", "TxSemaphore") \/ Frame("Display", "DisplaySemaphore")
      BY <1>2, <1>9, Frames
    <2>2. /\ count'[rs] = count[rs] /\ waiters'[rs] = waiters[rs]
          /\ at'["Rx"] = at["Rx"] /\ rxPc'["Rx"] = rxPc["Rx"]
          /\ at'[p] = at[p] /\ rxPc'[p] = rxPc[p]
      BY <1>1, <2>1 DEF Frame, Touches, threads
    <2>3. ~ InRxFIFO("Tx") /\ ~ InRxFIFO("Display")
      BY <1>2, InsideRx DEF Known, AllPlaces, TxApart, DisplayPlaces, threads, rx!PutLabels,
         rx!GetLabels
    <2>4. /\ UNCHANGED <<delivered, rxFIFO, rxItem, TempData, rxData, rdrf>>
          /\ sent'["pc"] = sent["pc"]
      BY <1>2, <1>9, <2>3 DEF TxActs, DisplayActs, TxWait, TxGet, TxWrite, TxEnable, DisplayWait,
         DisplayPrint, DisplayOut, DisplayDone, InTxFIFO, rxV, uartV, histV, Data
    <2> QED BY <1>4, <2>2, <2>4 DEF Returning
  <1>10. CASE RxWait
    <2>1. /\ OS_SemaphoreWait(rs, "Rx") /\ "Rx" \notin waiters[rs]
          /\ at["Rx"] = "wait" /\ at'["Rx"] = "put" /\ at'[p] = at[p]
          /\ UNCHANGED <<rxPc, rxFIFO, rxItem, TempData, rxData, rdrf, delivered, sent>>
      BY <1>1, <1>2, <1>10, StepAt DEF RxWait, Step, Running, Ready, Places, IInv, rxV, uartV,
         histV, threads
    <2>2. count'[rs] + One("Rx" \notin waiters'[rs]) = count[rs]
      BY <1>1, <1>2, <2>1, WaitCounted DEF RxPlaces
    <2>3. Woken' = Woken
      BY <1>3, <2>1, <2>2 DEF Woken, RxHeld, One
    <2>4. Returning' = Returning
      BY Zenon, <2>1 DEF Returning, Fetched
    <2> QED BY Zenon, <2>1, <2>3, <2>4 DEF Elsewhere
  <1>11. CASE RxPut
    <2>1. /\ rx!PutCall("Rx", TempData) /\ "Rx" \notin waiters[rs]
          /\ at["Rx"] = "put" /\ at'["Rx"] = "wait" /\ at'[p] = at[p]
          /\ rxPc["Rx"] = "idle" /\ rxItem' = [rxItem EXCEPT !["Rx"] = TempData]
          /\ UNCHANGED <<rxFIFO, TempData, rxData, rdrf, delivered, sent>>
      BY <1>1, <1>2, <1>11, StepAt DEF RxPut, Step, Running, Ready, Places, IInv, rx!PutCall, uartV,
         histV, threads
    <2>2. Touches(rxSems) /\ rxPc'["Rx"] = "put_space" /\ rxPc'[p] = rxPc[p]
      BY <1>1, <1>2, <1>3, <2>1, RxCalls DEF IInv, rx!PutCall, rx!Goto
    <2>3. count'[rs] = count[rs]
      BY <1>1, <2>2 DEF Touches
    <2>4. RxHeld' = 0 /\ RxHeld = 1
      BY <2>1, <2>2 DEF RxHeld, One
    <2>5. Woken = Woken' + 1
      BY <1>3, <2>3, <2>4 DEF Woken
    <2>6. Returning' = Returning
      BY Zenon, <2>1, <2>2 DEF Returning, Fetched
    <2> QED BY Zenon, <2>1, <2>2, <2>5, <2>6 DEF Taken
  <1>12. CASE InRxFIFO("Rx")
    <2>1. /\ rx!PutStep("Rx") /\ UNCHANGED <<at, TempData, rxData, rdrf, delivered, sent>>
      BY <1>1, <1>2, <1>12, RxBytes
         DEF InRxFIFO, Known, RxPlaces, rx!PutLabels, rx!GetLabels, uartV, histV
    <2>2. Frame("Rx", rs) /\ Touches(rxSems)
      BY <1>1, <1>2, <1>12, Frames, RxCalls DEF RxActs, InRxFIFO, IInv
    <2>3. /\ count'[rs] = count[rs] /\ waiters'[rs] = waiters[rs] /\ rxPc'[p] = rxPc[p]
      BY <1>1, <2>2 DEF Frame, Touches
    <2>4. Woken' = Woken /\ Returning' = Returning
      BY Zenon, <2>1, <2>3 DEF Woken, RxHeld, Returning, One, Fetched
    <2> QED BY Zenon, <2>1, <2>3, <2>4 DEF Puts
  <1>13. ~ InTxFIFO("Rx")
    BY <1>1, <1>2, InsideTx DEF RxPlaces, rx!PutLabels, rx!GetLabels
  <1>14. CASE ProtocolActs
    <2>1. Frame(p, "PacketSemaphore")
      BY <1>2, <1>14, Frames
    <2>2. /\ count'[rs] = count[rs] /\ waiters'[rs] = waiters[rs]
          /\ at'["Rx"] = at["Rx"] /\ rxPc'["Rx"] = rxPc["Rx"]
      BY <1>1, <2>1 DEF Frame, Touches, threads
    <2>3. sent'["pc"] = sent["pc"] /\ UNCHANGED <<TempData, rdrf, rxData>>
      BY <1>2, <1>14 DEF ProtocolActs, ProtocolIn, ProtocolGot, ProtocolPacket, ProtocolOut,
         ProtocolClose, InRxFIFO, InTxFIFO, uartV, histV, Data
    <2>4. Woken' = Woken
      BY Zenon, <2>2 DEF Woken, RxHeld, One
    <2>5. CASE ProtocolIn
      <3>1. /\ at[p] = "in" /\ at'[p] = "got" /\ rxPc'[p] = "get_item"
            /\ UNCHANGED <<rxFIFO, rxItem, delivered>>
        BY <1>1, <1>2, <1>3, <2>5, StepAt
           DEF ProtocolIn, Places, IInv, rx!GetCall, rx!Goto, histV
      <3>2. Returning = 0 /\ Returning' = 0
        BY <3>1 DEF Returning, Fetched, One
      <3> QED BY <1>4, <2>2, <2>3, <3>1, <3>2
    <2>6. CASE ProtocolGot
      <3>1. /\ at[p] = "got" /\ at'[p] \in {"in", "packet"} /\ rxPc[p] = "idle"
            /\ UNCHANGED <<sent, rxFIFO, rxItem, rxPc>>
            /\ delivered' = Append(delivered, rxItem[p])
        BY <1>1, <1>2, <2>6, StepAt DEF ProtocolGot, Places, IInv, rxV
      <3>2. Returning = 1 /\ Returning' = 0
        BY <3>1 DEF Returning, Fetched, One
      <3> QED BY Zenon, <2>3, <2>4, <3>1, <3>2 DEF Delivers
    <2>7. CASE InRxFIFO(p)
      <3>1. /\ rx!GetStep(p) /\ UNCHANGED <<at, delivered, sent>> /\ at[p] = "got"
        BY <1>1, <1>2, <2>7, RxBytes
           DEF InRxFIFO, Known, ProtocolPlaces, rx!PutLabels, rx!GetLabels, histV
      <3>2. Returning = Fetched(rxPc[p]) /\ Returning' = Fetched(rxPc'[p])
        BY <3>1 DEF Returning
      <3> QED BY Zenon, <2>2, <2>3, <2>4, <3>1, <3>2 DEF Gets
    <2>8. CASE ProtocolPacket \/ ProtocolOut \/ ProtocolClose \/ InTxFIFO(p)
      <3>1. UNCHANGED <<rxFIFO, rxItem, rxPc, delivered>>
        BY <2>8 DEF ProtocolPacket, ProtocolOut, ProtocolClose, InTxFIFO, rxV, histV
      <3>2. Returning' = Returning
        <4>1. CASE InTxFIFO(p)
          BY <3>1, <4>1 DEF InTxFIFO, Returning
        <4>2. CASE ProtocolPacket \/ ProtocolOut \/ ProtocolClose
          <5>1. at[p] # "got" /\ at'[p] # "got"
            BY <1>1, <1>2, <4>2, StepAt
               DEF ProtocolPacket, ProtocolOut, ProtocolClose, Places, IInv
          <5> QED BY <5>1 DEF Returning
        <4> QED BY <2>8, <4>1, <4>2
      <3> QED BY <1>4, <2>2, <2>3, <3>1, <3>2
    <2> QED BY <1>14, <2>5, <2>6, <2>7, <2>8 DEF ProtocolActs
  <1>15. CASE Hardware
    BY <1>6, <1>7, <1>8, <1>15 DEF Hardware
  <1>16. CASE RxActs
    BY <1>10, <1>11, <1>12, <1>13, <1>16 DEF RxActs
  <1> QED BY <1>5, <1>9, <1>14, <1>15, <1>16, Actors

\* The counts are numbers.
Numbers ==
    /\ sent["pc"] \in Nat /\ Len(delivered) \in Nat /\ rxFIFO.NbBytes \in 0 .. RxSize
    /\ Returning \in 0 .. 1 /\ InRing \in Nat /\ Woken \in Nat /\ Arrived \in 0 .. 1

LEMMA Amounts == (Base /\ Streams => Numbers) /\ (Base' /\ Streams' => Numbers')
  <1>1. ASSUME Base, Streams PROVE Numbers
    <2>1. rxFIFO.NbBytes \in 0 .. RxSize /\ RxSize \in Nat
      BY <1>1, SerialAssumption DEF Base, RxQ!TypeOK, RxQ!TFIFO
    <2>2. count["RxSemaphore"] \in Nat
      BY <1>1 DEF Base, IInv, Kernel, semaphores
    <2> QED BY <1>1, <2>1, <2>2
           DEF Numbers, Base, Data, Streams, Returning, InRing, Woken, RxHeld, Storing, Fetched,
               Arrived, One
  <1>2. Base /\ Streams => Numbers
    BY <1>1
  <1> QED BY <1>2, PTL

LEMMA ReceivedStep == Known /\ Base' /\ Streams' /\ Received /\ [Next]_vars => Received'
  <1> SUFFICES ASSUME Known, Base', Streams', Received, [Next]_vars PROVE Received'
    OBVIOUS
  <1> DEFINE p == "Protocol"
  <1>1. "Rx" \in threads /\ p \in threads
    BY DEF threads
  <1>2. /\ sent["pc"] \in Nat /\ Len(delivered) \in Nat /\ rxFIFO.NbBytes \in Nat
        /\ Returning \in Nat /\ InRing \in Nat /\ Woken \in Nat /\ Arrived \in Nat
    BY Amounts DEF Known, Numbers
  <1>3. Returning' \in Nat /\ InRing' \in Nat /\ Woken' \in Nat /\ Arrived' \in Nat
    BY Amounts DEF Numbers
  <1>4. ASSUME sent'["pc"] = sent["pc"], delivered' = delivered, Returning' = Returning,
               InRing' = InRing, Woken' = Woken, rdrf' = rdrf
        PROVE  Received'
    BY Zenon, <1>4 DEF Received, Arrived
  <1>5. CASE Elsewhere
    <2>1. InRing' = InRing
      BY Zenon, <1>5 DEF Elsewhere, InRing, Storing
    <2> QED BY <1>4, <1>5, <2>1 DEF Elsewhere
  <1>6. CASE Arrives
    <2>1. Arrived = 0 /\ Arrived' = 1 /\ InRing' = InRing
      BY Zenon, <1>6 DEF Arrives, Arrived, One, InRing
    <2> QED BY <1>2, <1>3, <1>6, <2>1 DEF Arrives, Received
  <1>7. CASE Announced
    <2>1. Arrived = 1 /\ Arrived' = 0 /\ InRing' = InRing
      BY Zenon, <1>7 DEF Announced, Arrived, One, InRing
    <2> QED BY <1>2, <1>3, <1>7, <2>1 DEF Announced, Received
  <1>8. CASE Taken
    <2>1. Storing(rxPc["Rx"]) = 0 /\ Storing(rxPc'["Rx"]) = 1
      BY <1>8 DEF Taken, Storing, One
    <2>2. InRing' = InRing + 1
      BY <1>2, <1>8, <2>1 DEF Taken, InRing
    <2>3. Arrived' = Arrived
      BY Zenon, <1>8 DEF Taken, Arrived
    <2> QED BY <1>2, <1>3, <1>8, <2>2, <2>3 DEF Taken, Received
  <1>9. CASE Puts
    <2>1. \/ rxFIFO'.NbBytes = rxFIFO.NbBytes /\ Storing(rxPc'["Rx"]) = Storing(rxPc["Rx"])
          \/ /\ rxFIFO'.NbBytes = rxFIFO.NbBytes + 1
             /\ Storing(rxPc["Rx"]) = 1 /\ Storing(rxPc'["Rx"]) = 0
      BY <1>1, <1>9, RxBytes DEF Puts, Known
    <2>2. InRing' = InRing
      BY <1>2, <2>1 DEF InRing
    <2> QED BY <1>4, <1>9, <2>2 DEF Puts
  <1>10. CASE Gets
    <2>1. Storing(rxPc'["Rx"]) = Storing(rxPc["Rx"]) /\ Storing(rxPc["Rx"]) \in Nat
      BY <1>10 DEF Gets, Storing, One
    <2>2. CASE rxFIFO'.NbBytes = rxFIFO.NbBytes /\ Fetched(rxPc'[p]) = Fetched(rxPc[p])
      <3>1. Returning' = Returning /\ InRing' = InRing
        BY <1>2, <1>10, <2>1, <2>2 DEF Gets, InRing
      <3> QED BY <1>4, <1>10, <3>1 DEF Gets
    <2>3. CASE /\ rxFIFO'.NbBytes = rxFIFO.NbBytes - 1
               /\ Fetched(rxPc[p]) = 0 /\ Fetched(rxPc'[p]) = 1
      <3>1. Returning = 0 /\ Returning' = 1 /\ InRing = InRing' + 1
        BY <1>2, <1>10, <2>1, <2>3 DEF Gets, InRing
      <3>2. Arrived' = Arrived
        BY Zenon, <1>10 DEF Gets, Arrived
      <3> QED BY <1>2, <1>3, <1>10, <3>1, <3>2 DEF Gets, Received
    <2> QED BY <1>1, <1>10, <2>2, <2>3, RxBytes DEF Gets, Known
  <1>11. CASE Delivers
    <2>1. Len(delivered') = Len(delivered) + 1
      BY <1>11 DEF Delivers, Known, Streams
    <2>2. InRing' = InRing /\ Arrived' = Arrived
      BY Zenon, <1>11 DEF Delivers, InRing, Arrived
    <2> QED BY <1>2, <1>3, <1>11, <2>1, <2>2 DEF Delivers, Received
  <1> QED BY <1>5, <1>6, <1>7, <1>8, <1>9, <1>10, <1>11, Receiving

LEMMA HandedOverStep == Known /\ Base' /\ HandedOver /\ [Next]_vars => HandedOver'
  <1> SUFFICES ASSUME Known, Base', HandedOver, [Next]_vars PROVE HandedOver'
    OBVIOUS
  <1> DEFINE p == "Protocol"  d == "Display"  handed == sent["packet"] + sent["text"]
  <1>1. {"Rx", "Tx", p, d} \subseteq threads
    BY DEF threads
  <1>2. IInv /\ AllPlaces /\ Data
    BY DEF Known, Base
  <1>3. /\ sent["packet"] \in Nat /\ sent["text"] \in Nat
        /\ wire \in Seq(OutBytes) /\ Len(wire) \in Nat
        /\ txFIFO.NbBytes \in Nat /\ txFIFO'.NbBytes \in Nat /\ txPc \in [threads -> Labels]
    <2>1. txFIFO'.NbBytes \in Nat
      BY SerialAssumption DEF Base, TxQ!TypeOK, TxQ!TFIFO
    <2> QED BY <1>1, <1>2, <2>1, TxBytes DEF Known, Data, Streams, Texts
  <1>4. /\ InTxRing \in Int /\ InTxRing' \in Int /\ Filled \in Nat /\ Filled' \in Nat
        /\ handed \in Nat
        /\ Loading(txPc["Tx"]) \in Nat /\ Storing(txPc[p]) \in Nat /\ Storing(txPc[d]) \in Nat
    BY <1>3 DEF InTxRing, Filled, Loading, Storing, One
  <1>5. ASSUME UNCHANGED <<sent, wire>>, Filled' = Filled, InTxRing' = InTxRing
        PROVE  HandedOver'
    BY Zenon, <1>5 DEF HandedOver
  <1>6. ASSUME UNCHANGED <<wire, tdre, txFIFO>>, sent'["packet"] = sent["packet"],
               sent'["text"] = sent["text"], txPc'["Tx"] = txPc["Tx"],
               txPc'[p] = txPc[p], txPc'[d] = txPc[d]
        PROVE  HandedOver'
    BY Zenon, <1>6 DEF HandedOver, Filled, InTxRing, Loading, Storing, One
  <1>7. CASE LineOut
    <2>1. /\ ~ tdre /\ tdre' /\ wire' = Append(wire, txData) /\ txData \in OutBytes
          /\ UNCHANGED <<sent, txFIFO, txPc>>
      BY <1>7 DEF LineOut, txV, Known, Streams
    <2>2. Filled = 1 /\ Filled' = 0
      BY Zenon, <2>1 DEF Filled, One
    <2>3. Len(wire') = Len(wire) + 1
      BY <1>3, <2>1
    <2>4. InTxRing' = InTxRing
      BY Zenon, <2>1 DEF InTxRing, Loading, Storing
    <2> QED BY <1>3, <1>4, <2>1, <2>2, <2>3, <2>4 DEF HandedOver
  <1>8. CASE TxWrite
    <2>1. /\ tdre /\ ~ tdre' /\ UNCHANGED <<wire, sent, txFIFO>>
          /\ txPc["Tx"] = "get_access" /\ txPc' = [txPc EXCEPT !["Tx"] = "get_loaded"]
      BY <1>2, <1>8, WriteEmpty DEF TxWrite, tx!GetLoad, tx!Goto, histV
    <2>2. Filled = 0 /\ Filled' = 1
      BY Zenon, <2>1 DEF Filled, One
    <2>3. /\ Loading(txPc["Tx"]) = 0 /\ Loading(txPc'["Tx"]) = 1
          /\ txPc'[p] = txPc[p] /\ txPc'[d] = txPc[d]
      BY <1>1, <1>3, <2>1 DEF Loading, One
    <2>4. InTxRing' = InTxRing - 1
      <3>1. Storing(txPc'[p]) = Storing(txPc[p]) /\ Storing(txPc'[d]) = Storing(txPc[d])
        BY Zenon, <2>3
      <3> QED BY <1>3, <1>4, <2>1, <2>3, <3>1 DEF InTxRing
    <2> QED BY <1>3, <1>4, <2>1, <2>2, <2>4 DEF HandedOver
  \* A thread that hands over a byte enters FIFO_Put with it.
  <1>9. ASSUME NEW t \in {p, d}, NEW b, tx!PutCall(t, b), UNCHANGED <<wire, tdre>>,
               handed' = handed + 1
        PROVE  HandedOver'
    <2>1. /\ txPc[t] = "idle" /\ txPc' = [txPc EXCEPT ![t] = "put_space"] /\ UNCHANGED txFIFO
      BY <1>9 DEF tx!PutCall, tx!Goto
    <2>2. /\ Storing(txPc[t]) = 0 /\ Storing(txPc'[t]) = 1
          /\ txPc'["Tx"] = txPc["Tx"] /\ \A u \in {p, d} \ {t} : txPc'[u] = txPc[u]
      BY <1>1, <1>3, <2>1 DEF Storing, One
    <2>3. /\ Loading(txPc'["Tx"]) = Loading(txPc["Tx"])
          /\ \A u \in {p, d} \ {t} : Storing(txPc'[u]) = Storing(txPc[u])
      BY Zenon, <2>2
    <2>4. InTxRing' = InTxRing + 1
      <3>1. CASE t = p
        BY <1>3, <1>4, <2>1, <2>2, <2>3, <3>1 DEF InTxRing
      <3>2. CASE t = d
        BY <1>3, <1>4, <2>1, <2>2, <2>3, <3>2 DEF InTxRing
      <3> QED BY <3>1, <3>2
    <2>5. Filled' = Filled
      BY Zenon, <1>9 DEF Filled, One
    <2> QED BY <1>3, <1>4, <1>9, <2>4, <2>5 DEF HandedOver
  <1>10. CASE ProtocolOut
    <2>1. /\ sent' = [sent EXCEPT !["packet"] = @ + 1] /\ UNCHANGED <<wire, tdre>>
          /\ tx!PutCall(p, <<"packet", sent'["packet"]>>)
      BY <1>10 DEF ProtocolOut, uartV
    <2>2. sent'["packet"] = sent["packet"] + 1 /\ sent'["text"] = sent["text"]
      BY <1>2, <2>1 DEF Data, Texts
    <2>3. handed' = handed + 1
      BY <1>3, <2>2
    <2> QED BY <1>9, <2>1, <2>3
  <1>11. CASE DisplayOut
    <2>1. /\ sent' = [sent EXCEPT !["text"] = @ + 1] /\ UNCHANGED <<wire, tdre>>
          /\ tx!PutCall(d, <<"text", sent'["text"]>>)
      BY <1>11 DEF DisplayOut, uartV
    <2>2. sent'["packet"] = sent["packet"] /\ sent'["text"] = sent["text"] + 1
      BY <1>2, <2>1 DEF Data, Texts
    <2>3. handed' = handed + 1
      BY <1>3, <2>2
    <2> QED BY <1>9, <2>1, <2>3
  <1>12. CASE TxGet
    <2>1. /\ UNCHANGED <<wire, tdre, sent, txFIFO>> /\ txPc["Tx"] = "idle"
          /\ txPc' = [txPc EXCEPT !["Tx"] = "get_item"]
      BY <1>12 DEF TxGet, uartV, histV, tx!GetCall, tx!Goto
    <2>2. txPc'["Tx"] = "get_item" /\ txPc'[p] = txPc[p] /\ txPc'[d] = txPc[d]
      BY <1>1, <1>3, <2>1
    <2>3. Loading(txPc'["Tx"]) = Loading(txPc["Tx"])
      BY <2>1, <2>2 DEF Loading, One
    <2>4. InTxRing' = InTxRing /\ Filled' = Filled
      BY Zenon, <2>1, <2>2, <2>3 DEF InTxRing, Filled
    <2> QED BY <1>5, <2>1, <2>4
  <1>13. CASE InTxFIFO("Tx")
    <2>1. /\ UNCHANGED <<wire, tdre, sent>>
          /\ tx!GetEnter("Tx") \/ tx!GetAdvance("Tx") \/ tx!GetLeave("Tx") \/ tx!GetReturn("Tx")
      <3>1. ~ tx!PutStep("Tx")
        BY <1>1, <1>2, TxBytes DEF Known, IInv, TxPlaces, rx!PutLabels, rx!GetLabels
      <3> QED BY <1>13, <3>1 DEF InTxFIFO, uartV, histV
    <2>2. txPc'[p] = txPc[p] /\ txPc'[d] = txPc[d]
      BY <1>1, <1>2, <1>13, Frames DEF TxActs, Frame, threads
    <2>3. \/ txFIFO'.NbBytes = txFIFO.NbBytes /\ Loading(txPc'["Tx"]) = Loading(txPc["Tx"])
          \/ /\ txFIFO'.NbBytes = txFIFO.NbBytes - 1
             /\ Loading(txPc["Tx"]) = 1 /\ Loading(txPc'["Tx"]) = 0
      BY <1>1, <2>1, TxBytes DEF Known
    <2>4. Storing(txPc'[p]) = Storing(txPc[p]) /\ Storing(txPc'[d]) = Storing(txPc[d])
      BY Zenon, <2>2
    <2>5. InTxRing' = InTxRing
      BY <1>3, <1>4, <2>3, <2>4 DEF InTxRing
    <2>6. Filled' = Filled
      BY Zenon, <2>1 DEF Filled, One
    <2> QED BY <1>5, <2>1, <2>5, <2>6
  <1>14. ASSUME NEW t \in {p, d}, InTxFIFO(t)
         PROVE  HandedOver'
    <2>1. /\ UNCHANGED <<wire, tdre, sent>> /\ tx!PutStep(t)
      <3>1. ~ (tx!GetEnter(t) \/ tx!GetAdvance(t) \/ tx!GetLeave(t) \/ tx!GetReturn(t))
        BY <1>1, <1>2, TxBytes
           DEF Known, AllPlaces, ProtocolPlaces, DisplayPlaces, rx!PutLabels, rx!GetLabels
      <3> QED BY <1>14, <3>1 DEF InTxFIFO, uartV, histV
    <2>2. \A u \in {"Tx", p, d} \ {t} : txPc'[u] = txPc[u]
      BY <1>1, <1>2, <1>14, Frames DEF ProtocolActs, DisplayActs, Frame, threads
    <2>3. \/ txFIFO'.NbBytes = txFIFO.NbBytes /\ Storing(txPc'[t]) = Storing(txPc[t])
          \/ /\ txFIFO'.NbBytes = txFIFO.NbBytes + 1
             /\ Storing(txPc[t]) = 1 /\ Storing(txPc'[t]) = 0
      BY <1>1, <2>1, TxBytes DEF Known
    <2>4. /\ Loading(txPc'["Tx"]) = Loading(txPc["Tx"])
          /\ \A u \in {p, d} \ {t} : Storing(txPc'[u]) = Storing(txPc[u])
      BY Zenon, <2>2
    <2>5. InTxRing' = InTxRing
      <3>1. CASE t = p
        BY <1>3, <1>4, <2>3, <2>4, <3>1 DEF InTxRing
      <3>2. CASE t = d
        BY <1>3, <1>4, <2>3, <2>4, <3>2 DEF InTxRing
      <3> QED BY <3>1, <3>2
    <2>6. Filled' = Filled
      BY Zenon, <2>1 DEF Filled, One
    <2> QED BY <1>5, <2>1, <2>5, <2>6
  <1>15. CASE LineIn \/ UART_ISR_Receive \/ UART_ISR_Transmit \/ DisplayTick \/ UNCHANGED vars
    BY <1>2, <1>6, <1>15 DEF LineIn, UART_ISR_Receive, UART_ISR_Transmit, DisplayTick, txV, uartV,
       histV, Data, Texts, vars
  <1>16. CASE \/ RxWait \/ RxPut \/ TxWait \/ TxEnable \/ ProtocolIn \/ ProtocolGot
              \/ ProtocolPacket \/ ProtocolClose \/ DisplayWait \/ DisplayPrint \/ DisplayDone
              \/ \E t \in threads : InRxFIFO(t)
    BY <1>6, <1>16 DEF RxWait, RxPut, TxWait, TxEnable, ProtocolIn, ProtocolGot, ProtocolPacket,
       ProtocolClose, DisplayWait, DisplayPrint, DisplayDone, InRxFIFO, txV, uartV, histV
  <1>17. ~ InTxFIFO("Rx")
    BY <1>1, <1>2, InsideTx DEF AllPlaces, RxPlaces, rx!PutLabels, rx!GetLabels
  <1> QED BY <1>7, <1>8, <1>10, <1>11, <1>12, <1>13, <1>14, <1>15, <1>16, <1>17
         DEF Next, Hardware, Program, threads

LEMMA PrintedStep == Known /\ Printed /\ [Next]_vars => Printed'
  <1> SUFFICES ASSUME Known, Printed, [Next]_vars PROVE Printed'
    OBVIOUS
  <1> DEFINE d == "Display"  ds == "DisplaySemaphore"
  <1>1. d \in threads /\ ds \in semaphores /\ ds \notin rxSems \cup txSems
    BY DEF threads, semaphores, rxSems, txSems
  <1>2. IInv /\ Kernel /\ DisplayPlaces /\ Data
    BY DEF Known, Base, AllPlaces, IInv
  <1>3. /\ sent["text"] \in Nat /\ ticks \in Nat /\ printed \in Nat /\ TextBytes \in Nat
        /\ count[ds] \in Nat /\ count'[ds] \in Nat /\ Serving \in Nat /\ Serving' \in Nat
    <2>1. count'[ds] \in Nat
      BY <1>1, <1>2, TokenStep DEF IInv, Kernel
    <2> QED BY <1>1, <1>2, <2>1, SerialAssumption DEF Data, Texts, Kernel, Printed, Serving, One
  <1>4. ASSUME ticks' - count'[ds] - Serving' = ticks - count[ds] - Serving, ticks' \in Nat,
               sent'["text"] = sent["text"], at'[d] # "out", at[d] # "out"
        PROVE  Printed'
    BY <1>3, <1>4 DEF Printed
  <1>5. ASSUME UNCHANGED <<ticks, printed>>, sent'["text"] = sent["text"],
               at'[d] = at[d], count'[ds] = count[ds], waiters'[ds] = waiters[ds]
        PROVE  Printed'
    BY Zenon, <1>5 DEF Printed, Serving, One
  <1>6. CASE UNCHANGED vars
    BY <1>5, <1>6 DEF vars, osV, progV, histV
  <1>7. CASE DisplayTick
    <2>1. /\ ticks' = ticks + 1 /\ OS_SemaphoreSignal(ds) /\ UNCHANGED <<printed, sent, at>>
      BY <1>7 DEF DisplayTick, progV
    <2>2. count'[ds] + One(d \notin waiters'[ds]) = count[ds] + One(d \notin waiters[ds]) + 1
      BY <1>1, <1>2, <2>1, SignalCounted DEF DisplayPlaces
    <2>3. waiters'[ds] = {} /\ (d \in waiters[ds] => at[d] = "print")
      BY <1>1, <1>2, <2>1, Signalled DEF DisplayPlaces
    <2>4. count'[ds] + Serving' = count[ds] + Serving + 1
      <3>1. CASE d \in waiters[ds]
        BY <1>3, <2>1, <2>2, <2>3, <3>1 DEF Serving, One
      <3>2. CASE d \notin waiters[ds]
        BY <1>3, <2>1, <2>2, <2>3, <3>2 DEF Serving, One
      <3> QED BY <3>1, <3>2
    <2>5. ticks' - count'[ds] - Serving' = ticks - count[ds] - Serving
      BY <1>3, <2>1, <2>4
    <2> QED BY <1>3, <2>1, <2>5 DEF Printed
  <1>8. CASE LineIn \/ LineOut \/ UART_ISR_Receive \/ UART_ISR_Transmit
    <2>1. UNCHANGED <<ticks, printed, at>> /\ sent'["text"] = sent["text"]
      BY <1>2, <1>8 DEF LineIn, LineOut, UART_ISR_Receive, UART_ISR_Transmit, progV, histV, Data,
         Texts
    <2>2. count'[ds] = count[ds] /\ waiters'[ds] = waiters[ds]
      BY <1>1, <1>2, <1>8 DEF LineIn, LineOut, UART_ISR_Receive, UART_ISR_Transmit, osV,
         OS_SemaphoreSignal, Give, HandOver, Kernel
    <2> QED BY <1>5, <2>1, <2>2
  <1>9. CASE RxActs \/ TxActs \/ ProtocolActs
    <2>1. Frame("Rx", "RxSemaphore") \/ Frame("Tx", "TxSemaphore")
          \/ Frame("Protocol", "PacketSemaphore")
      BY <1>2, <1>9, Frames
    <2>2. at'[d] = at[d] /\ count'[ds] = count[ds] /\ waiters'[ds] = waiters[ds]
      BY <1>1, <2>1 DEF Frame, Touches
    <2>3. UNCHANGED <<ticks, printed>> /\ sent'["text"] = sent["text"]
      BY <1>2, <1>9 DEF RxActs, TxActs, ProtocolActs, RxWait, RxPut, TxWait, TxGet, TxWrite,
         TxEnable, ProtocolIn, ProtocolGot, ProtocolPacket, ProtocolOut, ProtocolClose, InRxFIFO,
         InTxFIFO, progV, histV, Data, Texts
    <2> QED BY <1>5, <2>2, <2>3
  <1>10. CASE DisplayWait
    <2>1. /\ OS_SemaphoreWait(ds, d) /\ d \notin waiters[ds] /\ at[d] = "wait" /\ at'[d] = "print"
          /\ UNCHANGED <<ticks, sent>>
      BY <1>1, <1>2, <1>10, StepAt
         DEF DisplayWait, Step, Running, Ready, Places, IInv, histV
    <2>2. count'[ds] + One(d \notin waiters'[ds]) = count[ds]
      BY <1>1, <1>2, <2>1, WaitCounted DEF DisplayPlaces
    <2>3. Serving = 0 /\ Serving' = One(d \notin waiters'[ds])
      BY <2>1 DEF Serving, One
    <2> QED BY <1>3, <1>4, <2>1, <2>2, <2>3
  <1>11. CASE DisplayPrint
    <2>1. /\ d \notin waiters[ds] /\ at[d] = "print" /\ at'[d] = "out" /\ printed' = 0
          /\ UNCHANGED <<ticks, sent, count>>
      BY <1>1, <1>2, <1>11, StepAt
         DEF DisplayPrint, Step, Running, Ready, Places, IInv, histV, osV
    <2>2. Serving = 1 /\ Serving' = 1
      BY <2>1 DEF Serving, One
    <2> QED BY <1>3, <2>1, <2>2 DEF Printed
  <1>12. CASE DisplayOut
    <2>1. /\ at[d] = "out" /\ at'[d] = "out" /\ printed' = printed + 1
          /\ UNCHANGED ticks /\ sent'["text"] = sent["text"] + 1
      BY <1>1, <1>2, <1>12, StepAt DEF DisplayOut, Places, IInv, Data, Texts
    <2>2. Frame(d, ds) /\ Touches(txSems)
      BY <1>1, <1>2, <1>12, Frames, TxCalls DEF DisplayActs, DisplayOut, IInv
    <2>3. count'[ds] = count[ds]
      BY <1>1, <2>2 DEF Touches
    <2>4. Serving = 1 /\ Serving' = 1
      BY <2>1 DEF Serving, One
    <2> QED BY <1>3, <2>1, <2>3, <2>4 DEF Printed
  <1>13. CASE DisplayDone
    <2>1. /\ at[d] = "out" /\ at'[d] = "wait" /\ printed = TextBytes
          /\ UNCHANGED <<ticks, sent, count>>
      BY <1>1, <1>2, <1>13, StepAt DEF DisplayDone, Places, IInv, histV, osV
    <2>2. Serving = 1 /\ Serving' = 0
      BY <2>1 DEF Serving, One
    <2>3. \A n \in Int : (n - 1) * TextBytes + TextBytes = n * TextBytes
      BY <1>3
    <2>4. /\ ticks - count[ds] \in Int
          /\ sent["text"] = ((ticks - count[ds]) - 1) * TextBytes + TextBytes
      BY <1>3, <2>1, <2>2 DEF Printed
    <2>5. sent["text"] = (ticks - count[ds]) * TextBytes
      BY <2>3, <2>4
    <2> QED BY <1>3, <2>1, <2>2, <2>5 DEF Printed
  <1>14. CASE InTxFIFO(d)
    <2>1. UNCHANGED <<at, ticks, printed, sent>> /\ Touches(txSems)
      BY <1>1, <1>2, <1>14, TxCalls DEF InTxFIFO, progV, histV, IInv, tx!GetStep
    <2>2. count'[ds] = count[ds] /\ waiters'[ds] = waiters[ds]
      BY <1>1, <2>1 DEF Touches
    <2> QED BY <1>5, <2>1, <2>2
  <1>15. ~ InRxFIFO(d)
    BY <1>1, <1>2, InsideRx DEF DisplayPlaces, rx!PutLabels, rx!GetLabels
  <1> QED BY <1>6, <1>7, <1>8, <1>9, <1>10, <1>11, <1>12, <1>13, <1>14, <1>15, Actors
         DEF Hardware, DisplayActs

Counted == Received /\ HandedOver /\ Printed

SInv == Known /\ Counted

LEMMA CountedInit == Init => Counted /\ Streams
  <1> SUFFICES ASSUME Init PROVE Counted /\ Streams
    OBVIOUS
  <1>1. /\ \A t \in threads : rxPc[t] = "idle" /\ txPc[t] = "idle"
        /\ \A s \in semaphores : waiters[s] = {} /\ count[s] = InitialCount(s)
        /\ at = [t \in threads |-> IF t = "Protocol" THEN "in" ELSE "wait"]
        /\ rxFIFO.NbBytes = 0 /\ txFIFO.NbBytes = 0
    BY DEF Init, OS_SemaphoreCreate, rx!FIFO_Init, tx!FIFO_Init
  <1>2. /\ {"Rx", "Tx", "Protocol", "Display"} \subseteq threads
        /\ {"RxSemaphore", "DisplaySemaphore"} \subseteq semaphores
        /\ InitialCount("RxSemaphore") = 0 /\ InitialCount("DisplaySemaphore") = 0
    BY DEF threads, semaphores, InitialCount
  <1>3. /\ Returning = 0 /\ RxHeld = 0 /\ Serving = 0
        /\ Storing("idle") = 0 /\ Loading("idle") = 0
    BY <1>1, <1>2 DEF Returning, RxHeld, Serving, Storing, Loading, One, threads
  <1>4. Arrived = 0 /\ Filled = 0
    BY Zenon DEF Init, Arrived, Filled, One
  <1>5. /\ sent["pc"] = 0 /\ sent["packet"] = 0 /\ sent["text"] = 0
        /\ Len(delivered) = 0 /\ Len(wire) = 0 /\ ticks = 0
    BY DEF Init, Texts
  <1>6. Received /\ HandedOver
    BY <1>1, <1>2, <1>3, <1>4, <1>5 DEF Received, HandedOver, InRing, Woken, InTxRing
  <1>7. Printed
    <2>1. (0 - 0 - 0) * TextBytes = 0
      BY SerialAssumption
    <2>2. at["Display"] = "wait"
      BY <1>1, <1>2 
    <2> QED BY <1>1, <1>2, <1>3, <1>5, <2>1, <2>2 DEF Printed
  <1>8. Streams
    BY DEF Init, Streams, OutBytes
  <1> QED BY <1>6, <1>7, <1>8 DEF Counted

LEMMA AllPlacesStep == Base /\ AllPlaces /\ [Next]_vars => AllPlaces'
  BY RxPlacesStep, TxApartStep, ProtocolPlacesStep, DisplayPlacesStep DEF Base, AllPlaces

LEMMA CountedInvariant == Spec => []SInv
  <1>1. Init => AllPlaces /\ Counted /\ Streams
    BY PlacesInit, CountedInit
  <1>2. Base /\ Base' /\ (AllPlaces /\ Counted /\ Streams) /\ [Next]_vars
            => (AllPlaces /\ Counted /\ Streams)'
    BY AllPlacesStep, StreamsStep, ReceivedStep, HandedOverStep, PrintedStep DEF Known, Counted
  <1> QED BY <1>1, <1>2, BaseInvariant, PTL DEF Spec, SInv, Known

\* A sleeper inside a FIFO sleeps on one of that FIFO's semaphores.
LEMMA WhereAsleep ==
    ASSUME Known, NEW t \in threads, ~ Ready(t)
    PROVE  \/ t \in waiters["RxSemaphore"] /\ t = "Rx"
           \/ t \in waiters["TxSemaphore"] /\ t = "Tx"
           \/ t \in waiters["DisplaySemaphore"] /\ t = "Display"
           \/ rxPc[t] # "idle" /\ ~ RxQ!Ready(t)
           \/ txPc[t] # "idle" /\ ~ TxQ!Ready(t)
  <1>1. PICK s \in semaphores : t \in waiters[s]
    BY DEF Ready
  <1>2. CASE s \in rxSems
    <2>1. ~ RxQ!Ready(t)
      BY <1>1, <1>2 DEF RxQ!Ready
    <2>2. rxPc[t] # "idle"
      BY <1>1, <1>2 DEF Known, Base, RxQ!IInv, RxQ!Sleeping, rxSems
    <2> QED BY <2>1, <2>2
  <1>3. CASE s \in txSems
    <2>1. ~ TxQ!Ready(t)
      BY <1>1, <1>3 DEF TxQ!Ready
    <2>2. txPc[t] # "idle"
      BY <1>1, <1>3 DEF Known, Base, TxQ!IInv, TxQ!Sleeping, txSems
    <2> QED BY <2>1, <2>2
  <1>4. CASE s \in {"RxSemaphore", "TxSemaphore", "PacketSemaphore", "DisplaySemaphore"}
    BY <1>1, <1>4 DEF Known, Base, IInv, AllPlaces, RxPlaces, TxPlaces, ProtocolPlaces, DisplayPlaces,
       Sleeper
  <1> QED BY <1>2, <1>3, <1>4 DEF semaphores

\* With every thread asleep both FIFOs rest.
LEMMA AsleepRests ==
    ASSUME Known, Asleep
    PROVE  /\ \A t \in threads :
                  /\ rxPc[t] = "put_space" => rxFIFO.NbBytes = RxSize
                  /\ rxPc[t] = "get_item" => rxFIFO.NbBytes = 0
                  /\ rxPc[t] \in {"idle", "put_space", "get_item"}
           /\ \A t \in threads :
                  /\ txPc[t] = "put_space" => txFIFO.NbBytes = TxSize
                  /\ txPc[t] = "get_item" => txFIFO.NbBytes = 0
                  /\ txPc[t] \in {"idle", "put_space", "get_item"}
  <1> DEFINE Where(t) == \/ t \in waiters["RxSemaphore"] /\ t = "Rx"
                         \/ t \in waiters["TxSemaphore"] /\ t = "Tx"
                         \/ t \in waiters["DisplaySemaphore"] /\ t = "Display"
                         \/ rxPc[t] # "idle" /\ ~ RxQ!Ready(t)
                         \/ txPc[t] # "idle" /\ ~ TxQ!Ready(t)
  <1>1. \A t \in threads : Where(t)
    BY WhereAsleep DEF Asleep
  <1>2. \A t \in threads : rxPc[t] = "idle" \/ txPc[t] = "idle"
    BY DEF Known, AllPlaces, RxPlaces, TxApart, ProtocolPlaces, DisplayPlaces, threads
  <1>3. /\ "Rx" \in waiters["RxSemaphore"] => rxPc["Rx"] = "idle" /\ txPc["Rx"] = "idle"
        /\ "Tx" \in waiters["TxSemaphore"] => rxPc["Tx"] = "idle" /\ txPc["Tx"] = "idle"
        /\ "Display" \in waiters["DisplaySemaphore"]
               => rxPc["Display"] = "idle" /\ txPc["Display"] = "idle"
    BY DEF Known, Base, IInv, AllPlaces, RxPlaces, TxPlaces, TxApart, DisplayPlaces
  <1>4. RxQ!Resting /\ TxQ!Resting
    BY <1>1, <1>2, <1>3 DEF RxQ!Resting, TxQ!Resting
  <1> QED BY <1>4 DEF Known, Base, RxQ!NoLostWakeup, TxQ!NoLostWakeup

\* When nothing can move, nothing is left: no thread sleeps for good with a byte
\* of its own or of another thread to move.
THEOREM NeverStuck == Spec => []NothingStuck
  <1>1. SInv => NothingStuck
    <2> SUFFICES ASSUME SInv, Asleep, isr = "out", ~ rdrf, tdre, ~ tie
                 PROVE  /\ rxFIFO.NbBytes = 0 /\ txFIFO.NbBytes = 0
                        /\ Len(delivered) = sent["pc"]
                        /\ Len(wire) = sent["packet"] + sent["text"]
                        /\ sent["packet"] % PacketBytes = 0
                        /\ sent["text"] = ticks * TextBytes
      BY DEF NothingStuck
    <2>1. /\ {"Rx", "Tx", "Protocol", "Display"} \subseteq threads
          /\ RxSize > 0 /\ TxSize > 0 /\ TextBytes \in Nat
          /\ {"RxSemaphore", "DisplaySemaphore"} \subseteq semaphores
      BY SerialAssumption DEF threads, semaphores
    <2>2. Known /\ IInv /\ Data /\ AllPlaces /\ Counted
      BY DEF SInv, Known, Base
    \* TxThread waits for a byte, since its token is not elsewhere.
    <2>3. "Tx" \notin waiters["TxSemaphore"]
      <3>1. ASSUME "Tx" \in waiters["TxSemaphore"] PROVE FALSE
        <4>1. count["TxSemaphore"] = 0 /\ ~ Holding
          BY <2>2, <3>1 DEF AllPlaces, TxApart, Sleeper, Holding
        <4> QED BY <2>2, <4>1 DEF IInv, Token
      <3> QED BY <3>1
    <2>4. txPc["Tx"] = "get_item" /\ txFIFO.NbBytes = 0
      <3>1. txPc["Tx"] # "idle"
        BY <2>1, <2>2, <2>3, WhereAsleep DEF Asleep, AllPlaces, TxApart
      <3>2. txPc["Tx"] # "put_space"
        BY <2>2 DEF IInv, TxPlaces, rx!GetLabels
      <3> QED BY <2>1, <2>2, <3>1, <3>2, AsleepRests
    \* So nobody waits for room in TxFIFO,
    <2>5. \A t \in threads : txPc[t] # "put_space"
      BY <2>1, <2>2, <2>4, AsleepRests
    <2>6. txPc["Protocol"] = "idle" /\ txPc["Display"] = "idle"
      BY <2>1, <2>2, <2>5, AsleepRests
         DEF AllPlaces, ProtocolPlaces, DisplayPlaces, rx!PutLabels
    \* ProtocolThread waits for a byte,
    <2>7. /\ rxPc["Protocol"] = "get_item" /\ rxFIFO.NbBytes = 0 /\ at["Protocol"] = "got"
      <3>1. rxPc["Protocol"] # "idle"
        BY <2>1, <2>2, <2>6, WhereAsleep DEF Asleep
      <3>2. rxPc["Protocol"] # "put_space" /\ at["Protocol"] = "got"
        BY <2>2, <3>1 DEF AllPlaces, ProtocolPlaces, rx!GetLabels
      <3> QED BY <2>1, <2>2, <3>1, <3>2, AsleepRests
    \* RxThread for the interrupt,
    <2>8. /\ "Rx" \in waiters["RxSemaphore"] /\ count["RxSemaphore"] = 0 /\ rxPc["Rx"] = "idle"
      <3>1. rxPc["Rx"] = "idle" /\ txPc["Rx"] = "idle"
        BY <2>1, <2>2, <2>7, AsleepRests DEF AllPlaces, RxPlaces, rx!PutLabels
      <3> QED BY <2>1, <2>2, <3>1, WhereAsleep DEF Asleep, AllPlaces, RxPlaces, Sleeper
    \* and DisplayThread for a tick.
    <2>9. /\ "Display" \in waiters["DisplaySemaphore"] /\ count["DisplaySemaphore"] = 0
          /\ at["Display"] = "print"
      <3>1. rxPc["Display"] = "idle"
        BY <2>2 DEF AllPlaces, DisplayPlaces
      <3> QED BY <2>1, <2>2, <2>6, <3>1, WhereAsleep DEF Asleep, AllPlaces, DisplayPlaces, Sleeper
    <2>10. Arrived = 0 /\ Filled = 0
      BY Zenon DEF Arrived, Filled, One
    <2>11. Returning = 0 /\ InRing = 0 /\ Woken = 0
      BY <2>7, <2>8 DEF Returning, InRing, Woken, RxHeld, Storing, Fetched, One
    <2>12. InTxRing = 0
      BY <2>4, <2>6 DEF InTxRing, Loading, Storing, One
    <2>13. /\ Len(delivered) \in Nat /\ Len(wire) \in Nat
           /\ sent["pc"] \in Nat /\ sent["packet"] \in Nat /\ sent["text"] \in Nat /\ ticks \in Nat
      BY <2>2 DEF Known, Streams, Data, Texts, Counted, Printed
    <2>14. Len(delivered) = sent["pc"]
      BY <2>2, <2>10, <2>11, <2>13 DEF Counted, Received
    <2>15. Len(wire) = sent["packet"] + sent["text"]
      BY <2>2, <2>10, <2>12, <2>13 DEF Counted, HandedOver
    <2>16. sent["text"] = ticks * TextBytes
      <3>1. Serving = 0
        BY <2>9 DEF Serving, One
      <3>2. ticks - count["DisplaySemaphore"] - Serving = ticks
        BY <2>9, <2>13, <3>1
      <3>3. ticks * TextBytes + 0 = ticks * TextBytes
        BY <2>1, <2>13
      <3> QED BY <2>2, <2>9, <3>2, <3>3 DEF Counted, Printed
    <2>17. sent["packet"] % PacketBytes = 0
      BY <2>2, <2>7 DEF AllPlaces, ProtocolPlaces
    <2> QED BY <2>4, <2>7, <2>14, <2>15, <2>16, <2>17
  <1> QED BY <1>1, CountedInvariant, PTL

-----------------------------------------------------------------------------
(* The bytes from the PC *)

\* The k-th place of the ring, counted from 0.
RxByte(k) == rxFIFO.Buffer[(rxFIFO.Start + k) % RxSize]

\* How many bytes have left the ring.
Out == Len(delivered) + Returning

\* As long as no byte was overwritten, each place on the way holds the byte whose turn
\* it is, and RxThread and the receive buffer do not both hold one.
Fresh ==
    /\ \A i \in 1 .. Len(delivered) : delivered[i] = <<"pc", i>>
    /\ Returning = 1 \/ rxPc["Protocol"] = "get_loaded"
           => rxItem["Protocol"] = <<"pc", Len(delivered) + 1>>
    /\ \A k \in 0 .. rxFIFO.NbBytes - 1 : RxByte(k) = <<"pc", Out + k + 1>>
    /\ Storing(rxPc["Rx"]) = 1 => rxItem["Rx"] = <<"pc", Out + rxFIFO.NbBytes + 1>>
    /\ Woken = 1 => TempData = <<"pc", Out + InRing + 1>>
    /\ rdrf => rxData = <<"pc", sent["pc"]>>
    /\ Woken + Arrived \in 0 .. 1

LEMMA RingPlaces ==
    ASSUME NEW a \in 0 .. RxSize - 1, NEW k \in 0 .. RxSize, NEW m \in 0 .. RxSize - 1
    PROVE  /\ (a + k) % RxSize \in 0 .. RxSize - 1
           /\ k < RxSize /\ (a + k) % RxSize = (a + m) % RxSize => k = m
  BY FIFOConstants, RxQ!Places DEF RxQ!Slots

LEMMA RingNext ==
    ASSUME NEW a \in 0 .. RxSize - 1, NEW k \in 0 .. RxSize - 1
    PROVE  (rx!After(a) + k) % RxSize = (a + (k + 1)) % RxSize
  BY FIFOConstants, RxQ!NextStart DEF RxQ!Slots, RxQ!After, rx!After

LEMMA RingBounds ==
    ASSUME Base
    PROVE  \A t \in threads :
                 /\ rxPc[t] \in {"put_access", "put_stored"} => rxFIFO.NbBytes < RxSize
                 /\ rxPc[t] \in {"get_access", "get_loaded"} => rxFIFO.NbBytes > 0
  BY FIFOConstants, RxQ!Bounds DEF Base

\* What was overrun stays so.
LEMMA OverrunStays == [Next]_vars => (overran => overran')
  BY Zenon DEF Next, Hardware, Program, LineIn, LineOut, UART_ISR_Receive, UART_ISR_Transmit,
     DisplayTick, InRxFIFO, InTxFIFO, RxWait, RxPut, TxWait, TxGet, TxWrite, TxEnable, ProtocolIn,
     ProtocolGot, ProtocolPacket, ProtocolOut, ProtocolClose, DisplayWait, DisplayPrint,
     DisplayOut, DisplayDone, histV, vars

\* A step inside RxFIFO by RxThread, as far as the ring is concerned.
LEMMA PutsRing ==
    ASSUME Known, Puts
    PROVE  \/ /\ UNCHANGED rxFIFO /\ Storing(rxPc'["Rx"]) = Storing(rxPc["Rx"])
           \/ /\ rxPc["Rx"] = "put_access" /\ Storing(rxPc'["Rx"]) = 1
              /\ rxFIFO' = [rxFIFO EXCEPT !.Buffer = [@ EXCEPT ![rxFIFO.End] = rxItem["Rx"]]]
           \/ /\ rxPc["Rx"] = "put_stored" /\ Storing(rxPc'["Rx"]) = 0
              /\ rxFIFO' = [rxFIFO EXCEPT !.End = rx!After(@), !.NbBytes = @ + 1]
  <1>1. "Rx" \in threads /\ rxPc \in [threads -> Labels]
    BY DEF threads, Known, Base, IInv, Threaded
  <1> QED BY <1>1 DEF Puts, rx!PutStep, rx!PutEnter, rx!PutStore, rx!PutAdvance, rx!PutLeave,
             rx!PutReturn, rx!Goto, Storing, One

LEMMA PutsItems == Puts => UNCHANGED rxItem
  BY DEF Puts, rx!PutStep, rx!PutEnter, rx!PutStore, rx!PutAdvance, rx!PutLeave, rx!PutReturn

\* A step inside RxFIFO by ProtocolThread.
LEMMA GetsRing ==
    ASSUME Known, Gets
    PROVE  \/ /\ UNCHANGED <<rxFIFO, rxItem>> /\ Returning' = Returning
              /\ rxPc["Protocol"] # "get_loaded" /\ rxPc'["Protocol"] # "get_loaded"
           \/ /\ rxPc["Protocol"] = "get_access" /\ rxPc'["Protocol"] = "get_loaded"
              /\ Returning = 0 /\ Returning' = 0 /\ UNCHANGED rxFIFO
              /\ rxItem' = [rxItem EXCEPT !["Protocol"] = rxFIFO.Buffer[rxFIFO.Start]]
           \/ /\ rxPc["Protocol"] = "get_loaded" /\ rxPc'["Protocol"] # "get_loaded"
              /\ Returning = 0 /\ Returning' = 1 /\ UNCHANGED rxItem
              /\ rxFIFO' = [rxFIFO EXCEPT !.Start = rx!After(@), !.NbBytes = @ - 1]
  <1>1. "Protocol" \in threads /\ rxPc \in [threads -> Labels]
    BY DEF threads, Known, Base, IInv, Threaded
  <1> QED BY <1>1 DEF Gets, rx!GetStep, rx!GetEnter, rx!GetLoad, rx!GetAdvance, rx!GetLeave,
             rx!GetReturn, rx!Goto, Fetched, One

\* The ring keeps its bytes and Out and InRing are as before.
LEMMA FreshElsewhere ==
    ASSUME Fresh, Elsewhere PROVE Fresh'
  <1>1. Out' = Out /\ InRing' = InRing /\ Arrived' = Arrived
    BY Zenon DEF Elsewhere, Out, InRing, Storing, Arrived
  <1>2. \A k \in 0 .. rxFIFO.NbBytes - 1 : RxByte(k)' = RxByte(k)
    BY DEF Elsewhere, RxByte
  <1>3. Storing(rxPc'["Rx"]) = Storing(rxPc["Rx"])
    BY Zenon DEF Elsewhere
  <1> QED BY <1>1, <1>2, <1>3 DEF Elsewhere, Fresh

LEMMA FreshArrives ==
    ASSUME Known, Fresh, Arrives, ~ overran' PROVE Fresh'
  <1>1. Out' = Out /\ InRing' = InRing /\ Arrived' = 1 /\ Woken' = 0 /\ Woken = 0
    BY Zenon DEF Arrives, Out, InRing, Storing, Arrived, One
  <1>2. \A k \in 0 .. rxFIFO.NbBytes - 1 : RxByte(k)' = RxByte(k)
    BY DEF Arrives, RxByte
  <1> QED BY <1>1, <1>2 DEF Arrives, Fresh

LEMMA FreshAnnounced ==
    ASSUME Known, Received, Fresh, Announced PROVE Fresh'
  <1>1. Out' = Out /\ InRing' = InRing /\ Arrived = 1 /\ Arrived' = 0
    BY Zenon DEF Announced, Out, InRing, Storing, Arrived, One
  <1>2. Numbers
    BY Amounts DEF Known
  <1>3. Woken = 0 /\ Woken' = 1
    BY <1>1, <1>2 DEF Announced, Fresh, Numbers
  <1>4. sent["pc"] = Out + InRing + 1
    BY <1>1, <1>2, <1>3 DEF Received, Out, Numbers
  <1>5. \A k \in 0 .. rxFIFO.NbBytes - 1 : RxByte(k)' = RxByte(k)
    BY DEF Announced, RxByte
  <1>6. TempData' = <<"pc", Out + InRing + 1>>
    BY <1>4 DEF Announced, Fresh
  <1> QED BY <1>1, <1>3, <1>5, <1>6 DEF Announced, Fresh

LEMMA FreshTaken ==
    ASSUME Known, Known', Fresh, Taken PROVE Fresh'
  <1>1. "Rx" \in threads /\ "Protocol" \in threads /\ rxItem \in [threads -> InBytes]
    BY DEF threads, Known, Base, RxQ!TypeOK
  <1>2. Numbers
    BY Amounts DEF Known
  <1>3. Storing(rxPc["Rx"]) = 0 /\ Storing(rxPc'["Rx"]) = 1
    BY DEF Taken, Storing, One
  <1>4. InRing = rxFIFO.NbBytes /\ Out' = Out
    BY <1>2, <1>3 DEF Taken, InRing, Out, Numbers
  <1>5. Arrived' = Arrived
    BY Zenon DEF Taken, Arrived
  <1>6. Woken = 1 /\ Woken' = 0 /\ Arrived = 0
    <2>1. Woken' \in Nat
      BY Amounts DEF Known, Numbers
    <2>2. Woken \in Nat /\ Arrived \in Nat /\ Woken + Arrived \in 0 .. 1 /\ Woken = Woken' + 1
      BY <1>2 DEF Taken, Fresh, Numbers
    <2>3. \A w, v, a \in Nat : w + a \in 0 .. 1 /\ w = v + 1 => w = 1 /\ v = 0 /\ a = 0
      OBVIOUS
    <2> QED BY <2>1, <2>2, <2>3
  <1>7. rxItem'["Rx"] = <<"pc", Out + rxFIFO.NbBytes + 1>>
    BY <1>1, <1>4, <1>6 DEF Taken, Fresh
  <1>8. rxItem'["Protocol"] = rxItem["Protocol"]
    BY <1>1 DEF Taken
  <1>9. \A k \in 0 .. rxFIFO.NbBytes - 1 : RxByte(k)' = RxByte(k)
    BY DEF Taken, RxByte
  <1> QED BY <1>4, <1>5, <1>6, <1>7, <1>8, <1>9 DEF Taken, Fresh

LEMMA FreshPuts ==
    ASSUME Known, Fresh, Puts PROVE Fresh'
  <1>1. /\ "Rx" \in threads /\ UNCHANGED rxItem /\ RxSize \in Nat \ {0}
        /\ rxFIFO \in [Start : 0 .. RxSize - 1, End : 0 .. RxSize - 1, NbBytes : 0 .. RxSize,
                       Buffer : [0 .. RxSize - 1 -> InBytes]]
    BY SerialAssumption, PutsItems DEF threads, Known, Base, RxQ!TypeOK, RxQ!TFIFO, RxQ!Slots
  <1>2. Numbers /\ Out \in Nat
    BY Amounts DEF Known, Numbers, Out
  <1>3. Out' = Out /\ Arrived' = Arrived
    BY Zenon DEF Puts, Out, Arrived
  <1>4. ASSUME InRing' = InRing,
               \A k \in 0 .. rxFIFO'.NbBytes - 1 : RxByte(k)' = <<"pc", Out + k + 1>>,
               Storing(rxPc'["Rx"]) = 1 => rxItem["Rx"] = <<"pc", Out + rxFIFO'.NbBytes + 1>>
        PROVE  Fresh'
    BY <1>1, <1>3, <1>4 DEF Puts, Fresh
  <1>5. CASE UNCHANGED rxFIFO /\ Storing(rxPc'["Rx"]) = Storing(rxPc["Rx"])
    <2>1. InRing' = InRing
      BY Zenon, <1>5 DEF InRing
    <2>2. \A k \in 0 .. rxFIFO.NbBytes - 1 : RxByte(k)' = RxByte(k)
      BY <1>5 DEF RxByte
    <2> QED BY <1>4, <1>5, <2>1, <2>2 DEF Fresh
  \* The byte goes to the place after the last.
  <1>6. CASE /\ rxPc["Rx"] = "put_access" /\ Storing(rxPc'["Rx"]) = 1
             /\ rxFIFO' = [rxFIFO EXCEPT !.Buffer = [@ EXCEPT ![rxFIFO.End] = rxItem["Rx"]]]
    <2>1. /\ rxFIFO'.NbBytes = rxFIFO.NbBytes /\ rxFIFO'.Start = rxFIFO.Start
          /\ rxFIFO'.Buffer = [rxFIFO.Buffer EXCEPT ![rxFIFO.End] = rxItem["Rx"]]
      BY <1>1, <1>6
    <2>2. rxFIFO.NbBytes \in 0 .. RxSize - 1
          /\ rxFIFO.End = (rxFIFO.Start + rxFIFO.NbBytes) % RxSize
      BY <1>1, <1>6, RingBounds DEF Known, Base, RxQ!RInv, RxQ!Ring, RxQ!Place
    <2>3. ASSUME NEW k \in 0 .. rxFIFO.NbBytes - 1
          PROVE  RxByte(k)' = RxByte(k)
      <3>1. k \in 0 .. RxSize /\ k < RxSize /\ k # rxFIFO.NbBytes
        BY <1>1, <2>2
      <3>2. (rxFIFO.Start + k) % RxSize \in 0 .. RxSize - 1
            /\ (rxFIFO.Start + k) % RxSize # rxFIFO.End
        BY <1>1, <2>2, <3>1, RingPlaces
      <3> QED BY <1>1, <2>1, <3>2 DEF RxByte
    <2>4. Storing(rxPc["Rx"]) = 1
      BY <1>6 DEF Storing, One
    <2>5. InRing' = InRing
      BY <1>6, <2>1, <2>4 DEF InRing
    <2> QED BY <1>4, <2>1, <2>3, <2>4, <2>5 DEF Fresh
  \* It is counted: it is now the last.
  <1>7. CASE /\ rxPc["Rx"] = "put_stored" /\ Storing(rxPc'["Rx"]) = 0
             /\ rxFIFO' = [rxFIFO EXCEPT !.End = rx!After(@), !.NbBytes = @ + 1]
    <2>1. /\ rxFIFO'.NbBytes = rxFIFO.NbBytes + 1 /\ rxFIFO'.Start = rxFIFO.Start
          /\ rxFIFO'.Buffer = rxFIFO.Buffer
      BY <1>1, <1>7
    <2>2. Storing(rxPc["Rx"]) = 1
      BY <1>7 DEF Storing, One
    <2>3. RxByte(rxFIFO.NbBytes) = <<"pc", Out + rxFIFO.NbBytes + 1>>
      BY <1>1, <1>7, <2>2
         DEF RxByte, Fresh, Known, Base, RxQ!RInv, RxQ!Ring, RxQ!Place, RxQ!Stored
    <2>4. \A k \in 0 .. rxFIFO'.NbBytes - 1 : RxByte(k)' = <<"pc", Out + k + 1>>
      <3> SUFFICES ASSUME NEW k \in 0 .. rxFIFO'.NbBytes - 1
                   PROVE  RxByte(k)' = <<"pc", Out + k + 1>>
        OBVIOUS
      <3>1. RxByte(k)' = RxByte(k)
        BY <2>1 DEF RxByte
      <3>2. k \in 0 .. rxFIFO.NbBytes - 1 \/ k = rxFIFO.NbBytes
        BY <1>1, <2>1
      <3> QED BY <2>3, <3>1, <3>2 DEF Fresh
    <2>5. InRing' = InRing
      BY <1>1, <1>7, <2>1, <2>2 DEF InRing
    <2> QED BY <1>4, <1>7, <2>4, <2>5
  <1> QED BY <1>5, <1>6, <1>7, PutsRing

LEMMA FreshGets ==
    ASSUME Known, Fresh, Gets PROVE Fresh'
  <1>1. /\ "Rx" \in threads /\ "Protocol" \in threads /\ RxSize \in Nat \ {0}
        /\ rxItem \in [threads -> InBytes]
        /\ rxFIFO \in [Start : 0 .. RxSize - 1, End : 0 .. RxSize - 1, NbBytes : 0 .. RxSize,
                       Buffer : [0 .. RxSize - 1 -> InBytes]]
    BY SerialAssumption DEF threads, Known, Base, RxQ!TypeOK, RxQ!TFIFO, RxQ!Slots
  <1>2. Numbers
    BY Amounts DEF Known
  <1>3. Storing(rxPc'["Rx"]) = Storing(rxPc["Rx"]) /\ Arrived' = Arrived
    BY Zenon DEF Gets, Arrived
  <1>4. CASE /\ UNCHANGED <<rxFIFO, rxItem>> /\ Returning' = Returning
             /\ rxPc["Protocol"] # "get_loaded" /\ rxPc'["Protocol"] # "get_loaded"
    <2>1. InRing' = InRing /\ Out' = Out
      BY Zenon, <1>3, <1>4 DEF InRing, Out, Gets
    <2>2. \A k \in 0 .. rxFIFO.NbBytes - 1 : RxByte(k)' = RxByte(k)
      BY <1>4 DEF RxByte
    <2> QED BY <1>3, <1>4, <2>1, <2>2 DEF Gets, Fresh
  <1>5. CASE /\ rxPc["Protocol"] = "get_access" /\ rxPc'["Protocol"] = "get_loaded"
             /\ Returning = 0 /\ Returning' = 0 /\ UNCHANGED rxFIFO
             /\ rxItem' = [rxItem EXCEPT !["Protocol"] = rxFIFO.Buffer[rxFIFO.Start]]
    <2>1. InRing' = InRing /\ Out' = Out
      BY Zenon, <1>3, <1>5 DEF InRing, Out, Gets
    <2>2. \A k \in 0 .. rxFIFO.NbBytes - 1 : RxByte(k)' = RxByte(k)
      BY <1>5 DEF RxByte
    <2>3. rxFIFO.Buffer[rxFIFO.Start] = <<"pc", Len(delivered) + 1>>
      <3>1. 0 \in 0 .. rxFIFO.NbBytes - 1
        BY <1>1, <1>5, RingBounds DEF Known
      <3>2. (rxFIFO.Start + 0) % RxSize = rxFIFO.Start
        BY <1>1
      <3>3. RxByte(0) = <<"pc", Out + 0 + 1>>
        BY <3>1 DEF Fresh
      <3>4. Out + 0 + 1 = Len(delivered) + 1
        BY <1>2, <1>5 DEF Out, Numbers
      <3> QED BY <3>2, <3>3, <3>4 DEF RxByte
    <2>4. rxItem'["Rx"] = rxItem["Rx"] /\ rxItem'["Protocol"] = <<"pc", Len(delivered) + 1>>
      BY <1>1, <1>5, <2>3
    <2> QED BY <1>3, <1>5, <2>1, <2>2, <2>4 DEF Gets, Fresh
  \* The byte is no longer in the ring: the next one is the first.
  <1>6. CASE /\ rxPc["Protocol"] = "get_loaded" /\ rxPc'["Protocol"] # "get_loaded"
             /\ Returning = 0 /\ Returning' = 1 /\ UNCHANGED rxItem
             /\ rxFIFO' = [rxFIFO EXCEPT !.Start = rx!After(@), !.NbBytes = @ - 1]
    <2>1. /\ rxFIFO'.NbBytes = rxFIFO.NbBytes - 1 /\ rxFIFO'.Start = rx!After(rxFIFO.Start)
          /\ rxFIFO'.Buffer = rxFIFO.Buffer
      BY <1>1, <1>6
    <2>2. Out' = Out + 1 /\ Out \in Nat /\ InRing' = InRing - 1
      BY <1>2, <1>3, <1>6, <2>1 DEF Out, Gets, Numbers, InRing, Storing, One
    <2>3. \A k \in 0 .. rxFIFO'.NbBytes - 1 : RxByte(k)' = <<"pc", Out' + k + 1>>
      <3> SUFFICES ASSUME NEW k \in 0 .. rxFIFO'.NbBytes - 1
                   PROVE  RxByte(k)' = <<"pc", Out' + k + 1>>
        OBVIOUS
      <3>1. k \in 0 .. RxSize - 1 /\ k + 1 \in 0 .. rxFIFO.NbBytes - 1
        BY <1>1, <2>1
      <3>2. RxByte(k)' = RxByte(k + 1)
        BY <1>1, <2>1, <3>1, RingNext DEF RxByte
      <3>3. RxByte(k + 1) = <<"pc", Out + (k + 1) + 1>>
        BY <3>1 DEF Fresh
      <3>4. Out' + k + 1 = Out + (k + 1) + 1
        BY <2>2, <3>1
      <3> QED BY <3>2, <3>3, <3>4
    <2>4. /\ Out' + rxFIFO'.NbBytes + 1 = Out + rxFIFO.NbBytes + 1
          /\ Out' + InRing' + 1 = Out + InRing + 1
      BY <1>1, <1>2, <2>1, <2>2 DEF Numbers
    <2>5. rxItem'["Protocol"] = <<"pc", Len(delivered') + 1>>
      BY <1>6 DEF Gets, Fresh
    <2>6. Storing(rxPc'["Rx"]) = 1 => rxItem'["Rx"] = <<"pc", Out' + rxFIFO'.NbBytes + 1>>
      BY <1>3, <1>6, <2>4 DEF Fresh
    <2>7. Woken' = 1 => TempData' = <<"pc", Out' + InRing' + 1>>
      BY <2>4 DEF Gets, Fresh
    <2> QED BY <1>3, <2>3, <2>5, <2>6, <2>7 DEF Gets, Fresh
  <1> QED BY <1>4, <1>5, <1>6, GetsRing

LEMMA FreshDelivers ==
    ASSUME Known, Fresh, Delivers PROVE Fresh'
  <1>1. /\ delivered \in Seq(InBytes) /\ delivered' \in Seq(InBytes)
        /\ Len(delivered') = Len(delivered) + 1 /\ Len(delivered) \in Nat
        /\ \A i \in 1 .. Len(delivered) : delivered'[i] = delivered[i]
        /\ delivered'[Len(delivered) + 1] = rxItem["Protocol"]
    <2>1. rxItem["Protocol"] \in InBytes
      BY DEF threads, Known, Base, RxQ!TypeOK
    <2> QED BY <2>1 DEF Known, Streams, Delivers
  <1>2. rxItem["Protocol"] = <<"pc", Len(delivered) + 1>>
    BY DEF Delivers, Fresh
  <1>3. \A i \in 1 .. Len(delivered') : delivered'[i] = <<"pc", i>>
    <2> SUFFICES ASSUME NEW i \in 1 .. Len(delivered') PROVE delivered'[i] = <<"pc", i>>
      OBVIOUS
    <2>1. i \in 1 .. Len(delivered) \/ i = Len(delivered) + 1
      BY <1>1
    <2> QED BY <1>1, <1>2, <2>1 DEF Fresh
  <1>4. Out' = Out /\ rxPc["Protocol"] # "get_loaded"
    BY <1>1 DEF Delivers, Out, Returning, Fetched, One
  <1>5. InRing' = InRing /\ Arrived' = Arrived /\ Storing(rxPc'["Rx"]) = Storing(rxPc["Rx"])
    BY Zenon DEF Delivers, InRing, Arrived
  <1>6. \A k \in 0 .. rxFIFO.NbBytes - 1 : RxByte(k)' = RxByte(k)
    BY DEF Delivers, RxByte
  <1> QED BY <1>3, <1>4, <1>5, <1>6 DEF Delivers, Fresh

\* Every byte is returned once and in order unless a second one arrives while RxThread
\* waits for room in RxFIFO: the mailbox is written again only after it was read.
THEOREM Lossless == Spec => []LosslessUnlessFull
  <1>1. Init => overran \/ Fresh
    <2> SUFFICES ASSUME Init PROVE Fresh
      OBVIOUS
    <2>1. /\ delivered = <<>> /\ Len(delivered) = 0 /\ ~ rdrf
          /\ rxPc["Rx"] = "idle" /\ rxPc["Protocol"] = "idle" /\ rxFIFO.NbBytes = 0
          /\ at["Rx"] = "wait" /\ at["Protocol"] = "in" /\ count["RxSemaphore"] = 0
      BY DEF Init, rx!FIFO_Init, OS_SemaphoreCreate, InitialCount, semaphores, rxSems, txSems, threads
    <2>2. Returning = 0 /\ Woken = 0 /\ Storing(rxPc["Rx"]) = 0
      BY <2>1 DEF Returning, Woken, RxHeld, Storing, One
    <2>3. Arrived = 0
      BY Zenon, <2>1 DEF Arrived, One
    <2> QED BY <2>1, <2>2, <2>3 DEF Fresh
  <1>2. SInv /\ SInv' /\ (overran \/ Fresh) /\ [Next]_vars => (overran \/ Fresh)'
    <2> SUFFICES ASSUME SInv, SInv', overran \/ Fresh, [Next]_vars, ~ overran'
                 PROVE  Fresh'
      BY Zenon
    <2>1. Known /\ Known' /\ Received /\ Fresh
      BY Zenon, OverrunStays DEF SInv, Counted
    <2> QED BY <2>1, Receiving, FreshElsewhere, FreshArrives, FreshAnnounced, FreshTaken,
               FreshPuts, FreshGets, FreshDelivers
  <1>3. SInv /\ (overran \/ Fresh) => LosslessUnlessFull
    <2> SUFFICES ASSUME SInv, Fresh PROVE \A i \in DOMAIN delivered : delivered[i] = <<"pc", i>>
      BY Zenon DEF LosslessUnlessFull
    <2>1. DOMAIN delivered = 1 .. Len(delivered)
      BY DEF SInv, Known, Streams
    <2> QED BY <2>1 DEF Fresh
  <1> QED BY <1>1, <1>2, <1>3, CountedInvariant, PTL DEF Spec

-----------------------------------------------------------------------------
(* The bytes to the PC *)

LEMMA SentByNumber ==
    ASSUME NEW x, NEW s, NEW n \in Nat
    PROVE  SentBy(x, s, n) \in Nat /\ IsFiniteSet({j \in 1 .. n : s[j][1] = x})
  <1>1. IsFiniteSet(1 .. n)
    BY FS_Interval
  <1>2. IsFiniteSet({j \in 1 .. n : s[j][1] = x})
    BY <1>1, FS_Subset
  <1> QED BY <1>2, FS_CardinalityType DEF SentBy

LEMMA SentByNone == \A x, s : SentBy(x, s, 0) = 0
  <1> SUFFICES ASSUME NEW x, NEW s PROVE SentBy(x, s, 0) = 0
    OBVIOUS
  <1>1. {j \in 1 .. 0 : s[j][1] = x} = {}
    OBVIOUS
  <1> QED BY <1>1, FS_EmptySet DEF SentBy

\* Sequences that agree so far agree in what they count.
LEMMA SentBySame ==
    ASSUME NEW x, NEW s, NEW r, NEW n \in Nat, \A j \in 1 .. n : s[j] = r[j]
    PROVE  SentBy(x, s, n) = SentBy(x, r, n)
  <1>1. {j \in 1 .. n : s[j][1] = x} = {j \in 1 .. n : r[j][1] = x}
    OBVIOUS
  <1> QED BY <1>1 DEF SentBy

LEMMA SentByNext ==
    ASSUME NEW x, NEW s, NEW n \in Nat
    PROVE  SentBy(x, s, n + 1) = SentBy(x, s, n) + One(s[n + 1][1] = x)
  <1> DEFINE A == {j \in 1 .. n : s[j][1] = x}
             B == {j \in 1 .. n + 1 : s[j][1] = x}
  <1>1. IsFiniteSet(A) /\ SentBy(x, s, n) \in Nat /\ Cardinality(A) = SentBy(x, s, n)
    BY SentByNumber DEF SentBy
  <1>2. CASE s[n + 1][1] = x
    <2>1. B = A \cup {n + 1} /\ n + 1 \notin A
      BY <1>2
    <2>2. Cardinality(B) = Cardinality(A) + 1
      BY <1>1, <2>1, FS_AddElement
    <2> QED BY <1>1, <1>2, <2>2 DEF SentBy, One
  <1>3. CASE s[n + 1][1] # x
    <2>1. B = A
      BY <1>3
    <2> QED BY <1>1, <1>3, <2>1 DEF SentBy, One
  <1> QED BY <1>2, <1>3

\* The bytes on the line and in the transmit buffer, and those behind them in TxFIFO.
Line == IF tdre THEN wire ELSE Append(wire, txData)
Transit == Line \o TxQ!Contents

\* Each byte is the next of its source.
Numbered(s) ==
    \A i \in 1 .. Len(s) : s[i][1] \in Texts /\ s[i][2] = SentBy(s[i][1], s, i)

SenderOf(x) == IF x = "packet" THEN "Protocol" ELSE "Display"
InHand(x) == Storing(txPc[SenderOf(x)])

Ordered ==
    /\ Numbered(Transit)
    /\ \A x \in Texts :
          /\ sent[x] = SentBy(x, Transit, Len(Transit)) + InHand(x)
          /\ InHand(x) = 1 => txItem[SenderOf(x)] = <<x, sent[x]>>

LEMMA NumberedAppend ==
    ASSUME NEW s \in Seq(OutBytes), NEW x \in Texts, Numbered(s),
           NEW b \in OutBytes, b = <<x, SentBy(x, s, Len(s)) + 1>>
    PROVE  /\ Numbered(Append(s, b))
           /\ \A y : SentBy(y, Append(s, b), Len(s) + 1) = SentBy(y, s, Len(s)) + One(x = y)
  <1> DEFINE r == Append(s, b)  n == Len(s)
  <1>1. /\ n \in Nat /\ Len(r) = n + 1 /\ r[n + 1] = b
        /\ \A i \in 1 .. n : r[i] = s[i]
    BY AppendProperties, LenProperties
  <1> HIDE DEF r
  <1>2. \A y : SentBy(y, r, n + 1) = SentBy(y, s, n) + One(x = y)
    <2> SUFFICES ASSUME NEW y PROVE SentBy(y, r, n + 1) = SentBy(y, s, n) + One(x = y)
      OBVIOUS
    <2>1. SentBy(y, r, n + 1) = SentBy(y, r, n) + One(r[n + 1][1] = y)
      BY <1>1, SentByNext
    <2>2. SentBy(y, r, n) = SentBy(y, s, n)
      BY <1>1, SentBySame
    <2>3. r[n + 1][1] = x
      BY <1>1
    <2> QED BY <2>1, <2>2, <2>3
  <1>3. ASSUME NEW i \in 1 .. n + 1
        PROVE  r[i][1] \in Texts /\ r[i][2] = SentBy(r[i][1], r, i)
    <2>1. CASE i = n + 1
      <3>1. SentBy(x, r, n + 1) = SentBy(x, s, n) + 1
        BY <1>2 DEF One
      <3>2. r[i][1] = x /\ r[i][2] = SentBy(x, s, n) + 1
        BY <1>1, <2>1
      <3> QED BY <2>1, <3>1, <3>2
    <2>2. CASE i # n + 1
      <3>1. i \in 1 .. n /\ r[i] = s[i]
        BY <1>1, <2>2
      <3>2. \A j \in 1 .. i : r[j] = s[j]
        BY <1>1, <3>1
      <3>3. SentBy(s[i][1], r, i) = SentBy(s[i][1], s, i)
        BY <3>1, <3>2, SentBySame
      <3> QED BY <3>1, <3>3 DEF Numbered
    <2> QED BY <2>1, <2>2
  <1> QED BY <1>1, <1>2, <1>3 DEF Numbered, r

\* What is on the line is the beginning of what is on its way.
LEMMA LineFirst ==
    ASSUME NEW w \in Seq(OutBytes), NEW d \in OutBytes, NEW c \in Seq(OutBytes),
           NEW s, s = w \o c \/ s = Append(w, d) \o c, Numbered(s)
    PROVE  Numbered(w)
  <1>1. /\ s \in Seq(OutBytes) /\ Len(w) \in Nat /\ Len(s) \in Nat /\ Len(w) <= Len(s)
        /\ \A i \in 1 .. Len(w) : s[i] = w[i]
    <2>1. CASE s = w \o c
      BY <2>1, ConcatProperties, LenProperties
    <2>2. CASE s = Append(w, d) \o c
      <3>1. /\ Append(w, d) \in Seq(OutBytes) /\ Len(Append(w, d)) = Len(w) + 1
            /\ \A i \in 1 .. Len(w) : Append(w, d)[i] = w[i]
        BY AppendProperties
      <3> QED BY <2>2, <3>1, ConcatProperties, LenProperties
    <2> QED BY <2>1, <2>2
  <1>2. ASSUME NEW i \in 1 .. Len(w)
        PROVE  w[i][1] \in Texts /\ w[i][2] = SentBy(w[i][1], w, i)
    <2>1. i \in 1 .. Len(s) /\ i \in Nat /\ s[i] = w[i] /\ \A j \in 1 .. i : s[j] = w[j]
      BY <1>1
    <2>2. SentBy(w[i][1], s, i) = SentBy(w[i][1], w, i)
      BY <2>1, SentBySame
    <2> QED BY <2>1, <2>2 DEF Numbered
  <1> QED BY <1>2 DEF Numbered

\* What a step does to the bytes on their way to the PC: nothing,
Same(x) == /\ sent'[x] = sent[x] /\ InHand(x)' = InHand(x)
           /\ txItem'[SenderOf(x)] = txItem[SenderOf(x)]

Quiet == Transit' = Transit /\ \A x \in Texts : Same(x)

\* the sender of x calls FIFO_Put with the next byte of x,
HandsOver(x) ==
    /\ Transit' = Transit
    /\ sent'[x] = sent[x] + 1
    /\ InHand(x) = 0 /\ InHand(x)' = 1
    /\ txItem'[SenderOf(x)] = <<x, sent'[x]>>
    /\ \A y \in Texts \ {x} : Same(y)

\* or its byte is counted in the ring.
Queues(x) ==
    /\ Transit' = Append(Transit, txItem[SenderOf(x)])
    /\ sent'[x] = sent[x]
    /\ InHand(x) = 1 /\ InHand(x)' = 0
    /\ \A y \in Texts \ {x} : Same(y)

\* The steps that neither fill nor empty the ring or the transmit buffer.
LEMMA TransitRests ==
    ASSUME Known, TxQ!Facts, TxQ!Facts', [Next]_vars, UNCHANGED <<wire, tdre, txData>>,
           \A t \in threads : TxQ!Call(t)' = "done" => TxQ!Call(t) = "done"
    PROVE  Transit' = Transit
  <1>1. [TxQ!Next]_(TxQ!vars)
    BY TxNext DEF Known, Base
  <1>2. TxQ!Contents' = TxQ!Contents
    BY <1>1, FIFOConstants, TxQ!QueueMoves
  <1>3. Line' = Line
    BY Zenon DEF Line
  <1> QED BY <1>2, <1>3 DEF Transit

\* TxThread moves the oldest byte of the ring to the transmit buffer.
LEMMA TransitMoves ==
    ASSUME NEW w \in Seq(OutBytes), NEW c \in Seq(OutBytes), c # <<>>
    PROVE  Append(w, Head(c)) \o Tail(c) = w \o c
  <1> DEFINE l == Append(w, Head(c)) \o Tail(c)  r == w \o c
  <1>1. /\ Head(c) \in OutBytes /\ Head(c) = c[1] /\ Tail(c) \in Seq(OutBytes)
        /\ Len(Tail(c)) = Len(c) - 1 /\ Len(c) \in Nat /\ Len(w) \in Nat
        /\ \A i \in 1 .. Len(c) - 1 : Tail(c)[i] = c[i + 1]
    BY HeadTailProperties, LenProperties
  <1>2. /\ Append(w, Head(c)) \in Seq(OutBytes) /\ Len(Append(w, Head(c))) = Len(w) + 1
        /\ \A i \in 1 .. Len(w) : Append(w, Head(c))[i] = w[i]
        /\ Append(w, Head(c))[Len(w) + 1] = c[1]
    BY <1>1, AppendProperties
  <1>3. /\ l \in Seq(OutBytes) /\ Len(l) = Len(w) + 1 + (Len(c) - 1)
        /\ \A i \in 1 .. Len(w) + 1 + (Len(c) - 1) :
              l[i] = IF i <= Len(w) + 1 THEN Append(w, Head(c))[i] ELSE Tail(c)[i - (Len(w) + 1)]
    <2>1. /\ l \in Seq(OutBytes) /\ Len(l) = Len(Append(w, Head(c))) + Len(Tail(c))
          /\ \A i \in 1 .. Len(Append(w, Head(c))) + Len(Tail(c)) :
                l[i] = IF i <= Len(Append(w, Head(c))) THEN Append(w, Head(c))[i]
                       ELSE Tail(c)[i - Len(Append(w, Head(c)))]
      BY <1>1, <1>2, ConcatProperties
    <2> QED BY <1>1, <1>2, <2>1
  <1>4. /\ r \in Seq(OutBytes) /\ Len(r) = Len(w) + Len(c)
        /\ \A i \in 1 .. Len(w) + Len(c) : r[i] = IF i <= Len(w) THEN w[i] ELSE c[i - Len(w)]
    BY ConcatProperties
  <1> HIDE DEF l, r
  <1>5. Len(l) = Len(r)
    BY <1>1, <1>3, <1>4
  <1>6. ASSUME NEW i \in 1 .. Len(l)
        PROVE  l[i] = r[i]
    <2>1. i \in 1 .. Len(w) + 1 + (Len(c) - 1) /\ i \in 1 .. Len(w) + Len(c)
      BY <1>1, <1>3
    <2>2. CASE i <= Len(w)
      BY <1>1, <1>2, <1>3, <1>4, <2>1, <2>2
    <2>3. CASE i = Len(w) + 1
      <3>1. i - Len(w) = 1 /\ ~ (i <= Len(w))
        BY <1>1, <2>3
      <3> QED BY <1>1, <1>2, <1>3, <1>4, <2>1, <2>3, <3>1
    <2>4. CASE i > Len(w) + 1
      <3>1. /\ i - (Len(w) + 1) \in 1 .. Len(c) - 1 /\ i - (Len(w) + 1) + 1 = i - Len(w)
            /\ ~ (i <= Len(w)) /\ ~ (i <= Len(w) + 1)
        BY <1>1, <2>1, <2>4
      <3> QED BY <1>1, <1>3, <1>4, <2>1, <3>1
    <2> QED BY <1>1, <2>1, <2>2, <2>3, <2>4
  <1>7. l = r
    BY <1>3, <1>4, <1>5, <1>6, SeqEqual
  <1> QED BY <1>7 DEF l, r

LEMMA ConcatAppend ==
    ASSUME NEW w \in Seq(OutBytes), NEW c \in Seq(OutBytes), NEW b \in OutBytes
    PROVE  w \o Append(c, b) = Append(w \o c, b)
  <1>1. Append(c, b) = c \o <<b>> /\ Append(w \o c, b) = (w \o c) \o <<b>>
    BY AppendIsConcat, ConcatProperties
  <1>2. <<b>> \in Seq(OutBytes)
    OBVIOUS
  <1> QED BY <1>1, <1>2, ConcatAssociative

LEMMA Sending ==
    Known /\ TxQ!Facts /\ TxQ!Facts' /\ [Next]_vars =>
        Quiet \/ \E x \in Texts : HandsOver(x) \/ Queues(x)
  <1> SUFFICES ASSUME Known, TxQ!Facts, TxQ!Facts', [Next]_vars
               PROVE  Quiet \/ \E x \in Texts : HandsOver(x) \/ Queues(x)
    OBVIOUS
  <1> DEFINE p == "Protocol"  d == "Display"
  <1>1. /\ {"Rx", "Tx", p, d} \subseteq threads /\ threads = {"Rx", "Tx", p, d}
        /\ Texts = {"packet", "text"} /\ SenderOf("packet") = p /\ SenderOf("text") = d
    BY DEF threads, Texts, SenderOf
  <1>2. /\ IInv /\ AllPlaces /\ Data /\ wire \in Seq(OutBytes)
        /\ txPc \in [threads -> Labels] /\ txItem \in [threads -> OutBytes]
        /\ sent \in [{"pc"} \cup Texts -> Nat]
    BY DEF Known, Base, IInv, Threaded, Streams, Data, TxQ!TypeOK
  <1>3. [TxQ!Next]_(TxQ!vars)
    BY TxNext DEF Known, Base
  \* A step that moves TxFIFO's calls of TxThread only, or none.
  <1>4. ASSUME UNCHANGED <<wire, tdre, txData, txItem>>,
               sent'["packet"] = sent["packet"], sent'["text"] = sent["text"],
               \A u \in threads : txPc'[u] = txPc[u]
        PROVE  Quiet
    <2>1. Transit' = Transit
      BY <1>4, TransitRests DEF TxQ!Call
    <2>2. Same("packet") /\ Same("text")
      BY Zenon, <1>1, <1>4 DEF Same, InHand
    <2> QED BY <1>1, <2>1, <2>2 DEF Quiet
  <1>5. CASE LineOut
    <2>1. /\ ~ tdre /\ tdre' /\ wire' = Append(wire, txData)
          /\ UNCHANGED <<sent, txPc, txItem>>
      BY <1>5 DEF LineOut, txV
    <2>2. TxQ!Contents' = TxQ!Contents
      BY <1>3, <2>1, FIFOConstants, TxQ!QueueMoves DEF TxQ!Call
    <2>3. Line' = Line
      BY Zenon, <2>1 DEF Line
    <2>4. Transit' = Transit /\ Same("packet") /\ Same("text")
      BY Zenon, <2>1, <2>2, <2>3 DEF Transit, Same, InHand
    <2> QED BY <1>1, <2>4 DEF Quiet
  <1>6. CASE TxWrite
    <2>1. /\ tdre /\ ~ tdre' /\ txData' = txItem'["Tx"] /\ UNCHANGED <<wire, sent>>
          /\ txPc["Tx"] = "get_access" /\ txPc' = [txPc EXCEPT !["Tx"] = "get_loaded"]
          /\ txItem' = [txItem EXCEPT !["Tx"] = txFIFO.Buffer[txFIFO.Start]]
      BY <1>2, <1>6, WriteEmpty DEF TxWrite, tx!GetLoad, tx!Goto, histV
    <2>2. /\ TxQ!Contents # <<>> /\ txItem'["Tx"] = Head(TxQ!Contents)
          /\ TxQ!Contents' = Tail(TxQ!Contents)
      <3>1. TxQ!Call("Tx") = "get" /\ TxQ!Call("Tx")' = "done"
        BY <1>1, <1>2, <2>1 DEF TxQ!Call
      <3> QED BY <1>1, <1>3, <3>1, FIFOConstants, TxQ!QueueMoves
    <2>3. TxQ!Contents \in Seq(OutBytes)
      BY FIFOConstants, TxQ!ContentsBytes
    <2>4. Line = wire /\ Line' = Append(wire, Head(TxQ!Contents))
      BY Zenon, <2>1, <2>2 DEF Line
    <2>5. Transit' = Transit
      BY <1>2, <2>2, <2>3, <2>4, TransitMoves DEF Transit
    <2>6. Same("packet") /\ Same("text")
      <3>1. /\ txPc'[p] = txPc[p] /\ txPc'[d] = txPc[d]
            /\ txItem'[p] = txItem[p] /\ txItem'[d] = txItem[d]
        BY <1>1, <1>2, <2>1
      <3> QED BY Zenon, <1>1, <2>1, <3>1 DEF Same, InHand
    <2> QED BY <1>1, <2>5, <2>6 DEF Quiet
  \* A sender calls FIFO_Put with its next byte.
  <1>7. ASSUME NEW x \in Texts, sent' = [sent EXCEPT ![x] = @ + 1],
               tx!PutCall(SenderOf(x), <<x, sent'[x]>>), UNCHANGED <<wire, tdre, txData>>
        PROVE  HandsOver(x)
    <2> DEFINE t == SenderOf(x)
    <2>1. /\ txPc[t] = "idle" /\ txPc' = [txPc EXCEPT ![t] = "put_space"]
          /\ txItem' = [txItem EXCEPT ![t] = <<x, sent'[x]>>] /\ t \in threads
      BY <1>1, <1>7 DEF tx!PutCall, tx!Goto
    <2>2. /\ txPc'[t] = "put_space" /\ txItem'[t] = <<x, sent'[x]>>
          /\ \A u \in threads \ {t} : txPc'[u] = txPc[u] /\ txItem'[u] = txItem[u]
      BY <1>2, <2>1
    <2>3. \A u \in threads : TxQ!Call(u)' = "done" => TxQ!Call(u) = "done"
      BY <2>1, <2>2 DEF TxQ!Call
    <2>4. Transit' = Transit
      BY <1>7, <2>3, TransitRests
    <2>5. InHand(x) = 0 /\ InHand(x)' = 1
      BY <2>1, <2>2 DEF InHand, Storing, One
    <2>6. \A y \in Texts \ {x} : Same(y)
      <3> SUFFICES ASSUME NEW y \in Texts \ {x} PROVE Same(y)
        OBVIOUS
      <3>1. SenderOf(y) \in threads \ {t} /\ sent'[y] = sent[y]
        BY <1>1, <1>2, <1>7
      <3>2. txPc'[SenderOf(y)] = txPc[SenderOf(y)] /\ txItem'[SenderOf(y)] = txItem[SenderOf(y)]
        BY <2>2, <3>1
      <3> QED BY Zenon, <3>1, <3>2 DEF Same, InHand
    <2>7. sent'[x] = sent[x] + 1
      BY <1>2, <1>7
    <2> QED BY <2>2, <2>4, <2>5, <2>6, <2>7 DEF HandsOver
  <1>8. CASE ProtocolOut
    <2>1. "packet" \in Texts /\ HandsOver("packet")
      BY <1>1, <1>7, <1>8 DEF ProtocolOut, uartV
    <2> QED BY <2>1
  <1>9. CASE DisplayOut
    <2>1. "text" \in Texts /\ HandsOver("text")
      BY <1>1, <1>7, <1>9 DEF DisplayOut, uartV
    <2> QED BY <2>1
  \* and goes on with that call.
  <1>10. ASSUME NEW x \in Texts, InTxFIFO(SenderOf(x))
         PROVE  Quiet \/ Queues(x)
    <2> DEFINE t == SenderOf(x)
    <2>1. t \in {p, d} /\ t \in threads
      BY <1>1
    <2>2. UNCHANGED <<wire, tdre, txData, sent>> /\ tx!PutStep(t)
      <3>1. ~ (tx!GetEnter(t) \/ tx!GetAdvance(t) \/ tx!GetLeave(t) \/ tx!GetReturn(t))
        BY <1>1, <1>2, <2>1, TxBytes
           DEF Known, AllPlaces, ProtocolPlaces, DisplayPlaces, rx!PutLabels, rx!GetLabels
      <3> QED BY <1>10, <3>1 DEF InTxFIFO, uartV, histV
    <2>3. UNCHANGED txItem
      BY <2>2 DEF tx!PutStep, tx!PutEnter, tx!PutStore, tx!PutAdvance, tx!PutLeave, tx!PutReturn
    <2>4. \A u \in threads \ {t} : txPc'[u] = txPc[u]
      BY <1>2, <2>1, <2>2, TxCalls DEF IInv
    <2>5. \A y \in Texts \ {x} : Same(y)
      <3> SUFFICES ASSUME NEW y \in Texts \ {x} PROVE Same(y)
        OBVIOUS
      <3>1. SenderOf(y) \in threads \ {t}
        BY <1>1
      <3>2. txPc'[SenderOf(y)] = txPc[SenderOf(y)]
        BY <2>4, <3>1
      <3> QED BY Zenon, <2>2, <2>3, <3>2 DEF Same, InHand
    <2>6. CASE txPc[t] = "put_stored" /\ txPc'[t] = "put_counted"
      <3>1. TxQ!Call(t) = "put" /\ TxQ!Call(t)' = "done"
        BY <2>6 DEF TxQ!Call
      <3>2. TxQ!Contents' = Append(TxQ!Contents, txItem[t])
        BY <1>3, <2>1, <3>1, FIFOConstants, TxQ!QueueMoves
      <3>3. Line' = Line
        BY Zenon, <2>2 DEF Line
      <3>4. Line \in Seq(OutBytes) /\ TxQ!Contents \in Seq(OutBytes) /\ txItem[t] \in OutBytes
        <4>1. Append(wire, txData) \in Seq(OutBytes)
          BY AppendProperties DEF Known, Streams
        <4> QED BY <1>2, <2>1, <4>1, FIFOConstants, TxQ!ContentsBytes DEF Line
      <3>5. Transit' = Append(Transit, txItem[t])
        BY <3>2, <3>3, <3>4, ConcatAppend DEF Transit
      <3>6. InHand(x) = 1 /\ InHand(x)' = 0
        BY <2>6 DEF InHand, Storing, One
      <3> QED BY <2>2, <2>5, <3>5, <3>6 DEF Queues
    <2>7. CASE ~ (txPc[t] = "put_stored" /\ txPc'[t] = "put_counted")
      <3>1. /\ TxQ!Call(t)' = "done" => TxQ!Call(t) = "done"
            /\ InHand(x)' = InHand(x)
        BY <1>2, <2>1, <2>2, <2>7
           DEF tx!PutStep, tx!PutEnter, tx!PutStore, tx!PutAdvance, tx!PutLeave, tx!PutReturn,
               tx!Goto, TxQ!Call, InHand, Storing, One
      <3>2. \A u \in threads \ {t} : TxQ!Call(u)' = TxQ!Call(u)
        BY <2>4 DEF TxQ!Call
      <3>3. Transit' = Transit
        BY <2>2, <3>1, <3>2, TransitRests
      <3>4. Same(x)
        BY Zenon, <2>2, <2>3, <3>1 DEF Same
      <3> QED BY <2>5, <3>3, <3>4 DEF Quiet
    <2> QED BY <2>6, <2>7
  \* TxThread outside the load.
  <1>11. CASE TxGet \/ InTxFIFO("Tx")
    <2>1. UNCHANGED <<wire, tdre, txData, sent>>
      BY <1>11 DEF TxGet, InTxFIFO, uartV, histV
    <2>2. \/ tx!GetCall("Tx") \/ tx!GetEnter("Tx") \/ tx!GetAdvance("Tx")
          \/ tx!GetLeave("Tx") \/ tx!GetReturn("Tx")
      <3>1. ~ tx!PutStep("Tx")
        BY <1>1, <1>2, TxBytes DEF Known, IInv, TxPlaces, rx!PutLabels, rx!GetLabels
      <3> QED BY <1>11, <3>1 DEF InTxFIFO, TxGet
    <2>3. /\ UNCHANGED txItem /\ \A u \in threads \ {"Tx"} : txPc'[u] = txPc[u]
          /\ TxQ!Call("Tx")' = "done" => TxQ!Call("Tx") = "done"
      BY <1>1, <1>2, <2>2
         DEF tx!GetCall, tx!GetEnter, tx!GetAdvance, tx!GetLeave, tx!GetReturn, tx!Goto, TxQ!Call
    <2>4. \A u \in threads : TxQ!Call(u)' = "done" => TxQ!Call(u) = "done"
      BY <2>3 DEF TxQ!Call
    <2>5. Transit' = Transit
      BY <2>1, <2>4, TransitRests
    <2>6. Same("packet") /\ Same("text")
      <3>1. txPc'[p] = txPc[p] /\ txPc'[d] = txPc[d]
        BY <1>1, <2>3
      <3> QED BY Zenon, <1>1, <2>1, <2>3, <3>1 DEF Same, InHand
    <2> QED BY <1>1, <2>5, <2>6 DEF Quiet
  <1>12. CASE LineIn \/ UART_ISR_Receive \/ UART_ISR_Transmit \/ DisplayTick \/ UNCHANGED vars
    BY <1>1, <1>2, <1>4, <1>12 DEF LineIn, UART_ISR_Receive, UART_ISR_Transmit, DisplayTick, txV,
       uartV, histV, vars
  <1>13. CASE \/ RxWait \/ RxPut \/ TxWait \/ TxEnable \/ ProtocolIn \/ ProtocolGot
              \/ ProtocolPacket \/ ProtocolClose \/ DisplayWait \/ DisplayPrint \/ DisplayDone
              \/ \E t \in threads : InRxFIFO(t)
    BY <1>4, <1>13 DEF RxWait, RxPut, TxWait, TxEnable, ProtocolIn, ProtocolGot, ProtocolPacket,
       ProtocolClose, DisplayWait, DisplayPrint, DisplayDone, InRxFIFO, txV, uartV, histV
  <1>14. ~ InTxFIFO("Rx")
    BY <1>1, <1>2, InsideTx DEF AllPlaces, RxPlaces, rx!PutLabels, rx!GetLabels
  <1>15. CASE InTxFIFO(p) \/ InTxFIFO(d)
    BY <1>1, <1>10, <1>15
  <1> QED BY <1>1, <1>5, <1>6, <1>8, <1>9, <1>11, <1>12, <1>13, <1>14, <1>15
         DEF Next, Hardware, Program

LEMMA TransitBytes == Known /\ TxQ!Facts => Transit \in Seq(OutBytes)
  <1> SUFFICES ASSUME Known, TxQ!Facts PROVE Transit \in Seq(OutBytes)
    OBVIOUS
  <1>1. Append(wire, txData) \in Seq(OutBytes) /\ wire \in Seq(OutBytes)
    BY AppendProperties DEF Known, Streams
  <1>2. TxQ!Contents \in Seq(OutBytes)
    BY FIFOConstants, TxQ!ContentsBytes
  <1> QED BY <1>1, <1>2, ConcatProperties DEF Transit, Line

LEMMA OrderedStep == Known /\ TxQ!Facts /\ TxQ!Facts' /\ Ordered /\ [Next]_vars => Ordered'
  <1> SUFFICES ASSUME Known, TxQ!Facts, TxQ!Facts', Ordered, [Next]_vars PROVE Ordered'
    OBVIOUS
  <1> DEFINE Had(x) == SentBy(x, Transit, Len(Transit))
  <1>1. /\ Transit \in Seq(OutBytes) /\ Len(Transit) \in Nat
        /\ txItem \in [threads -> OutBytes] /\ \A x \in Texts : SenderOf(x) \in threads
        /\ \A x \in Texts : sent[x] \in Nat /\ Had(x) \in Nat
    <2>1. Transit \in Seq(OutBytes) /\ Len(Transit) \in Nat
      BY TransitBytes, LenProperties
    <2> QED BY <2>1, SentByNumber
           DEF Known, Base, Data, TxQ!TypeOK, Texts, SenderOf, threads
  <1>2. ASSUME NEW x \in Texts, Same(x), Had(x)' = Had(x)
        PROVE  /\ sent'[x] = Had(x)' + InHand(x)'
               /\ InHand(x)' = 1 => txItem'[SenderOf(x)] = <<x, sent'[x]>>
    BY <1>2 DEF Same, Ordered
  <1>3. CASE Quiet
    <2>1. \A x \in Texts : Had(x)' = Had(x)
      BY <1>3 DEF Quiet
    <2>2. Numbered(Transit)'
      BY <1>3 DEF Quiet, Ordered, Numbered
    <2> QED BY <1>2, <1>3, <2>1, <2>2 DEF Quiet, Ordered
  <1>4. ASSUME NEW x \in Texts, HandsOver(x) PROVE Ordered'
    <2>1. \A y \in Texts : Had(y)' = Had(y)
      BY <1>4 DEF HandsOver
    <2>2. Numbered(Transit)'
      BY <1>4 DEF HandsOver, Ordered, Numbered
    <2>3. /\ sent'[x] = Had(x)' + InHand(x)'
          /\ txItem'[SenderOf(x)] = <<x, sent'[x]>>
      BY <1>1, <1>4, <2>1 DEF HandsOver, Ordered
    <2>4. \A y \in Texts \ {x} : Same(y)
      BY <1>4 DEF HandsOver
    <2> QED BY <1>2, <2>1, <2>2, <2>3, <2>4 DEF Ordered
  <1>5. ASSUME NEW x \in Texts, Queues(x) PROVE Ordered'
    <2> DEFINE b == txItem[SenderOf(x)]
    <2>1. b \in OutBytes /\ b = <<x, Had(x) + 1>> /\ sent[x] = Had(x) + 1
      BY <1>1, <1>5 DEF Queues, Ordered
    <2>2. /\ Numbered(Append(Transit, b)) /\ Len(Append(Transit, b)) = Len(Transit) + 1
          /\ \A y : SentBy(y, Append(Transit, b), Len(Transit) + 1) = Had(y) + One(x = y)
      <3> HIDE DEF Had, b
      <3>1. Numbered(Transit) /\ b = <<x, SentBy(x, Transit, Len(Transit)) + 1>>
        BY <2>1 DEF Ordered, Had
      <3>2. Len(Append(Transit, b)) = Len(Transit) + 1
        BY <1>1, <2>1, AppendProperties
      <3>3. /\ Numbered(Append(Transit, b))
            /\ \A y : SentBy(y, Append(Transit, b), Len(Transit) + 1)
                         = SentBy(y, Transit, Len(Transit)) + One(x = y)
        BY <1>1, <2>1, <3>1, NumberedAppend
      <3> QED BY <3>2, <3>3 DEF Had
    <2>3. Transit' = Append(Transit, b)
      BY <1>5 DEF Queues
    <2>4. Numbered(Transit)' /\ \A y : Had(y)' = Had(y) + One(x = y)
      BY <2>2, <2>3 DEF Numbered
    <2>5. sent'[x] = Had(x)' + InHand(x)' /\ InHand(x)' # 1
      BY <1>1, <1>5, <2>1, <2>4 DEF Queues, One
    <2>6. \A y \in Texts \ {x} : Same(y) /\ Had(y)' = Had(y)
      BY <1>1, <1>5, <2>4 DEF Queues, One
    <2> QED BY <1>2, <2>4, <2>5, <2>6 DEF Ordered
  <1> QED BY <1>3, <1>4, <1>5, Sending

\* The bytes of each source leave on the line once each and in order, whatever the
\* threads that share TxFIFO do to each other.
THEOREM OrderKept == Spec => []InOrder
  <1>1. Init /\ Known /\ TxQ!Facts => Ordered
    <2> SUFFICES ASSUME Init, Known, TxQ!Facts PROVE Ordered
      OBVIOUS
    <2>1. /\ wire = <<>> /\ tdre /\ txFIFO.NbBytes = 0 /\ txPc = [t \in threads |-> "idle"]
          /\ \A x \in Texts : sent[x] = 0
      BY DEF Init, tx!FIFO_Init, Texts
    <2>2. TxQ!Contents = <<>>
      <3>1. TxQ!Loaded = 0
        BY <2>1 DEF TxQ!Loaded
      <3> QED BY <2>1, <3>1 DEF TxQ!Contents
    <2>3. Line = <<>>
      BY Zenon, <2>1 DEF Line
    <2>4. Transit = <<>> /\ Len(Transit) = 0
      BY <2>2, <2>3 DEF Transit
    <2>5. \A x \in Texts : InHand(x) = 0
      BY <2>1 DEF InHand, Storing, One, SenderOf, threads
    <2>6. \A x \in Texts : SentBy(x, Transit, Len(Transit)) = 0
      BY <2>4, SentByNone
    <2> QED BY <2>1, <2>4, <2>5, <2>6 DEF Ordered, Numbered
  <1>2. Known /\ TxQ!Facts /\ Ordered => InOrder
    <2> SUFFICES ASSUME Known, TxQ!Facts, Ordered PROVE InOrder
      OBVIOUS
    <2>1. wire \in Seq(OutBytes) /\ txData \in OutBytes /\ TxQ!Contents \in Seq(OutBytes)
      BY FIFOConstants, TxQ!ContentsBytes DEF Known, Streams
    <2>2. Transit = wire \o TxQ!Contents \/ Transit = Append(wire, txData) \o TxQ!Contents
      BY DEF Transit, Line
    <2>3. Numbered(wire)
      BY <2>1, <2>2, LineFirst DEF Ordered
    <2> QED BY <2>1, <2>3, LenProperties DEF InOrder, Numbered
  <1>3. Spec => []TxQ!Facts
    <2>1. TxQ!Spec => []TxQ!Facts
      BY FIFOConstants, TxQ!FactsInvariant
    <2> QED BY <2>1, SerialFIFOs, PTL
  <1> QED BY <1>1, <1>2, <1>3, OrderedStep, CountedInvariant, PTL DEF Spec, SInv

=============================================================================
