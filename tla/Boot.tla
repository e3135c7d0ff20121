-------------------------------- MODULE Boot --------------------------------
(***************************************************************************)
(* Start-up: InitModulesThread (main.c) and the initialisation of every    *)
(* module it calls, one kernel call or interrupt enabled at a time, until  *)
(* it deletes itself and RxThread serves what arrived meanwhile.           *)
(*                                                                         *)
(* It begins with interrupts disabled, but each kernel call ends with      *)
(* CPSIE: from the first semaphore created the handlers run whenever their *)
(* interrupt is enabled, between any two statements, before the threads    *)
(* and semaphores that are created later exist.  FTM_Init, LEDs_Init and   *)
(* the clock's handler, which does nothing outside test mode, are left     *)
(* out: they touch no semaphore and create no thread.                      *)
(***************************************************************************)
EXTENDS Integers, Sequences

CONSTANTS
    FIFO_SIZE,                         \* 256 in the code
    MaxBytes, MaxTicks, MaxPresses     \* bounds: interrupts while the meter boots

ASSUME BootAssumption ==
    /\ FIFO_SIZE \in Nat \ {0}
    /\ {MaxBytes, MaxTicks, MaxPresses} \subseteq Nat

VARIABLES
    count,                 \* the count of each semaphore
    pc,                    \* the next statement of InitModulesThread
    masked,                \* PRIMASK
    enabled,               \* the interrupts enabled in the NVIC
    existing,              \* the semaphores created
    created,               \* the threads created and not deleted
    rdrf, TempData,        \* UART2_S1[RDRF], and the byte the handler read
    arrived, ticks, presses,
    signalled, missed,     \* signals to each semaphore; those before it was created
    delivered              \* what RxThread has put into RxFIFO

-----------------------------------------------------------------------------
(* The statements, in the order of the code *)

OS_DisableInterrupts == [does |-> "OS_DisableInterrupts", what |-> "", value |-> 0]
OS_EnableInterrupts == [does |-> "OS_EnableInterrupts", what |-> "", value |-> 0]
create(s, n) == [does |-> "OS_SemaphoreCreate", what |-> s, value |-> n]
thread(t) == [does |-> "OS_ThreadCreate", what |-> t, value |-> 0]
delete(t) == [does |-> "OS_ThreadDelete", what |-> t, value |-> 0]
enable(irq) == [does |-> "enable", what |-> irq, value |-> 0]

\* Fault: the counts of space and items are swapped.
FIFO_InitSwapped(access, space, items) ==
    <<create(access, 1), create(space, 0), create(items, FIFO_SIZE)>>

FIFO_Init(access, space, items) ==
    <<create(access, 1), create(space, FIFO_SIZE), create(items, 0)>>

\* Fault: the interrupt is enabled before the semaphores exist.
UART_InitEnablesFirst ==
    <<enable("UART"), create("TxSemaphore", 1), create("RxSemaphore", 0)>>
    \o FIFO_Init("RxAccess", "RxSpace", "RxItems")
    \o FIFO_Init("TxAccess", "TxSpace", "TxItems")
    \o <<thread("TxThread"), thread("RxThread")>>

\* The receive interrupt is enabled before either FIFO is initialised.
UART_Init ==
    <<create("TxSemaphore", 1), create("RxSemaphore", 0), enable("UART")>>
    \o FIFO_Init("RxAccess", "RxSpace", "RxItems")
    \o FIFO_Init("TxAccess", "TxSpace", "TxItems")
    \o <<thread("TxThread"), thread("RxThread")>>

MyPacket_Init == <<create("PacketSemaphore", 1)>> \o UART_Init

Meter_Init ==
    <<create("Voltage", 0), create("Current", 0), create("Calc", 0),
      thread("CalcThread"), thread("VoltageThread"), thread("CurrentThread"),
      enable("PIT")>>

DAC_Init == <<create("OutputSemaphore", 0), thread("OutputThread")>>

Debounce_Init == <<enable("PORT")>>

Display_Init == <<create("PrintSemaphore", 1)>>

Interface_Init ==
    Debounce_Init \o Display_Init
    \o <<create("PushButtonSemaphore", 0), create("DisplaySemaphore", 0),
         thread("PushButtonThread"), thread("DisplayThread")>>

Protocol_Init == <<thread("ProtocolThread")>>

InitModulesThread ==
    <<OS_DisableInterrupts>>
    \o MyPacket_Init \o Meter_Init \o DAC_Init \o Interface_Init \o Protocol_Init
    \o <<OS_EnableInterrupts, delete("InitModulesThread")>>

-----------------------------------------------------------------------------
(* The kernel *)

\* The priority of each thread.
priority == [InitModulesThread |-> 0, RxThread |-> 1, OutputThread |-> 2, VoltageThread |-> 3,
             CurrentThread |-> 4, ProtocolThread |-> 5, PushButtonThread |-> 6, TxThread |-> 7,
             CalcThread |-> 8, DisplayThread |-> 9]

threads == DOMAIN priority

semaphores == {"PacketSemaphore", "TxSemaphore", "RxSemaphore", "RxAccess", "RxSpace", "RxItems",
               "TxAccess", "TxSpace", "TxItems", "Voltage", "Current", "Calc", "OutputSemaphore",
               "PrintSemaphore", "PushButtonSemaphore", "DisplaySemaphore"}

vars == <<count, pc, masked, enabled, existing, created, rdrf, TempData,
          arrived, ticks, presses, signalled, missed, delivered>>

Init ==
    /\ count = [s \in semaphores |-> 0] /\ existing = {}
    /\ pc = 1 /\ created = {"InitModulesThread"}
    /\ masked = FALSE /\ enabled = {}
    /\ rdrf = FALSE /\ TempData = 0
    /\ arrived = 0 /\ ticks = 0 /\ presses = 0
    /\ signalled = [s \in semaphores |-> 0] /\ missed = signalled
    /\ delivered = <<>>

\* The processor runs the most urgent thread.
Running(t) == t \in created /\ \A u \in created : priority[t] <= priority[u]

\* The next statement of InitModulesThread is of this kind, and is executed.
Executes(kind) ==
    /\ Running("InitModulesThread")
    /\ InitModulesThread[pc].does = kind
    /\ pc' = pc + 1
    /\ UNCHANGED <<rdrf, TempData, arrived, ticks, presses, signalled, missed, delivered>>

What == InitModulesThread[pc].what

Mask ==
    /\ Executes("OS_DisableInterrupts")
    /\ masked' = TRUE
    /\ UNCHANGED <<count, existing, created, enabled>>

Unmask ==
    /\ Executes("OS_EnableInterrupts")
    /\ masked' = FALSE
    /\ UNCHANGED <<count, existing, created, enabled>>

EnableIRQ ==
    /\ Executes("enable")
    /\ enabled' = enabled \cup {What}
    /\ UNCHANGED <<count, existing, created, masked>>

OS_SemaphoreCreate ==
    /\ Executes("OS_SemaphoreCreate")
    /\ existing' = existing \cup {What}
    /\ count' = [count EXCEPT ![What] = InitModulesThread[pc].value]
    /\ masked' = FALSE
    /\ UNCHANGED <<created, enabled>>

OS_ThreadCreate ==
    /\ Executes("OS_ThreadCreate")
    /\ created' = created \cup {What}
    /\ masked' = FALSE
    /\ UNCHANGED <<count, existing, enabled>>

OS_ThreadDelete ==
    /\ Executes("OS_ThreadDelete")
    /\ created' = created \ {What}
    /\ masked' = FALSE
    /\ UNCHANGED <<count, existing, enabled>>

\* OS_SemaphoreSignal for each of S: a semaphore that does not exist yet is a null
\* pointer, and the signal is lost at best.
OS_SemaphoreSignal(S) ==
    /\ count' = [s \in semaphores |-> IF s \in S \cap existing THEN count[s] + 1 ELSE count[s]]
    /\ signalled' = [s \in semaphores |-> IF s \in S THEN signalled[s] + 1 ELSE signalled[s]]
    /\ missed' = [s \in semaphores |-> IF s \in S \ existing THEN missed[s] + 1 ELSE missed[s]]

-----------------------------------------------------------------------------
(* The interrupts while the meter boots, and RxThread after it *)

Booting == "InitModulesThread" \in created

Handled(irq) ==
    /\ irq \in enabled /\ ~ masked
    /\ UNCHANGED <<pc, masked, enabled, existing, created, delivered>>

\* A byte from the PC; the one before it has long been read.
LineIn ==
    /\ Booting /\ "UART" \in enabled
    /\ arrived < MaxBytes /\ ~ rdrf
    /\ arrived' = arrived + 1
    /\ rdrf' = TRUE
    /\ UNCHANGED <<count, pc, masked, enabled, existing, created, TempData, ticks, presses,
                   signalled, missed, delivered>>

UART_ISR ==
    /\ Handled("UART") /\ rdrf
    /\ TempData' = arrived
    /\ rdrf' = FALSE
    /\ OS_SemaphoreSignal({"RxSemaphore"})
    /\ UNCHANGED <<arrived, ticks, presses>>

PIT_ISR ==
    /\ Booting /\ Handled("PIT") /\ ticks < MaxTicks
    /\ ticks' = ticks + 1
    /\ OS_SemaphoreSignal({"Voltage", "Current"})
    /\ UNCHANGED <<rdrf, TempData, arrived, presses>>

Debounce_SW1_ISR ==
    /\ Booting /\ Handled("PORT") /\ presses < MaxPresses
    /\ presses' = presses + 1
    /\ OS_SemaphoreSignal({"PushButtonSemaphore"})
    /\ UNCHANGED <<rdrf, TempData, arrived, ticks>>

\* Fault: RxThread does not wait.
RxThreadUnwaited ==
    /\ Running("RxThread") /\ Len(delivered) < MaxBytes
    /\ delivered' = Append(delivered, TempData)
    /\ UNCHANGED <<count, pc, masked, enabled, existing, created, rdrf, TempData, arrived, ticks,
                   presses, signalled, missed>>

\* RxThread takes a unit of its semaphore and puts TempData into RxFIFO.
RxThread ==
    /\ Running("RxThread") /\ count["RxSemaphore"] > 0
    /\ count' = [count EXCEPT !["RxSemaphore"] = @ - 1]
    /\ delivered' = Append(delivered, TempData)
    /\ UNCHANGED <<pc, masked, enabled, existing, created, rdrf, TempData, arrived, ticks, presses,
                   signalled, missed>>

-----------------------------------------------------------------------------

Statement ==
    Mask \/ Unmask \/ EnableIRQ \/ OS_SemaphoreCreate \/ OS_ThreadCreate \/ OS_ThreadDelete

Interrupt == LineIn \/ UART_ISR \/ PIT_ISR \/ Debounce_SW1_ISR

Next == Statement \/ Interrupt \/ RxThread

Spec == Init /\ [][Next]_vars

-----------------------------------------------------------------------------
(* Properties *)

\* Counts and indexes stay in their types.
TypeOK ==
    /\ count \in [semaphores -> Nat] /\ existing \subseteq semaphores
    /\ pc \in 1 .. Len(InitModulesThread) + 1
    /\ created \subseteq threads /\ masked \in BOOLEAN
    /\ enabled \subseteq {"UART", "PIT", "PORT"}
    /\ TempData \in 0 .. MaxBytes /\ delivered \in Seq(1 .. MaxBytes)

\* The count each semaphore has in the initial states of Serial, Metering, Settings
\* and Interface.
InitialCount(s) ==
    CASE s \in {"RxSpace", "TxSpace"} -> FIFO_SIZE
      [] s \in {"RxAccess", "TxAccess", "TxSemaphore", "PacketSemaphore", "PrintSemaphore"} -> 1
      [] OTHER -> 0

\* Booting makes the state the other modules begin in, and loses no signal of the
\* handlers that already run: every semaphore and thread exists, with its initial
\* count and every signal sent meanwhile.  Only the button can signal too early, for
\* Debounce_Init enables its interrupt before PushButtonSemaphore is created.
HandsOver ==
    ~ Booting =>
        /\ ~ masked
        /\ existing = semaphores /\ created = threads \ {"InitModulesThread"}
        /\ \A s \in semaphores :
               /\ s # "PushButtonSemaphore" => missed[s] = 0
               /\ s # "RxSemaphore" => count[s] = InitialCount(s) + signalled[s] - missed[s]

\* RxThread, whose FIFO did not exist when the first byte came, puts one byte for
\* each that arrived while the meter booted, the same one or, where TempData had been
\* overwritten, a later one, and never goes back.
BytesServed ==
    /\ \A k \in DOMAIN delivered : delivered[k] \in k .. arrived
    /\ \A k \in 2 .. Len(delivered) : delivered[k] >= delivered[k - 1]
    /\ ~ Booting /\ ~ rdrf /\ count["RxSemaphore"] = 0 => Len(delivered) = arrived

=============================================================================
