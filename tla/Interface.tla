------------------------------ MODULE Interface ------------------------------
(***************************************************************************)
(* Interface.c: the push button selects what the display shows, and a      *)
(* one-shot timer, re-armed Period times, prints it once per tick and then *)
(* puts the display to sleep.  DisplayStatus, DisplayCnt and the timer are *)
(* shared by PushButtonThread and the timer interrupt without protection   *)
(* (the critical section at Interface.c:114 is commented out).  So are the *)
(* totals: CalcThread preempts DisplayThread between the two words of a    *)
(* total, and ProtocolThread preempts CalcThread.                          *)
(***************************************************************************)
EXTENDS Readouts

CONSTANTS
    Period,         \* the tick that ends a display period (15 in the code)
    MaxPresses,     \* bound: presses of SW1
    Cycles,         \* what a cycle of the mains can add to the two totals
    MaxCycles       \* bound: cycles measured

ASSUME InterfaceAssumption ==
    /\ Period \in Nat \ {0} /\ MaxPresses \in Nat /\ MaxCycles \in Nat
    /\ Cycles \subseteq [Quantities -> Nat]

VARIABLES
    count, waiters,       \* the kernel's semaphores
    at,                   \* the next statement of each thread
    DisplayStatus,
    DisplayCnt,
    chosen,               \* the next status PushButtonThread has read and not yet stored
    armed,                \* the FTM channel will interrupt
    presses,              \* presses so far
    Meter,                \* the words of Meter_Energy and Meter_Cost
    goal, left,           \* CalcThread's new totals and the words it has not stored
    showing,              \* the total DisplayThread prints
    loaded, unread,       \* its words in DisplayThread, and those not loaded yet
    cycles,               \* cycles measured so far
    since,                \* the total when DisplayThread chose to print it
    expired               \* the period ended while PushButtonThread was between its
                          \* read of DisplayStatus and FTM_StartTimer

threads == {"PushButton", "Calc", "Display"}
priority == [t \in threads |-> IF t = "PushButton" THEN 6 ELSE IF t = "Calc" THEN 8 ELSE 9]
semaphores == {"PushButtonSemaphore", "CalcSemaphore", "DisplaySemaphore"}

INSTANCE OS WITH Threads <- threads, Semaphores <- semaphores, Priority <- priority

Statuses == {"DORMANT", "METERING_TIME", "AVERAGE_POWER", "TOTAL_ENERGY", "TOTAL_COST"}

osV == <<count, waiters>>
periodV == <<DisplayStatus, DisplayCnt, chosen, armed, expired>>
calcV == <<Meter, goal, left, cycles>>
lineV == <<showing, loaded, unread, since>>
vars == <<osV, at, periodV, presses, calcV, lineV>>

Interface_Init ==
    /\ OS_SemaphoreCreate([s \in semaphores |-> 0])
    /\ at = [t \in threads |-> "wait"]
    /\ DisplayStatus = "DORMANT"
    /\ DisplayCnt = 0
    /\ chosen = "DORMANT"
    /\ armed = FALSE
    /\ presses = 0 /\ expired = FALSE
    /\ Meter = [q \in Quantities |-> Words(0)]
    /\ goal = Meter /\ left = {} /\ cycles = 0
    /\ showing = "energy" /\ loaded = Words(0) /\ unread = {} /\ since = Words(0)

\* Fault: the DORMANT case falls through to the next one.
FollowingFallsThrough(status) ==
    CASE status \in {"DORMANT", "METERING_TIME"} -> "AVERAGE_POWER"
      [] status = "AVERAGE_POWER" -> "TOTAL_ENERGY"
      [] status = "TOTAL_ENERGY"  -> "TOTAL_COST"
      [] OTHER                    -> "METERING_TIME"

\* The switch of PushButtonThread.
Following(status) ==
    CASE status = "METERING_TIME" -> "AVERAGE_POWER"
      [] status = "AVERAGE_POWER" -> "TOTAL_ENERGY"
      [] status = "TOTAL_ENERGY"  -> "TOTAL_COST"
      [] OTHER                    -> "METERING_TIME"

Running(t) ==
    /\ Ready(t)
    /\ \A u \in threads : priority[u] < priority[t] => ~ Ready(u)

Step(t, from, to) ==
    /\ Running(t)
    /\ at[t] = from
    /\ at' = [at EXCEPT ![t] = to]

\* A press is being handled.
Handling == at["PushButton"] \in {"store", "clear", "start"}

-----------------------------------------------------------------------------
(* Interrupts *)

\* Debounce_SW1_ISR calls PushButtonCallback.
PushButtonCallback ==
    /\ presses < MaxPresses
    /\ presses' = presses + 1
    /\ OS_SemaphoreSignal("PushButtonSemaphore")
    /\ UNCHANGED <<at, periodV, calcV, lineV>>

\* Faults of the callback: it does not stop at the end of the period, or stops
\* without resetting the count, or does not re-arm the channel.
CallbackNeverEnds ==
    /\ armed
    /\ DisplayCnt' = (DisplayCnt + 1) % (Period + 1)
    /\ OS_SemaphoreSignal("DisplaySemaphore")
    /\ UNCHANGED <<at, DisplayStatus, chosen, armed, presses, expired, calcV, lineV>>

CallbackOffByOne ==
    /\ armed
    /\ \/ /\ DisplayCnt = Period + 1
          /\ DisplayCnt' = 0
          /\ DisplayStatus' = "DORMANT"
          /\ armed' = FALSE
          /\ expired' = (expired \/ Handling)
          /\ UNCHANGED osV
       \/ /\ DisplayCnt # Period + 1
          /\ DisplayCnt' = DisplayCnt + 1
          /\ OS_SemaphoreSignal("DisplaySemaphore")
          /\ UNCHANGED <<DisplayStatus, armed, expired>>
    /\ UNCHANGED <<at, chosen, presses, calcV, lineV>>

CallbackNotRearmed ==
    /\ armed
    /\ armed' = FALSE
    /\ \/ /\ DisplayCnt = Period
          /\ DisplayCnt' = 0
          /\ DisplayStatus' = "DORMANT"
          /\ expired' = (expired \/ Handling)
          /\ UNCHANGED osV
       \/ /\ DisplayCnt # Period
          /\ DisplayCnt' = DisplayCnt + 1
          /\ OS_SemaphoreSignal("DisplaySemaphore")
          /\ UNCHANGED <<DisplayStatus, expired>>
    /\ UNCHANGED <<at, chosen, presses, calcV, lineV>>

\* The channel's interrupt: FTM0_ISR disarms the channel and calls
\* DisplayCallback, which re-arms it unless the period is over.
DisplayCallback ==
    /\ armed
    /\ \/ /\ DisplayCnt = Period
          /\ DisplayCnt' = 0
          /\ DisplayStatus' = "DORMANT"
          /\ armed' = FALSE
          /\ expired' = (expired \/ Handling)
          /\ UNCHANGED osV
       \/ /\ DisplayCnt # Period
          /\ DisplayCnt' = DisplayCnt + 1
          /\ OS_SemaphoreSignal("DisplaySemaphore")
          /\ UNCHANGED <<DisplayStatus, armed, expired>>
    /\ UNCHANGED <<at, chosen, presses, calcV, lineV>>

-----------------------------------------------------------------------------
(* PushButtonThread *)

ButtonWait ==
    /\ Step("PushButton", "wait", "read")
    /\ OS_SemaphoreWait("PushButtonSemaphore", "PushButton")
    /\ UNCHANGED <<DisplayStatus, DisplayCnt, chosen, armed, presses, expired, calcV, lineV>>

ButtonRead ==
    /\ Step("PushButton", "read", "store")
    /\ chosen' = Following(DisplayStatus)
    /\ expired' = FALSE
    /\ UNCHANGED <<osV, DisplayStatus, DisplayCnt, armed, presses, calcV, lineV>>

\* Fault: the switch starts the period over without choosing a status.
ButtonStoreForgotten ==
    /\ Step("PushButton", "store", "clear")
    /\ UNCHANGED <<osV, DisplayStatus, DisplayCnt, chosen, armed, presses, expired, calcV, lineV>>

ButtonStore ==
    /\ Step("PushButton", "store", "clear")
    /\ DisplayStatus' = chosen
    /\ UNCHANGED <<osV, DisplayCnt, chosen, armed, presses, expired, calcV, lineV>>

ButtonClear ==
    /\ Step("PushButton", "clear", "start")
    /\ DisplayCnt' = 0
    /\ UNCHANGED <<osV, DisplayStatus, chosen, armed, presses, expired, calcV, lineV>>

\* FTM_StartTimer
ButtonStart ==
    /\ Step("PushButton", "start", "wait")
    /\ armed' = TRUE
    /\ UNCHANGED <<osV, DisplayStatus, DisplayCnt, chosen, presses, expired, calcV, lineV>>

-----------------------------------------------------------------------------
(* CalcThread *)

\* The last sample of a cycle: its thread signals CalcThread.
CycleEnds ==
    /\ cycles < MaxCycles
    /\ cycles' = cycles + 1
    /\ OS_SemaphoreSignal("CalcSemaphore")
    /\ UNCHANGED <<at, periodV, presses, Meter, goal, left, lineV>>

CalcWait ==
    /\ Step("Calc", "wait", "add")
    /\ OS_SemaphoreWait("CalcSemaphore", "Calc")
    /\ UNCHANGED <<periodV, presses, calcV, lineV>>

CalcAdd ==
    /\ Step("Calc", "add", "store")
    /\ \E cycle \in Cycles :
        /\ \A q \in Quantities : Value(Meter[q]) + cycle[q] < Room[q]
        /\ goal' = [q \in Quantities |-> Words(Value(Meter[q]) + cycle[q])]
    /\ left' = Quantities \X Halves
    /\ UNCHANGED <<osV, periodV, presses, Meter, cycles, lineV>>

\* The energy comes first; the compiler orders the words of a total.
CalcStore ==
    /\ \E q \in Quantities, h \in Halves :
        /\ <<q, h>> \in left
        /\ q = "cost" => \A r \in Halves : <<"energy", r>> \notin left
        /\ Meter' = [Meter EXCEPT ![q] = [@ EXCEPT ![h] = goal[q][h]]]
        /\ left' = left \ {<<q, h>>}
    /\ Step("Calc", "store", IF left' = {} THEN "wait" ELSE "store")
    /\ UNCHANGED <<osV, periodV, presses, goal, cycles, lineV>>

-----------------------------------------------------------------------------
(* DisplayThread *)

DisplayWait ==
    /\ Step("Display", "wait", "show")
    /\ OS_SemaphoreWait("DisplaySemaphore", "Display")
    /\ UNCHANGED <<periodV, presses, calcV, lineV>>

\* The switch, when nothing that takes two loads is to be shown.
DisplayOther ==
    /\ DisplayStatus \notin {"TOTAL_ENERGY", "TOTAL_COST"}
    /\ Step("Display", "show", "wait")
    /\ UNCHANGED <<osV, periodV, presses, calcV, lineV>>

DisplayTotal ==
    /\ DisplayStatus \in {"TOTAL_ENERGY", "TOTAL_COST"}
    /\ Step("Display", "show", "load")
    /\ showing' = IF DisplayStatus = "TOTAL_ENERGY" THEN "energy" ELSE "cost"
    /\ since' = Meter[showing']
    /\ unread' = Halves
    /\ UNCHANGED <<osV, periodV, presses, calcV, loaded>>

DisplayLoad ==
    /\ \E h \in unread :
        /\ loaded' = [loaded EXCEPT ![h] = Meter[showing][h]]
        /\ unread' = unread \ {h}
    /\ Step("Display", "load", IF unread' = {} THEN "print" ELSE "load")
    /\ UNCHANGED <<osV, periodV, presses, calcV, showing, since>>

\* Display_TotalEnergy or Display_TotalCost of the loaded words goes to the UART;
\* their locals end.
DisplayPrint ==
    /\ Step("Display", "print", "wait")
    /\ showing' = "energy" /\ loaded' = Words(0) /\ since' = Words(0)
    /\ UNCHANGED <<osV, periodV, presses, calcV, unread>>

-----------------------------------------------------------------------------

ButtonStep == ButtonWait \/ ButtonRead \/ ButtonStore \/ ButtonClear \/ ButtonStart
CalcStep == CalcWait \/ CalcAdd \/ CalcStore
DisplayStep == DisplayWait \/ DisplayOther \/ DisplayTotal \/ DisplayLoad \/ DisplayPrint

Next ==
    \/ PushButtonCallback \/ DisplayCallback \/ CycleEnds
    \/ ButtonStep \/ CalcStep \/ DisplayStep

\* The processor does not idle while a thread is ready, and an armed channel
\* reaches its deadline.  Nobody has to press the button.
Spec ==
    /\ Interface_Init /\ [][Next]_vars
    /\ WF_vars(ButtonStep \/ CalcStep \/ DisplayStep)
    /\ WF_vars(DisplayCallback)

-----------------------------------------------------------------------------
(* Properties *)

TypeOK ==
    /\ at \in [threads -> {"wait", "read", "store", "clear", "start", "add", "show", "load",
                           "print"}]
    /\ {DisplayStatus, chosen} \subseteq Statuses
    /\ DisplayCnt \in 0 .. Period
    /\ {armed, expired} \subseteq BOOLEAN
    /\ count \in [semaphores -> Nat]
    /\ {Meter, goal} \subseteq [Quantities -> [Halves -> Nat]]
    /\ {loaded, since} \subseteq [Halves -> Nat]
    /\ left \subseteq Quantities \X Halves /\ showing \in Quantities /\ unread \subseteq Halves

\* A display that is on has a running timer to switch it off, or the press that
\* switched it on is still being handled.
OnMeansTimed ==
    DisplayStatus # "DORMANT" => armed \/ Handling

\* A dormant display wakes with the metering time, unless its period ended
\* while the press was being handled.
WakesWithTime ==
    [][DisplayStatus = "DORMANT" /\ DisplayStatus' # "DORMANT" /\ ~ expired
        => DisplayStatus' = "METERING_TIME"]_vars

\* A handled press leaves the display on, unless its period ended meanwhile.
PressShows ==
    at["PushButton"] = "start" /\ ~ expired => DisplayStatus = chosen /\ chosen # "DORMANT"

\* What DisplayThread is about to print lies between the total it was asked to print
\* and the total now, also when a cycle ends between its two loads: the Joules and
\* the cents are in the upper word.
LineTrue ==
    at["Display"] = "print" =>
        LET least == Value(since)
            most  == Value(Meter[showing])
        IN  IF showing = "energy"
            THEN LineOf(Display_TotalEnergy(Value(loaded)), least, most,
                        JoulePerWh * Word, WhPerKWh, MostKWh)
            ELSE LineOf(Display_TotalCost(Value(loaded)), least, most,
                        Word, CentPerDollar, MostDollars)

\* ProtocolThread can ask at any time, also between CalcThread's two stores.  Below
\* Half Joules and below a dollar, its replies are the totals.
RepliesTrue ==
    LET stored(q) == \A h \in Halves : <<q, h>> \notin left
        least(q)  == IF stored(q) THEN Value(Meter[q]) ELSE 0
        most(q)   == IF stored(q) THEN Value(Meter[q]) ELSE Value(goal[q])
        cost      == HandleCost(Value(Meter["cost"]))
    IN  /\ most("energy") < Half * Word =>
                HandleEnergy(Value(Meter["energy"]))
                    \in least("energy") \div (JoulePerWh * Word) ..
                        most("energy") \div (JoulePerWh * Word)
        /\ most("cost") < CentPerDollar * Word =>
                cost.dollars * CentPerDollar + cost.cents
                    \in least("cost") \div Word .. most("cost") \div Word

\* The display and the replies tell the totals, as far as they have room for them.
ReadoutsTrue == LineTrue /\ RepliesTrue

\* When the button is left alone, the display goes to sleep for good.
EventuallyDormant == <>[](DisplayStatus = "DORMANT")

=============================================================================
