------------------------------- MODULE Readouts -------------------------------
(***************************************************************************)
(* How Display.c and Protocol.c turn the meter's totals into a line on the *)
(* display and into the reply to a request.  Meter_Energy (Joules) and     *)
(* Meter_Cost (cents) are 64-bit fixed-point numbers with a 32-bit         *)
(* fraction; the processor loads and stores them one 32-bit word at a      *)
(* time.  The sizes of the words and of the units are constants.           *)
(***************************************************************************)
EXTENDS Integers

CONSTANTS
    Half,           \* values of a uint16_t: 65536 in the code
    Word,           \* values of a uint32_t: Half * Half
    JoulePerWh,     \* 3600
    WhPerKWh,       \* 1000, and the three decimals of a line
    CentPerDollar,  \* 100, and the two decimals of a line
    MostKWh,        \* 999: a line has no room for more
    MostDollars     \* 9999

ASSUME ReadoutsAssumption ==
    /\ {Half, JoulePerWh, WhPerKWh, CentPerDollar} \subseteq Nat \ {0}
    /\ Word = Half * Half
    /\ {MostKWh, MostDollars} \subseteq Nat
    /\ WhPerKWh <= Half /\ CentPerDollar <= Half /\ Half <= WhPerKWh * JoulePerWh

Halves == {"hi", "lo"}
Quantities == {"energy", "cost"}

\* A 64-bit number and the two words that hold it.
Words(n) == [h \in Halves |-> IF h = "hi" THEN (n \div Word) % Word ELSE n % Word]
Value(words) == words["hi"] * Word + words["lo"]

\* convert1 and convert2: a 32-bit number with a 16-bit fraction, in decimals.
convert(data, decimals) ==
    [integer |-> (data \div Half) % Half,
     decimal |-> ((data % Half) * decimals) \div Half]
convert1(data) == convert(data, WhPerKWh)
convert2(data) == convert(data, CentPerDollar)

Crosses == [integer |-> -1, decimal |-> -1]
Line(line, most) == IF line.integer > most THEN Crosses ELSE line

\* Fault: the cast to 32 bits comes before the division, as in HandleEnergy.
Display_TotalEnergyNarrow(energy) ==
    Line(convert1(((energy \div Half) % Word) \div (WhPerKWh * JoulePerWh)), MostKWh)

Display_TotalEnergy(energy) ==
    Line(convert1(((energy \div (WhPerKWh * JoulePerWh)) \div Half) % Word), MostKWh)

Display_TotalCost(cost) ==
    Line(convert2(((cost \div CentPerDollar) \div Half) % Word), MostDollars)

\* The totals that have bits enough: 64 for the energy, and 32 for the dollars with
\* their fraction.  The largest load takes 40 days (in test mode, 16 minutes) to the
\* first, which is 1193 kWh, and the second is more than that energy can cost.
Room == [q \in Quantities |-> IF q = "energy" THEN Word * Word
                             ELSE Word * Half * CentPerDollar]

\* The reply in Wh: what is left of the Joules in 16 bits, in Wh.
HandleEnergy(energy) == ((((energy \div Half) % Word) \div JoulePerWh) \div Half) % Half

\* The reply in cents and dollars: the dollars are those of the cents that are left.
HandleCost(cost) ==
    LET totalCents == (cost \div Word) % Word
        cents == totalCents % CentPerDollar
    IN  [cents |-> cents, dollars |-> cents \div CentPerDollar]

\* The line of a total that lay between least and most, with decimals units in its
\* integer part: crosses only when there is no room, and otherwise the truth, which
\* the conversion rounds down by at most one unit.
LineOf(line, least, most, unit, decimals, room) ==
    IF line = Crosses
    THEN most >= (room + 1) * decimals * unit
    ELSE line.integer * decimals + line.decimal \in (least \div unit) - 1 .. most \div unit

===============================================================================
