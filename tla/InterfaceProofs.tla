--------------------------- MODULE InterfaceProofs ---------------------------
(***************************************************************************)
(* The safety of Interface for every display period and any number of      *)
(* presses.  PushButtonThread and the timer interrupt share DisplayStatus  *)
(* without protection; what saves the display is the order of the          *)
(* thread's statements, which Pressed states one by one.  Before that, what *)
(* the conversions of Readouts return; after it, the totals read while they *)
(* are written.                                                             *)
(***************************************************************************)
EXTENDS Interface, TLAPS

-----------------------------------------------------------------------------
(* What the conversions of Readouts return, for words and units of any      *)
(* size: a line of the display and a reply depend on the upper word of a    *)
(* total only, and are right to one unit.                                   *)

\* The quotient is the only number whose multiple reaches closest below.
LEMMA Quotient ==
    ASSUME NEW a \in Int, NEW b \in Nat \ {0}
    PROVE  /\ a \div b \in Int
           /\ (a \div b) * b <= a
           /\ a < (a \div b) * b + b
  <1>1. b \in Int /\ b > 0
    OBVIOUS
  <1>2. a \div b \in Int /\ a % b \in 0 .. b - 1 /\ a = (a \div b) * b + (a % b)
    BY <1>1
  <1> QED BY <1>1, <1>2

\* Multiplying by a positive number keeps the order.
LEMMA Times ==
    ASSUME NEW x \in Int, NEW y \in Int, NEW b \in Nat, x <= y
    PROVE  x * b <= y * b
  OBVIOUS

LEMMA TimesStrict ==
    ASSUME NEW x \in Int, NEW y \in Int, NEW b \in Nat \ {0}, x * b < y * b
    PROVE  x < y
  <1> SUFFICES ASSUME y <= x PROVE FALSE
    OBVIOUS
  <1>1. y * b <= x * b
    BY Times
  <1> QED BY <1>1

LEMMA QuotientIs ==
    ASSUME NEW a \in Int, NEW b \in Nat \ {0}, NEW q \in Int, q * b <= a, a < (q + 1) * b
    PROVE  a \div b = q
  <1> DEFINE d == a \div b
  <1>1. d \in Int /\ d * b <= a /\ a < d * b + b
    BY Quotient
  <1>2. (d + 1) * b = d * b + b
    BY <1>1
  <1> HIDE DEF d
  <1>3. q * b < (d + 1) * b /\ d * b < (q + 1) * b
    BY <1>1, <1>2
  <1>4. q < d + 1
    BY <1>1, <1>3, TimesStrict
  <1>5. d < q + 1
    BY <1>1, <1>3, TimesStrict
  <1>6. d = q
    BY <1>1, <1>4, <1>5
  <1> QED BY <1>6 DEF d

\* Dividing twice is dividing by the product.
LEMMA Twice ==
    ASSUME NEW a \in Int, NEW b \in Nat \ {0}, NEW c \in Nat \ {0}
    PROVE  (a \div b) \div c = a \div (b * c)
  <1> DEFINE d == a \div b
  <1> DEFINE q == d \div c
  <1>1. d \in Int /\ d * b <= a /\ a < d * b + b
    BY Quotient
  <1> HIDE DEF d
  <1>2. q \in Int /\ q * c <= d /\ d < q * c + c
    BY <1>1, Quotient
  <1> HIDE DEF q
  <1>3. b * c \in Nat \ {0}
    OBVIOUS
  <1>4. q * (b * c) <= a
    <2>1. (q * c) * b <= d * b
      BY <1>1, <1>2, Times
    <2>2. q * (b * c) = (q * c) * b
      BY <1>2
    <2> QED BY <1>1, <1>2, <2>1, <2>2
  <1>5. a < (q + 1) * (b * c)
    <2>1. d + 1 <= (q + 1) * c
      BY <1>1, <1>2
    <2>2. (d + 1) * b <= ((q + 1) * c) * b
      BY <1>1, <1>2, <2>1, Times
    <2>3. /\ (d + 1) * b = d * b + b
          /\ (q + 1) * (b * c) = ((q + 1) * c) * b
      BY <1>1, <1>2
    <2>4. d * b \in Int /\ (q + 1) * (b * c) \in Int
      BY <1>1, <1>2
    <2> QED BY <1>1, <2>2, <2>3, <2>4
  <1>6. a \div (b * c) = q
    BY <1>2, <1>3, <1>4, <1>5, QuotientIs
  <1> QED BY <1>6 DEF q, d

\* A larger number has a larger quotient.
LEMMA QuotientKeepsOrder ==
    ASSUME NEW x \in Int, NEW y \in Int, NEW b \in Nat \ {0}, x <= y
    PROVE  x \div b <= y \div b
  <1> DEFINE p == x \div b
  <1> DEFINE q == y \div b
  <1>1. p \in Int /\ p * b <= x
    BY Quotient
  <1>2. q \in Int /\ y < q * b + b
    BY Quotient
  <1> HIDE DEF p, q
  <1>3. (q + 1) * b = q * b + b
    BY <1>2
  <1>4. p * b < (q + 1) * b
    BY <1>1, <1>2, <1>3
  <1>5. p < q + 1
    BY <1>1, <1>2, <1>4, TimesStrict
  <1>6. p <= q
    BY <1>1, <1>2, <1>5
  <1> QED BY <1>6 DEF p, q

-----------------------------------------------------------------------------

\* The constants, and the products of them that occur.
LEMMA Sizes ==
    /\ Half \in Nat \ {0} /\ Word \in Nat \ {0} /\ Word = Half * Half
    /\ JoulePerWh \in Nat \ {0} /\ WhPerKWh \in Nat \ {0} /\ CentPerDollar \in Nat \ {0}
    /\ WhPerKWh <= Half /\ CentPerDollar <= Half /\ Half <= WhPerKWh * JoulePerWh
    /\ MostKWh \in Nat /\ MostDollars \in Nat
  BY ReadoutsAssumption

\* Two words of 32 bits.
WordPair == [Halves -> 0 .. Word - 1]

\* The upper word of a 64-bit number is its integer part.
LEMMA UpperWord ==
    ASSUME NEW words \in WordPair
    PROVE  /\ Value(words) \in Nat
           /\ Value(words) \div Word = words["hi"]
           /\ Value(words) < (words["hi"] + 1) * Word
           /\ words["hi"] * Word <= Value(words)
  <1>1. /\ words["hi"] \in 0 .. Word - 1 /\ words["lo"] \in 0 .. Word - 1
        /\ Word \in Nat \ {0}
    BY Sizes DEF WordPair, Halves
  <1>2. words["hi"] * Word \in Nat /\ (words["hi"] + 1) * Word = words["hi"] * Word + Word
    BY <1>1
  <1>3. /\ Value(words) \in Nat
        /\ words["hi"] * Word <= Value(words)
        /\ Value(words) < (words["hi"] + 1) * Word
    BY <1>1, <1>2 DEF Value
  <1>4. Value(words) \div Word = words["hi"]
    BY <1>1, <1>3, QuotientIs
  <1> QED BY <1>3, <1>4

\* A number of 64 bits is the value of its words.
LEMMA WordsValue ==
    ASSUME NEW n \in Nat, n < Word * Word
    PROVE  /\ Words(n) \in WordPair
           /\ Words(n)["hi"] = n \div Word
           /\ Value(Words(n)) = n
  <1>1. Word \in Nat \ {0}
    BY Sizes
  <1> DEFINE d == n \div Word
  <1>2. d \in Int /\ d * Word <= n /\ n < d * Word + Word
    BY <1>1, Quotient
  <1>3. n % Word \in 0 .. Word - 1 /\ n = d * Word + (n % Word)
    BY <1>1
  <1> HIDE DEF d
  <1>4. d < Word
    BY <1>1, <1>2, TimesStrict
  <1>5. 0 <= d
    <2>1. (d + 1) * Word = d * Word + Word /\ 0 * Word = 0
      BY <1>1, <1>2
    <2>2. 0 * Word < (d + 1) * Word
      BY <1>1, <1>2, <2>1
    <2>3. 0 < d + 1
      BY <1>1, <1>2, <2>2, TimesStrict
    <2> QED BY <1>2, <2>3
  <1>6. d % Word = d
    BY <1>1, <1>2, <1>4, <1>5
  <1>7. Words(n) = [h \in Halves |-> IF h = "hi" THEN d ELSE n % Word]
    BY <1>6 DEF Words, d
  <1>8. Words(n)["hi"] = d /\ Words(n)["lo"] = n % Word /\ Words(n) \in WordPair
    BY <1>1, <1>2, <1>3, <1>4, <1>5, <1>7 DEF Halves, WordPair
  <1>9. Value(Words(n)) = n
    BY <1>3, <1>8 DEF Value
  <1> QED BY <1>8, <1>9 DEF d

-----------------------------------------------------------------------------

\* The quotient of a total by a unit of J words, in terms of the upper word.
LEMMA UpperUnits ==
    ASSUME NEW words \in WordPair, NEW J \in Nat \ {0}
    PROVE  Value(words) \div (J * Word) = words["hi"] \div J
  <1>1. Word \in Nat \ {0}
    BY Sizes
  <1>2. (Value(words) \div Word) \div J = Value(words) \div (Word * J)
    BY <1>1, UpperWord, Twice
  <1>3. Word * J = J * Word
    BY <1>1
  <1> QED BY <1>2, <1>3, UpperWord

\* The line of one total, in D decimals of a unit of J words.
LEMMA OneLine ==
    ASSUME NEW D \in Nat \ {0}, D <= Half, NEW J \in Nat \ {0}, NEW room \in Nat,
           NEW v \in Nat, v < Word * (D * J * Half)
    PROVE  LET line == Line(convert(((v \div (D * J)) \div Half) % Word, D), room)
           IN  IF line = Crosses
               THEN v >= (room + 1) * D * (J * Word)
               ELSE line.integer * D + line.decimal
                        \in (v \div (J * Word)) - 1 .. v \div (J * Word)
  <1> DEFINE M == D * J * Half
  <1> DEFINE x == (v \div (D * J)) \div Half
  <1>1. /\ Half \in Nat \ {0} /\ Word \in Nat \ {0} /\ Word = Half * Half
        /\ M \in Nat \ {0} /\ D * J \in Nat \ {0} /\ J * Word \in Nat \ {0}
    <2>1. Half \in Nat \ {0} /\ Word \in Nat \ {0} /\ Word = Half * Half
      BY Sizes
    <2>2. D * J \in Nat \ {0}
      OBVIOUS
    <2>3. (D * J) * Half \in Nat \ {0} /\ J * Word \in Nat \ {0}
      BY <2>1, <2>2
    <2> QED BY <2>1, <2>2, <2>3
  <1>2. v \in Int
    OBVIOUS
  <1>3. x = v \div M
    BY Zenon, <1>2, <1>1, Twice
  <1>4. x \in Int /\ x * M <= v /\ v < x * M + M
    BY Zenon, <1>2, <1>1, <1>3, Quotient
  <1>5. v < Word * M
    OBVIOUS
  <1>6. M = D * J * Half
    OBVIOUS
  <1> HIDE DEF x, M
  <1>7. x \in 0 .. Word - 1
    <2>1. (x + 1) * M = x * M + M /\ 0 * M = 0
      BY <1>1, <1>4
    <2>2. 0 * M < (x + 1) * M /\ x * M < Word * M
      <3>1. x * M \in Int /\ Word * M \in Int /\ (x + 1) * M \in Int
        BY <1>1, <1>4
      <3> QED BY <1>1, <1>4, <1>5, <2>1, <3>1
    <2>3. 0 < x + 1
      BY <1>1, <1>4, <2>2, TimesStrict
    <2>4. x < Word
      BY <1>1, <1>4, <2>2, TimesStrict
    <2> QED BY <1>1, <1>4, <2>3, <2>4
  <1> DEFINE i == x \div Half
  <1> DEFINE f == x % Half
  <1> DEFINE g == (f * D) \div Half
  <1>8. i \in Int /\ f \in 0 .. Half - 1 /\ x = i * Half + f
    BY <1>1, <1>7
  <1>9. f * D \in Nat
    BY <1>8
  <1>10. g \in Int /\ g * Half <= f * D /\ f * D < g * Half + Half
    BY <1>1, <1>9, Quotient
  <1>11. x % Word = x
    BY <1>1, <1>7
  <1> HIDE DEF i, f, g
  <1>12. i \in 0 .. Half - 1
    <2>1. i * Half < Half * Half /\ 0 * Half < (i + 1) * Half
      BY <1>1, <1>7, <1>8
    <2>2. i < Half
      BY <1>1, <1>8, <2>1, TimesStrict
    <2>3. 0 < i + 1
      BY <1>1, <1>8, <2>1, TimesStrict
    <2> QED BY <1>1, <1>8, <2>2, <2>3
  <1>13. i % Half = i
    BY <1>1, <1>12
  <1>14. convert(((v \div (D * J)) \div Half) % Word, D) = [integer |-> i, decimal |-> g]
    <2>1. convert(x % Word, D) = [integer |-> i, decimal |-> g]
      BY <1>11, <1>13 DEF convert, i, f, g
    <2> QED BY <2>1 DEF x
  <1> DEFINE line == Line([integer |-> i, decimal |-> g], room)
  <1>15. /\ i > room => line = Crosses
         /\ i <= room => line = [integer |-> i, decimal |-> g] /\ line # Crosses
    BY <1>12 DEF Line, Crosses
  <1>16. ASSUME i > room PROVE v >= (room + 1) * D * (J * Word)
    <2>1. (room + 1) * Half <= i * Half
      BY <1>1, <1>12, <1>16, Times
    <2>2. (room + 1) * Half <= x
      BY <1>1, <1>8, <2>1
    <2>3. ((room + 1) * Half) * M <= x * M
      BY <1>1, <1>4, <2>2, Times
    <2>4. ((room + 1) * Half) * M = (room + 1) * D * (J * Word)
      BY <1>1, <1>6
    <2>5. x * M \in Int /\ ((room + 1) * Half) * M \in Int
      BY <1>1, <1>4
    <2> QED BY <1>4, <2>3, <2>4, <2>5
  <1>17. i * D + g \in (v \div (J * Word)) - 1 .. v \div (J * Word)
    <2> DEFINE a == i * D + g
    <2> DEFINE T == v \div (J * Word)
    <2>1. T \in Int /\ T * (J * Word) <= v /\ v < T * (J * Word) + J * Word
      BY Zenon, <1>2, <1>1, Quotient
    <2> HIDE DEF T
    <2>2. (T + 1) * (J * Word) = T * (J * Word) + J * Word
      BY <1>1, <2>1
    <2>3. a \in Int /\ a * Half <= x * D /\ x * D < a * Half + Half
      <3>1. i * D \in Int /\ a \in Int
        BY <1>10, <1>12
      <3>2. a * Half = (i * D) * Half + g * Half
        BY <1>1, <1>10, <3>1
      <3>3. x * D = (i * D) * Half + f * D
        BY <1>1, <1>8
      <3> QED BY <1>1, <1>9, <1>10, <3>1, <3>2, <3>3
    <2> HIDE DEF a
    <2>4. a * (J * Word) <= v
      <3>1. (a * Half) * (J * Half) <= (x * D) * (J * Half)
        BY <1>1, <1>4, <2>3, Times
      <3>2. (a * Half) * (J * Half) = a * (J * Word) /\ (x * D) * (J * Half) = x * M
        BY <1>1, <1>4, <1>6, <2>3
      <3>3. a * (J * Word) \in Int /\ x * M \in Int
        BY <1>1, <1>4, <2>3
      <3> QED BY <1>4, <3>1, <3>2, <3>3
    <2>5. v < (a + 2) * (J * Word)
      <3>1. (x + 1) * D <= (a + 2) * Half
        BY <1>1, <1>4, <2>3
      <3>2. ((x + 1) * D) * (J * Half) <= ((a + 2) * Half) * (J * Half)
        BY <1>1, <1>4, <2>3, <3>1, Times
      <3>3. /\ ((x + 1) * D) * (J * Half) = x * M + M
            /\ ((a + 2) * Half) * (J * Half) = (a + 2) * (J * Word)
        BY <1>1, <1>4, <1>6, <2>3
      <3>4. x * M + M \in Int /\ (a + 2) * (J * Word) \in Int
        BY <1>1, <1>4, <2>3
      <3> QED BY <1>4, <3>2, <3>3, <3>4
    <2>6. T * (J * Word) \in Int /\ (T + 1) * (J * Word) \in Int /\ a * (J * Word) \in Int
          /\ (a + 2) * (J * Word) \in Int
      BY <1>1, <2>1, <2>3
    <2>7. a * (J * Word) < (T + 1) * (J * Word) /\ T * (J * Word) < (a + 2) * (J * Word)
      BY <2>1, <2>2, <2>4, <2>5, <2>6
    <2>8. a < T + 1 /\ T < a + 2
      BY <1>1, <2>1, <2>3, <2>7, TimesStrict
    <2>9. a \in T - 1 .. T
      BY <2>1, <2>3, <2>8
    <2> QED BY <2>9 DEF a, T
  <1> QED BY <1>14, <1>15, <1>16, <1>17, <1>12

\* The line of words that were loaded between two totals.
LEMMA LineBetween ==
    ASSUME NEW D \in Nat \ {0}, D <= Half, NEW J \in Nat \ {0}, NEW room \in Nat,
           NEW words \in WordPair, NEW low \in WordPair, NEW high \in WordPair,
           low["hi"] <= words["hi"], words["hi"] <= high["hi"], words["hi"] < D * J * Half
    PROVE  LineOf(Line(convert(((Value(words) \div (D * J)) \div Half) % Word, D), room),
                  Value(low), Value(high), J * Word, D, room)
  <1> DEFINE v == Value(words)
  <1> DEFINE line == Line(convert(((v \div (D * J)) \div Half) % Word, D), room)
  <1> DEFINE N == (room + 1) * D * J
  <1>1. /\ Half \in Nat \ {0} /\ Word \in Nat \ {0} /\ N \in Nat /\ J * Word \in Nat
        /\ D * J * Half \in Nat
    BY Sizes
  <1>2. /\ words["hi"] \in Nat /\ low["hi"] \in Nat /\ high["hi"] \in Nat
        /\ v \in Nat /\ v < (words["hi"] + 1) * Word
        /\ Value(high) \in Nat /\ high["hi"] * Word <= Value(high)
    BY <1>1, UpperWord DEF WordPair, Halves
  <1>3. (room + 1) * D * (J * Word) = N * Word
    BY <1>1
  <1>4. v < Word * (D * J * Half)
    <2>1. (words["hi"] + 1) * Word <= (D * J * Half) * Word
      BY <1>1, <1>2, Times
    <2>2. (D * J * Half) * Word = Word * (D * J * Half)
      BY <1>1
    <2>3. (words["hi"] + 1) * Word \in Int /\ Word * (D * J * Half) \in Int
      BY <1>1, <1>2
    <2> QED BY <1>2, <2>1, <2>2, <2>3
  <1> HIDE DEF v
  <1>5. IF line = Crosses
        THEN v >= (room + 1) * D * (J * Word)
        ELSE line.integer * D + line.decimal
                 \in (v \div (J * Word)) - 1 .. v \div (J * Word)
    BY <1>2, <1>4, OneLine
  <1> HIDE DEF line, N
  <1>6. ASSUME line = Crosses PROVE Value(high) >= (room + 1) * D * (J * Word)
    <2>1. N * Word < (words["hi"] + 1) * Word
      BY <1>1, <1>2, <1>3, <1>5, <1>6
    <2>2. N < words["hi"] + 1
      BY <1>1, <1>2, <2>1, TimesStrict
    <2>3. N * Word <= high["hi"] * Word
      BY <1>1, <1>2, <2>2, Times
    <2> QED BY <1>1, <1>2, <1>3, <2>3
  <1>7. /\ v \div (J * Word) = words["hi"] \div J
        /\ Value(low) \div (J * Word) = low["hi"] \div J
        /\ Value(high) \div (J * Word) = high["hi"] \div J
    BY UpperUnits DEF v
  <1>8. /\ low["hi"] \div J <= words["hi"] \div J /\ words["hi"] \div J <= high["hi"] \div J
        /\ low["hi"] \div J \in Int /\ words["hi"] \div J \in Int /\ high["hi"] \div J \in Int
    <2>1. low["hi"] \in Int /\ words["hi"] \in Int /\ high["hi"] \in Int /\ J \in Nat \ {0}
      BY <1>2
    <2> QED BY Zenon, <2>1, Quotient, QuotientKeepsOrder
  <1>9. ASSUME line # Crosses
        PROVE  line.integer * D + line.decimal
                   \in (Value(low) \div (J * Word)) - 1 .. Value(high) \div (J * Word)
    BY <1>5, <1>7, <1>8, <1>9
  <1> QED BY <1>6, <1>9 DEF LineOf, line, v

-----------------------------------------------------------------------------

\* The line of the energy.
LEMMA EnergyLine ==
    ASSUME NEW words \in WordPair, NEW low \in WordPair, NEW high \in WordPair,
           low["hi"] <= words["hi"], words["hi"] <= high["hi"]
    PROVE  LineOf(Display_TotalEnergy(Value(words)), Value(low), Value(high),
                  JoulePerWh * Word, WhPerKWh, MostKWh)
  <1>1. /\ words["hi"] \in Nat /\ words["hi"] < Half * Half
        /\ Half * Half <= WhPerKWh * JoulePerWh * Half
    BY Sizes, Times DEF WordPair, Halves
  <1>2. words["hi"] < WhPerKWh * JoulePerWh * Half
    BY <1>1, Sizes
  <1> QED BY <1>2, Sizes, LineBetween DEF Display_TotalEnergy, convert1

\* The line of the cost.
LEMMA CostLine ==
    ASSUME NEW words \in WordPair, NEW low \in WordPair, NEW high \in WordPair,
           low["hi"] <= words["hi"], words["hi"] <= high["hi"],
           words["hi"] < Half * CentPerDollar
    PROVE  LineOf(Display_TotalCost(Value(words)), Value(low), Value(high),
                  Word, CentPerDollar, MostDollars)
  <1>1. /\ words["hi"] < CentPerDollar * 1 * Half
        /\ CentPerDollar * 1 = CentPerDollar /\ 1 * Word = Word
        /\ 1 \in Nat \ {0}
    BY Sizes
  <1>2. LineOf(Line(convert(((Value(words) \div (CentPerDollar * 1)) \div Half) % Word,
                            CentPerDollar), MostDollars),
               Value(low), Value(high), 1 * Word, CentPerDollar, MostDollars)
    BY <1>1, Sizes, LineBetween
  <1> QED BY <1>1, <1>2 DEF Display_TotalCost, convert2

\* Below Half Joules the reply of the energy is the energy, in Wh.
LEMMA EnergyReply ==
    ASSUME NEW words \in WordPair, words["hi"] < Half
    PROVE  HandleEnergy(Value(words)) = words["hi"] \div JoulePerWh
  <1> DEFINE v == Value(words)
  <1> DEFINE y == v \div Half
  <1> DEFINE J == JoulePerWh
  <1>1. /\ Half \in Nat \ {0} /\ Word \in Nat \ {0} /\ Word = Half * Half /\ J \in Nat \ {0}
        /\ words["hi"] \in Nat
    BY Sizes DEF WordPair, Halves
  <1>2. v \in Nat /\ v < (words["hi"] + 1) * Word
    BY UpperWord
  <1>3. y \in Int /\ y * Half <= v /\ v < y * Half + Half
    <2>1. v \in Int
      BY <1>2
    <2> QED BY Zenon, <1>1, <2>1, Quotient
  <1> HIDE DEF v, y, J
  <1>4. y \in 0 .. Word - 1
    <2>1. (words["hi"] + 1) * Word <= Half * Word
      BY <1>1, Times
    <2>2. y * Half < Word * Half /\ 0 * Half < (y + 1) * Half
      BY <1>1, <1>2, <1>3, <2>1
    <2>3. y < Word
      BY <1>1, <1>3, <2>2, TimesStrict
    <2>4. 0 < y + 1
      BY <1>1, <1>3, <2>2, TimesStrict
    <2> QED BY <1>1, <1>3, <2>3, <2>4
  <1>5. y % Word = y
    BY <1>1, <1>4
  <1>6. (y \div J) \div Half = words["hi"] \div J
    <2>1. v \in Int /\ J * Half \in Nat \ {0} /\ Half * (J * Half) = J * Word
      BY <1>1, <1>2
    <2>2. (y \div J) \div Half = y \div (J * Half)
      BY Zenon, <1>1, <1>3, Twice
    <2>3. y \div (J * Half) = v \div (Half * (J * Half))
      BY Zenon, <1>1, <2>1, Twice DEF y
    <2>4. v \div (J * Word) = words["hi"] \div J
      BY <1>1, UpperUnits DEF v
    <2> QED BY <2>1, <2>2, <2>3, <2>4
  <1>7. (words["hi"] \div J) % Half = words["hi"] \div J
    <2> DEFINE q == words["hi"] \div J
    <2>1. q \in Int /\ q * J <= words["hi"] /\ words["hi"] < q * J + J
      <3>1. words["hi"] \in Int
        BY <1>1
      <3> QED BY Zenon, <1>1, <3>1, Quotient
    <2> HIDE DEF q
    <2>2. 0 <= q
      <3>1. 0 * J < (q + 1) * J
        BY <1>1, <2>1
      <3>2. 0 < q + 1
        BY <1>1, <2>1, <3>1, TimesStrict
      <3> QED BY <2>1, <3>2
    <2>3. q <= q * J
      BY <1>1, <2>1, <2>2
    <2>4. q < Half
      BY <1>1, <2>1, <2>3
    <2>5. q % Half = q
      BY <1>1, <2>1, <2>2, <2>4
    <2> QED BY <2>5 DEF q
  <1> QED BY <1>5, <1>6, <1>7 DEF HandleEnergy, y, v, J

\* Below a dollar the reply of the cost is the cost, in cents.
LEMMA CostReply ==
    ASSUME NEW words \in WordPair, words["hi"] < CentPerDollar
    PROVE  HandleCost(Value(words)) = [cents |-> words["hi"], dollars |-> 0]
  <1>1. /\ words["hi"] \in 0 .. Word - 1 /\ Word \in Nat \ {0} /\ CentPerDollar \in Nat \ {0}
        /\ Value(words) \div Word = words["hi"]
    BY Sizes, UpperWord DEF WordPair, Halves
  <1>2. words["hi"] % Word = words["hi"] /\ words["hi"] % CentPerDollar = words["hi"]
    BY <1>1
  <1>3. words["hi"] \div CentPerDollar = 0
    <2>1. /\ words["hi"] \in Int /\ 0 \in Int /\ 0 * CentPerDollar <= words["hi"]
          /\ words["hi"] < (0 + 1) * CentPerDollar
      BY <1>1
    <2> QED BY <1>1, <2>1, QuotientIs
  <1> QED BY <1>1, <1>2, <1>3 DEF HandleCost

\* The upper word of a total below a number of words.
LEMMA UpperBelow ==
    ASSUME NEW words \in WordPair, NEW most \in Nat, Value(words) < most * Word
    PROVE  words["hi"] < most
  <1>1. words["hi"] \in Int /\ Word \in Nat \ {0}
    BY Sizes DEF WordPair, Halves
  <1>2. words["hi"] * Word <= Value(words) /\ Value(words) \in Int /\ most * Word \in Int
    BY <1>1, UpperWord
  <1>3. words["hi"] * Word < most * Word
    BY <1>1, <1>2
  <1> QED BY <1>1, <1>3, TimesStrict

\* Nothing is no unit.
LEMMA NoUnit ==
    ASSUME NEW b \in Nat \ {0}
    PROVE  0 \div b = 0
  BY QuotientIs

-----------------------------------------------------------------------------

\* The reply of an energy that is being raised to a total below Half Joules: right
\* when it is asked between two of CalcThread's stores, and exact when it is not.
LEMMA EnergyReplied ==
    ASSUME NEW words \in WordPair, NEW total \in WordPair,
           words["hi"] <= total["hi"], Value(total) < Half * Word
    PROVE  /\ HandleEnergy(Value(words)) = Value(words) \div (JoulePerWh * Word)
           /\ HandleEnergy(Value(words)) \in 0 \div (JoulePerWh * Word) ..
                                                 Value(total) \div (JoulePerWh * Word)
  <1> DEFINE J == JoulePerWh
  <1>1. /\ Half \in Nat /\ J \in Nat \ {0} /\ J * Word \in Nat \ {0}
        /\ words["hi"] \in Nat /\ total["hi"] \in Nat /\ words["hi"] \in Int /\ total["hi"] \in Int
        /\ 0 \in Int
    BY Sizes DEF WordPair, Halves
  <1>2. total["hi"] < Half /\ words["hi"] < Half
    BY <1>1, UpperBelow
  <1>3. /\ HandleEnergy(Value(words)) = words["hi"] \div J
        /\ Value(words) \div (J * Word) = words["hi"] \div J
        /\ Value(total) \div (J * Word) = total["hi"] \div J
    BY <1>2, <1>1, EnergyReply, UpperUnits
  <1> HIDE DEF J
  <1>4. 0 \div J = 0 /\ 0 \div (J * Word) = 0
    BY <1>1, NoUnit
  <1>5. /\ 0 \div J <= words["hi"] \div J /\ words["hi"] \div J <= total["hi"] \div J
        /\ words["hi"] \div J \in Int /\ total["hi"] \div J \in Int
    <2>1. 0 <= words["hi"]
      BY <1>1
    <2> QED BY Zenon, <1>1, <2>1, Quotient, QuotientKeepsOrder
  <1>6. words["hi"] \div J \in 0 .. total["hi"] \div J
    BY <1>4, <1>5
  <1> QED BY <1>3, <1>4, <1>6 DEF J

\* The reply of a cost that is being raised to a total below a dollar.
LEMMA CostReplied ==
    ASSUME NEW words \in WordPair, NEW total \in WordPair,
           words["hi"] <= total["hi"], Value(total) < CentPerDollar * Word
    PROVE  LET cost == HandleCost(Value(words))
           IN  /\ cost.dollars * CentPerDollar + cost.cents = Value(words) \div Word
               /\ cost.dollars * CentPerDollar + cost.cents
                      \in 0 \div Word .. Value(total) \div Word
  <1>1. /\ CentPerDollar \in Nat /\ Word \in Nat \ {0}
        /\ words["hi"] \in Nat /\ total["hi"] \in Nat
    BY Sizes DEF WordPair, Halves
  <1>2. total["hi"] < CentPerDollar /\ words["hi"] < CentPerDollar
    BY <1>1, UpperBelow
  <1>3. HandleCost(Value(words)) = [cents |-> words["hi"], dollars |-> 0]
    BY <1>2, CostReply
  <1>4. Value(words) \div Word = words["hi"] /\ Value(total) \div Word = total["hi"]
    BY UpperWord
  <1>5. 0 \div Word = 0
    BY <1>1, NoUnit
  <1>6. 0 * CentPerDollar + words["hi"] = words["hi"] /\ words["hi"] \in 0 .. total["hi"]
    BY <1>1
  <1> QED BY <1>3, <1>4, <1>5, <1>6

-----------------------------------------------------------------------------
(* The buttons and the display *)

Places == {"wait", "read", "store", "clear", "start", "add", "show", "load", "print"}

\* TypeOK without the Boolean variables, which have a conjunct of their own.
Types ==
    /\ at \in [threads -> Places]
    /\ DisplayStatus \in Statuses /\ chosen \in Statuses
    /\ DisplayCnt \in 0 .. Period
    /\ count \in [semaphores -> Nat]

Totals ==
    /\ Meter \in [Quantities -> [Halves -> Nat]] /\ goal \in [Quantities -> [Halves -> Nat]]
    /\ loaded \in [Halves -> Nat] /\ since \in [Halves -> Nat]
    /\ left \subseteq Quantities \X Halves /\ showing \in Quantities /\ unread \subseteq Halves

Flags == armed \in BOOLEAN /\ expired \in BOOLEAN

\* Between the read of DisplayStatus and FTM_StartTimer, while the period has not
\* ended: first chosen follows the status, then the status is chosen.
Pressed ==
    /\ Handling => chosen # "DORMANT"
    /\ at["PushButton"] = "store" /\ ~ expired => chosen = Following(DisplayStatus)
    /\ at["PushButton"] \in {"clear", "start"} /\ ~ expired => DisplayStatus = chosen

IInv == Types /\ Totals /\ Flags /\ OnMeansTimed /\ Pressed

-----------------------------------------------------------------------------

\* The switch of PushButtonThread never chooses to sleep.
LEMMA FollowingAwake ==
    ASSUME NEW status \in Statuses
    PROVE  Following(status) \in Statuses \ {"DORMANT"}
  BY DEF Statuses, Following

\* A wait or a signal leaves the counts natural numbers.
LEMMA CountsNatural ==
    ASSUME NEW s \in semaphores, NEW t, count \in [semaphores -> Nat],
           OS_SemaphoreWait(s, t) \/ OS_SemaphoreSignal(s)
    PROVE  count' \in [semaphores -> Nat]
  BY DEF OS_SemaphoreWait, Take, Sleep, OS_SemaphoreSignal, Give, HandOver

\* A 64-bit number is two words, and two words are a number.
LEMMA WordsOK ==
    ASSUME NEW n \in Nat
    PROVE  Words(n) \in [Halves -> Nat]
  <1>1. /\ (n \div Word) % Word \in Nat /\ n % Word \in Nat
    <2>1. Word \in Nat /\ Word > 0
      BY ReadoutsAssumption
    <2>2. n \div Word \in Nat
      BY <2>1
    <2> QED BY <2>1, <2>2
  <1> QED BY <1>1 DEF Words

LEMMA ValueOK ==
    ASSUME NEW words \in [Halves -> Nat]
    PROVE  Value(words) \in Nat
  <1>1. words["hi"] \in Nat /\ words["lo"] \in Nat /\ Word \in Nat
    BY ReadoutsAssumption DEF Halves
  <1>2. words["hi"] * Word \in Nat
    BY <1>1
  <1> QED BY <1>1, <1>2 DEF Value

\* The display starts asleep.
LEMMA InitOK == Interface_Init => IInv
  <1> SUFFICES ASSUME Interface_Init PROVE IInv
    OBVIOUS
  <1>1. Types
    BY InterfaceAssumption DEF Interface_Init, Types, Places, Statuses, OS_SemaphoreCreate
  <1>2. Flags
    BY Zenon DEF Interface_Init, Flags
  <1>3. OnMeansTimed /\ Pressed
    BY DEF Interface_Init, OnMeansTimed, Pressed, Handling, threads
  <1>4. Totals
    BY WordsOK DEF Interface_Init, Totals, Quantities
  <1> QED BY <1>1, <1>2, <1>3, <1>4 DEF IInv

\* The interrupt either sleeps and says so, or re-arms the timer.
LEMMA DisplayCallbackOK == IInv /\ DisplayCallback => IInv'
  <1> SUFFICES ASSUME IInv, DisplayCallback PROVE IInv'
    OBVIOUS
  <1>1. Totals'
    BY DEF DisplayCallback, IInv, Totals, calcV, lineV
  <1>2. CASE DisplayCnt = Period
    <2>1. /\ DisplayCnt' = 0 /\ DisplayStatus' = "DORMANT"
          /\ UNCHANGED <<at, chosen, count>>
          /\ armed' = FALSE /\ expired' = (expired \/ Handling)
      BY <1>2 DEF DisplayCallback, osV
    <2>2. Types'
      BY <2>1, InterfaceAssumption DEF IInv, Types, Statuses
    <2>3. Flags'
      BY Zenon, <2>1 DEF IInv, Flags, Handling
    <2>4. OnMeansTimed' /\ Pressed'
      BY <2>1 DEF IInv, OnMeansTimed, Pressed, Handling
    <2> QED BY <1>1, <2>2, <2>3, <2>4 DEF IInv
  <1>3. CASE DisplayCnt # Period
    <2>1. /\ DisplayCnt' = DisplayCnt + 1 /\ OS_SemaphoreSignal("DisplaySemaphore")
          /\ UNCHANGED <<at, chosen, DisplayStatus, armed, expired>>
      BY <1>3 DEF DisplayCallback
    <2>2. Types'
      BY <1>3, <2>1, CountsNatural, InterfaceAssumption DEF IInv, Types, semaphores
    <2>3. Flags'
      BY Zenon, <2>1 DEF IInv, Flags
    <2>4. OnMeansTimed' /\ Pressed'
      BY <2>1 DEF IInv, OnMeansTimed, Pressed, Handling
    <2> QED BY <1>1, <2>2, <2>3, <2>4 DEF IInv
  <1> QED BY <1>2, <1>3

\* The thread's statements, in their order.
LEMMA ButtonStepOK == IInv /\ ButtonStep => IInv'
  <1> SUFFICES ASSUME IInv, ButtonStep PROVE IInv'
    OBVIOUS
  <1>1. Totals'
    BY DEF ButtonStep, ButtonWait, ButtonRead, ButtonStore, ButtonClear, ButtonStart,
       IInv, Totals, calcV, lineV
  <1> USE DEF IInv, Types, Places, Step, osV
  <1>2. CASE ButtonWait
    <2>1. Types'
      BY <1>2, CountsNatural DEF ButtonWait, threads, semaphores
    <2>2. Flags'
      BY Zenon, <1>2 DEF ButtonWait, Flags
    <2>3. OnMeansTimed' /\ Pressed'
      BY <1>2 DEF ButtonWait, OnMeansTimed, Pressed, Handling, threads
    <2> QED BY <1>1, <2>1, <2>2, <2>3
  <1>3. CASE ButtonRead
    <2>1. Types' /\ chosen' # "DORMANT"
      BY <1>3, FollowingAwake DEF ButtonRead, threads
    <2>2. Flags'
      BY Zenon, <1>3 DEF ButtonRead, Flags
    <2>3. OnMeansTimed'
      BY <1>3 DEF ButtonRead, OnMeansTimed, Handling, threads
    <2>4. Pressed'
      BY <1>3, <2>1 DEF ButtonRead, Pressed, Handling, threads
    <2> QED BY <1>1, <2>1, <2>2, <2>3, <2>4
  <1>4. CASE ButtonStore
    <2>1. Types'
      BY <1>4 DEF ButtonStore, threads
    <2>2. Flags'
      BY Zenon, <1>4 DEF ButtonStore, Flags
    <2>3. OnMeansTimed' /\ Pressed'
      BY <1>4 DEF ButtonStore, OnMeansTimed, Pressed, Handling, threads
    <2> QED BY <1>1, <2>1, <2>2, <2>3
  <1>5. CASE ButtonClear
    <2>1. Types'
      BY <1>5, InterfaceAssumption DEF ButtonClear, threads
    <2>2. Flags'
      BY Zenon, <1>5 DEF ButtonClear, Flags
    <2>3. OnMeansTimed' /\ Pressed'
      BY <1>5 DEF ButtonClear, OnMeansTimed, Pressed, Handling, threads
    <2> QED BY <1>1, <2>1, <2>2, <2>3
  <1>6. CASE ButtonStart
    <2>1. Types'
      BY <1>6 DEF ButtonStart, threads
    <2>2. Flags'
      BY Zenon, <1>6 DEF ButtonStart, Flags
    <2>3. OnMeansTimed' /\ Pressed'
      BY <1>6 DEF ButtonStart, OnMeansTimed, Pressed, Handling, threads
    <2> QED BY <1>1, <2>1, <2>2, <2>3
  <1> QED BY <1>2, <1>3, <1>4, <1>5, <1>6 DEF ButtonStep

\* CalcThread and DisplayThread keep the types of the totals and of their words.
LEMMA TotalsOK == IInv /\ (PushButtonCallback \/ CycleEnds \/ CalcStep \/ DisplayStep) => Totals'
  <1> SUFFICES ASSUME IInv, PushButtonCallback \/ CycleEnds \/ CalcStep \/ DisplayStep
               PROVE  Totals'
    OBVIOUS
  <1> USE DEF IInv, Totals
  <1>1. CASE UNCHANGED <<Meter, goal, left, lineV>>
    BY <1>1 DEF lineV
  <1>2. CASE CalcAdd
    <2>1. PICK cycle \in Cycles :
              goal' = [q \in Quantities |-> Words(Value(Meter[q]) + cycle[q])]
      BY <1>2 DEF CalcAdd
    <2>2. ASSUME NEW q \in Quantities
          PROVE  Words(Value(Meter[q]) + cycle[q]) \in [Halves -> Nat]
      <3>1. Value(Meter[q]) \in Nat
        BY ValueOK
      <3>2. cycle[q] \in Nat
        BY InterfaceAssumption
      <3> QED BY <3>1, <3>2, WordsOK
    <2>3. goal' \in [Quantities -> [Halves -> Nat]]
      BY <2>1, <2>2
    <2> QED BY <1>2, <2>3 DEF CalcAdd, lineV
  <1>3. CASE CalcStore
    <2>1. PICK q \in Quantities, h \in Halves :
              /\ Meter' = [Meter EXCEPT ![q] = [@ EXCEPT ![h] = goal[q][h]]]
              /\ left' = left \ {<<q, h>>}
      BY <1>3 DEF CalcStore
    <2>2. Meter[q] \in [Halves -> Nat] /\ goal[q][h] \in Nat
      OBVIOUS
    <2>3. [Meter[q] EXCEPT ![h] = goal[q][h]] \in [Halves -> Nat]
      BY <2>2
    <2>4. Meter' \in [Quantities -> [Halves -> Nat]]
      BY <2>1, <2>3
    <2> QED BY <1>3, <2>1, <2>4 DEF CalcStore, lineV
  <1>4. CASE DisplayTotal
    <2>1. showing' \in Quantities
      BY <1>4 DEF DisplayTotal, Quantities
    <2> QED BY <1>4, <2>1 DEF DisplayTotal, calcV
  <1>5. CASE DisplayLoad
    <2>1. PICK h \in unread :
              /\ loaded' = [loaded EXCEPT ![h] = Meter[showing][h]]
              /\ unread' = unread \ {h}
      BY <1>5 DEF DisplayLoad
    <2>2. Meter[showing][h] \in Nat
      OBVIOUS
    <2> QED BY <1>5, <2>1, <2>2 DEF DisplayLoad, calcV
  <1>6. CASE DisplayPrint
    <2>1. Words(0) \in [Halves -> Nat] /\ "energy" \in Quantities
      BY WordsOK DEF Quantities
    <2> QED BY <1>6, <2>1 DEF DisplayPrint, calcV
  <1> QED BY <1>1, <1>2, <1>3, <1>4, <1>5, <1>6
         DEF PushButtonCallback, CycleEnds, CalcStep, CalcWait, DisplayStep, DisplayWait,
             DisplayOther, calcV

\* The other steps touch neither the status, nor the timer, nor the button thread.
LEMMA OtherStepOK == IInv /\ (PushButtonCallback \/ CycleEnds \/ CalcStep \/ DisplayStep) => IInv'
  <1> SUFFICES ASSUME IInv, PushButtonCallback \/ CycleEnds \/ CalcStep \/ DisplayStep
               PROVE  IInv'
    OBVIOUS
  <1> USE DEF PushButtonCallback, CycleEnds, CalcStep, CalcWait, CalcAdd, CalcStore,
              DisplayStep, DisplayWait, DisplayOther, DisplayTotal, DisplayLoad, DisplayPrint
  <1>1. /\ UNCHANGED <<DisplayStatus, DisplayCnt, chosen, armed, expired>>
        /\ at'["PushButton"] = at["PushButton"]
    BY DEF IInv, Types, Step, threads, periodV
  <1>2. Types'
    <2>1. at' \in [threads -> Places]
      BY DEF IInv, Types, Places, Step
    <2>2. count' \in [semaphores -> Nat]
      BY CountsNatural DEF IInv, Types, osV, semaphores
    <2> QED BY <1>1, <2>1, <2>2 DEF IInv, Types
  <1>3. Flags'
    BY Zenon, <1>1 DEF IInv, Flags
  <1>4. OnMeansTimed' /\ Pressed'
    BY <1>1 DEF IInv, OnMeansTimed, Pressed, Handling
  <1> QED BY <1>2, <1>3, <1>4, TotalsOK DEF IInv

\* Every step keeps the invariant.
LEMMA StepOK == IInv /\ [Next]_vars => IInv'
  <1> SUFFICES ASSUME IInv, [Next]_vars PROVE IInv'
    OBVIOUS
  <1>1. CASE UNCHANGED vars
    <2>1. UNCHANGED <<at, count, DisplayStatus, DisplayCnt, chosen, armed, expired>>
      BY <1>1 DEF vars, osV, periodV
    <2>2. Totals'
      BY <1>1 DEF vars, calcV, lineV, IInv, Totals
    <2>3. Types' /\ OnMeansTimed' /\ Pressed'
      BY <2>1 DEF IInv, Types, OnMeansTimed, Pressed, Handling
    <2>4. Flags'
      BY Zenon, <2>1 DEF IInv, Flags
    <2> QED BY <2>3, <2>4, <2>2 DEF IInv
  <1> QED BY <1>1, DisplayCallbackOK, ButtonStepOK, OtherStepOK DEF Next

-----------------------------------------------------------------------------

\* What the button thread has read, stored and not yet started, as an invariant.
THEOREM Invariant == Spec => []IInv
  BY InitOK, StepOK, PTL DEF Spec

\* Interface.c's variables keep their types; DisplayCnt never passes the period.
THEOREM TypeCorrect == Spec => []TypeOK
  <1>1. IInv => TypeOK
    <2> SUFFICES ASSUME IInv PROVE TypeOK
      OBVIOUS
    <2>1. {armed, expired} \subseteq BOOLEAN
      BY Zenon DEF IInv, Flags
    <2> QED BY <2>1 DEF IInv, Types, Places, Totals, TypeOK
  <1> QED BY <1>1, Invariant, PTL

\* A display that is on has a running timer, or the press is still being handled.
THEOREM DisplayTimed == Spec => []OnMeansTimed
  <1>1. IInv => OnMeansTimed
    BY DEF IInv
  <1> QED BY <1>1, Invariant, PTL

\* A handled press leaves the display on, unless its period ended meanwhile.
THEOREM PressLights == Spec => []PressShows
  <1>1. IInv => PressShows
    BY DEF IInv, Pressed, Handling, PressShows
  <1> QED BY <1>1, Invariant, PTL

\* A dormant display wakes with the metering time, unless its period ended while the
\* press was being handled.
THEOREM TimeFirst == Spec => WakesWithTime
  <1>1. IInv /\ [Next]_vars =>
            [DisplayStatus = "DORMANT" /\ DisplayStatus' # "DORMANT" /\ ~ expired
                => DisplayStatus' = "METERING_TIME"]_vars
    <2> SUFFICES ASSUME IInv, Next, DisplayStatus = "DORMANT", DisplayStatus' # "DORMANT",
                        ~ expired
                 PROVE  DisplayStatus' = "METERING_TIME"
      OBVIOUS
    <2>1. ButtonStore
      BY DEF Next, PushButtonCallback, DisplayCallback, CycleEnds, ButtonStep, ButtonWait,
         ButtonRead, ButtonClear, ButtonStart, CalcStep, CalcWait, CalcAdd, CalcStore,
         DisplayStep, DisplayWait, DisplayOther, DisplayTotal, DisplayLoad, DisplayPrint, periodV
    <2> QED BY <2>1 DEF ButtonStore, Step, IInv, Pressed, Following
  <1> QED BY <1>1, Invariant, PTL DEF Spec, WakesWithTime

-----------------------------------------------------------------------------
(* The totals of Interface, read while they are written.  CalcThread and    *)
(* DisplayThread move a total one word at a time, and the Joules and the    *)
(* cents are in its upper word: no mixture of two totals leaves the range   *)
(* between them, because the upper word never falls.                        *)

Reading == at["Display"] \in {"load", "print"}

\* The totals are 64-bit numbers, and the cost one that a line's bits can hold.
Fits ==
    /\ Meter \in [Quantities -> WordPair] /\ goal \in [Quantities -> WordPair]
    /\ loaded \in WordPair /\ since \in WordPair
    /\ goal["cost"]["hi"] < Half * CentPerDollar

\* CalcThread raises the upper words.  A word it need not store is the goal's.
Rising ==
    \A q \in Quantities :
        /\ Meter[q]["hi"] <= goal[q]["hi"]
        /\ \A h \in Halves : <<q, h>> \notin left => Meter[q][h] = goal[q][h]

\* Where DisplayThread is with its two loads.
Loading ==
    /\ Reading => since["hi"] <= Meter[showing]["hi"]
    /\ Reading /\ "hi" \notin unread =>
           since["hi"] <= loaded["hi"] /\ loaded["hi"] <= Meter[showing]["hi"]
    /\ at["Display"] = "print" => unread = {}

TInv == IInv /\ Fits /\ Rising /\ Loading

-----------------------------------------------------------------------------

\* The totals have 64 bits, and the cost bits for the dollars of a line.
LEMMA RoomFits ==
    /\ Room["energy"] = Word * Word
    /\ Room["cost"] = (Half * CentPerDollar) * Word
    /\ Room["cost"] <= Word * Word
  <1>1. /\ Half \in Nat /\ CentPerDollar \in Nat /\ Word = Half * Half /\ Word \in Nat
        /\ CentPerDollar <= Half
    BY Sizes
  <1>2. Room["energy"] = Word * Word /\ Room["cost"] = Word * Half * CentPerDollar
    BY DEF Room, Quantities
  <1>3. Word * Half * CentPerDollar = (Half * CentPerDollar) * Word
    BY <1>1
  <1>4. Half * CentPerDollar <= Word
    BY <1>1
  <1>5. (Half * CentPerDollar) * Word <= Word * Word
    BY <1>1, <1>4, Times
  <1> QED BY <1>2, <1>3, <1>5

\* The totals start at 0.
LEMMA TotalsInit == Interface_Init => Fits /\ Rising /\ Loading
  <1> SUFFICES ASSUME Interface_Init PROVE Fits /\ Rising /\ Loading
    OBVIOUS
  <1>1. 0 < Word * Word /\ 0 < Half * CentPerDollar /\ 0 \div Word = 0
    BY Sizes, NoUnit
  <1>2. Words(0) \in WordPair /\ Words(0)["hi"] = 0
    BY <1>1, WordsValue
  <1>3. Meter = [q \in Quantities |-> Words(0)] /\ goal = Meter /\ left = {}
        /\ loaded = Words(0) /\ since = Words(0) /\ at["Display"] = "wait"
    BY DEF Interface_Init, threads
  <1>4. Fits
    BY <1>1, <1>2, <1>3 DEF Fits, Quantities
  <1>5. \A q \in Quantities : Meter[q]["hi"] <= goal[q]["hi"]
    BY <1>2, <1>3
  <1>6. Rising
    BY <1>3, <1>5 DEF Rising
  <1>7. Loading
    BY <1>3 DEF Loading, Reading
  <1> QED BY <1>4, <1>6, <1>7

-----------------------------------------------------------------------------
(* The steps *)

\* Steps that touch none of the totals, nor the place of DisplayThread.
LEMMA TotalsAlone ==
    ASSUME TInv, UNCHANGED <<Meter, goal, left, loaded, since, unread, showing>>,
           at'["Display"] = at["Display"]
    PROVE  Fits' /\ Rising' /\ Loading'
  BY DEF TInv, Fits, Rising, Loading, Reading

\* A new goal is above the totals, for what a cycle adds is not negative.
LEMMA AddOK ==
    ASSUME TInv, CalcAdd
    PROVE  Fits' /\ Rising' /\ Loading'
  <1>1. PICK cycle \in Cycles :
            /\ \A q \in Quantities : Value(Meter[q]) + cycle[q] < Room[q]
            /\ goal' = [q \in Quantities |-> Words(Value(Meter[q]) + cycle[q])]
    BY DEF CalcAdd
  <1>2. /\ UNCHANGED <<Meter, loaded, since, unread, showing>>
        /\ left' = Quantities \X Halves /\ at'["Display"] = at["Display"]
    BY DEF CalcAdd, Step, lineV, TInv, IInv, Types, threads
  <1>3. ASSUME NEW q \in Quantities
        PROVE  /\ goal'[q] \in WordPair
               /\ Meter[q]["hi"] <= goal'[q]["hi"]
               /\ Value(goal'[q]) < Room[q]
    <2> DEFINE v == Value(Meter[q])
    <2> DEFINE n == v + cycle[q]
    <2>1. Meter[q] \in WordPair /\ cycle[q] \in Nat
      BY InterfaceAssumption DEF TInv, Fits
    <2>2. v \in Nat /\ v \div Word = Meter[q]["hi"]
      BY <2>1, UpperWord
    <2>3. n < Room[q]
      BY <1>1
    <2>4. goal'[q] = Words(n)
      BY <1>1
    <2> HIDE DEF v
    <2>5. n \in Nat /\ n \in Int /\ v \in Int /\ v <= n
      BY <2>1, <2>2
    <2>6. n < Word * Word
      <3>1. CASE q = "energy"
        BY <2>3, <3>1, RoomFits
      <3>2. CASE q = "cost"
        <4>1. Room["cost"] \in Int /\ Word * Word \in Int
          BY RoomFits, Sizes
        <4> QED BY <2>3, <2>5, <3>2, <4>1, RoomFits
      <3> QED BY <3>1, <3>2 DEF Quantities
    <2> HIDE DEF n
    <2>7. Words(n) \in WordPair /\ Words(n)["hi"] = n \div Word /\ Value(Words(n)) = n
      BY <2>5, <2>6, WordsValue
    <2>8. v \div Word <= n \div Word
      BY Zenon, <2>5, Sizes, QuotientKeepsOrder
    <2> QED BY <2>2, <2>3, <2>4, <2>7, <2>8
  <1>4. goal' \in [Quantities -> WordPair]
    BY <1>1, <1>3
  <1>5. goal'["cost"]["hi"] < Half * CentPerDollar
    <2>1. "cost" \in Quantities /\ Half * CentPerDollar \in Nat
      BY Sizes DEF Quantities
    <2> QED BY <1>3, <2>1, RoomFits, UpperBelow
  <1>6. Fits'
    BY <1>2, <1>4, <1>5 DEF TInv, Fits
  <1>7. Rising'
    BY <1>2, <1>3 DEF Rising
  <1>8. Loading'
    BY <1>2 DEF TInv, Loading, Reading
  <1> QED BY <1>6, <1>7, <1>8

\* A store brings one word to the goal, which raises the upper one.
LEMMA StoreOK ==
    ASSUME TInv, CalcStore
    PROVE  Fits' /\ Rising' /\ Loading'
  <1>1. PICK q \in Quantities, h \in Halves :
            /\ Meter' = [Meter EXCEPT ![q] = [@ EXCEPT ![h] = goal[q][h]]]
            /\ left' = left \ {<<q, h>>}
    BY DEF CalcStore
  <1>2. UNCHANGED <<goal, loaded, since, unread, showing>> /\ at'["Display"] = at["Display"]
    BY DEF CalcStore, Step, lineV, TInv, IInv, Types, threads
  <1>3. /\ Meter \in [Quantities -> [Halves -> 0 .. Word - 1]]
        /\ goal \in [Quantities -> [Halves -> 0 .. Word - 1]]
        /\ showing \in Quantities
    BY DEF TInv, IInv, Totals, Fits, WordPair
  <1>4. ASSUME NEW r \in Quantities, NEW k \in Halves
        PROVE  Meter'[r][k] = IF r = q /\ k = h THEN goal[r][k] ELSE Meter[r][k]
    BY <1>1, <1>3
  <1>5. Meter' \in [Quantities -> WordPair]
    <2>1. Meter[q] \in [Halves -> 0 .. Word - 1] /\ goal[q][h] \in 0 .. Word - 1
      BY <1>3
    <2>2. [Meter[q] EXCEPT ![h] = goal[q][h]] \in [Halves -> 0 .. Word - 1]
      BY <2>1
    <2> QED BY <1>1, <1>3, <2>2 DEF WordPair
  <1>6. ASSUME NEW r \in Quantities
        PROVE  /\ Meter[r]["hi"] <= Meter'[r]["hi"] /\ Meter'[r]["hi"] <= goal[r]["hi"]
               /\ Meter[r]["hi"] \in Int /\ Meter'[r]["hi"] \in Int
    <2>1. /\ "hi" \in Halves
          /\ Meter[r]["hi"] \in 0 .. Word - 1 /\ goal[r]["hi"] \in 0 .. Word - 1
          /\ Meter[r]["hi"] <= goal[r]["hi"]
      BY <1>3 DEF Halves, TInv, Rising
    <2>2. Meter'[r]["hi"] = goal[r]["hi"] \/ Meter'[r]["hi"] = Meter[r]["hi"]
      BY <1>4, <2>1
    <2>3. Word \in Int
      BY Sizes
    <2> QED BY <2>1, <2>2, <2>3
  <1>7. Fits'
    BY <1>2, <1>5 DEF TInv, Fits
  <1>8. Rising'
    <2>1. ASSUME NEW r \in Quantities, NEW k \in Halves, <<r, k>> \notin left'
          PROVE  Meter'[r][k] = goal[r][k]
      BY <1>1, <1>4, <2>1 DEF TInv, Rising
    <2> QED BY <1>2, <1>6, <2>1 DEF Rising
  <1>9. Loading'
    <2>1. since["hi"] \in Int /\ loaded["hi"] \in Int
      BY Sizes DEF TInv, Fits, WordPair, Halves
    <2>2. /\ Meter[showing]["hi"] <= Meter'[showing]["hi"]
          /\ Meter[showing]["hi"] \in Int /\ Meter'[showing]["hi"] \in Int
      BY <1>3, <1>6
    <2> QED BY <1>2, <2>1, <2>2 DEF TInv, Loading, Reading
  <1> QED BY <1>7, <1>8, <1>9

\* DisplayThread's choice, its loads and its print.
LEMMA LoadOK ==
    ASSUME TInv, DisplayStep
    PROVE  Fits' /\ Rising' /\ Loading'
  <1> USE DEF TInv, Step, IInv, Types
  <1>1. UNCHANGED <<Meter, goal, left>> /\ Rising'
    BY DEF DisplayStep, DisplayWait, DisplayOther, DisplayTotal, DisplayLoad, DisplayPrint,
       calcV, Rising
  <1>2. CASE DisplayWait \/ DisplayOther
    <2>1. /\ UNCHANGED <<loaded, since, unread, showing>>
          /\ at'["Display"] \in {"wait", "show"}
      BY <1>2 DEF DisplayWait, DisplayOther, lineV, threads
    <2> QED BY <1>1, <2>1 DEF Fits, Loading, Reading
  <1>3. CASE DisplayTotal
    <2>1. /\ showing' \in Quantities /\ since' = Meter[showing'] /\ unread' = Halves
          /\ UNCHANGED loaded /\ at'["Display"] = "load"
      BY <1>3 DEF DisplayTotal, threads, Quantities
    <2>2. Meter[showing'] \in WordPair /\ "hi" \in Halves
      BY <2>1 DEF Fits, Halves
    <2>3. Fits'
      BY <1>1, <2>1, <2>2 DEF Fits
    <2>4. since'["hi"] <= Meter'[showing']["hi"]
      <3>1. Meter[showing']["hi"] \in Int
        BY <2>2, Sizes DEF WordPair
      <3> QED BY <1>1, <2>1, <3>1
    <2> QED BY <1>1, <2>1, <2>2, <2>3, <2>4 DEF Loading
  <1>4. CASE DisplayLoad
    <2>1. PICK h \in unread :
              /\ loaded' = [loaded EXCEPT ![h] = Meter[showing][h]]
              /\ unread' = unread \ {h}
      BY <1>4 DEF DisplayLoad
    <2>2. /\ UNCHANGED <<since, showing>> /\ at["Display"] = "load"
          /\ at'["Display"] = IF unread' = {} THEN "print" ELSE "load"
      BY <1>4 DEF DisplayLoad, threads
    <2>3. /\ h \in Halves /\ showing \in Quantities
          /\ Meter[showing] \in WordPair /\ loaded \in WordPair /\ since \in WordPair
      BY DEF Totals, Fits
    <2>4. loaded' \in WordPair
      BY <2>1, <2>3 DEF WordPair
    <2>5. Fits'
      BY <1>1, <2>2, <2>4 DEF Fits
    <2>6. Meter[showing]["hi"] \in Int /\ since["hi"] \in Int
      BY <2>3, Sizes DEF WordPair, Halves
    <2>7. \/ "hi" \in unread'
          \/ loaded'["hi"] = Meter[showing]["hi"]
          \/ "hi" \notin unread /\ loaded'["hi"] = loaded["hi"]
      <3>1. loaded \in [Halves -> 0 .. Word - 1] /\ "hi" \in Halves
        BY <2>3 DEF WordPair, Halves
      <3>2. CASE h = "hi"
        BY <2>1, <3>1, <3>2
      <3>3. CASE h # "hi"
        BY <2>1, <3>1, <3>3
      <3> QED BY <3>2, <3>3
    <2>8. Loading'
      BY <1>1, <2>2, <2>6, <2>7 DEF Loading, Reading
    <2> QED BY <1>1, <2>5, <2>8
  <1>5. CASE DisplayPrint
    <2>1. loaded' = Words(0) /\ since' = Words(0) /\ at'["Display"] = "wait"
      BY <1>5 DEF DisplayPrint, threads
    <2>2. Words(0) \in WordPair
      <3>1. 0 < Word * Word
        BY Sizes
      <3> QED BY <3>1, WordsValue
    <2>3. Fits'
      BY <1>1, <2>1, <2>2 DEF Fits
    <2>4. Loading'
      BY <2>1 DEF Loading, Reading
    <2> QED BY <1>1, <2>3, <2>4
  <1> QED BY <1>2, <1>3, <1>4, <1>5 DEF DisplayStep

\* Every step keeps the invariant.
LEMMA TotalsStep == TInv /\ [Next]_vars => TInv'
  <1> SUFFICES ASSUME TInv, [Next]_vars PROVE TInv'
    OBVIOUS
  <1>1. IInv'
    BY StepOK DEF TInv
  <1>2. CASE CalcAdd
    BY <1>1, <1>2, AddOK DEF TInv
  <1>3. CASE CalcStore
    BY <1>1, <1>3, StoreOK DEF TInv
  <1>4. CASE DisplayStep
    BY <1>1, <1>4, LoadOK DEF TInv
  <1>5. CASE UNCHANGED vars \/ PushButtonCallback \/ DisplayCallback \/ CycleEnds \/ ButtonStep
             \/ CalcWait
    <2>1. /\ UNCHANGED <<Meter, goal, left, loaded, since, unread, showing>>
          /\ at'["Display"] = at["Display"]
      BY <1>5 DEF PushButtonCallback, DisplayCallback, CycleEnds, ButtonStep, ButtonWait,
         ButtonRead, ButtonStore, ButtonClear, ButtonStart, CalcWait, Step, vars, calcV, lineV,
         TInv, IInv, Types, threads
    <2> QED BY <1>1, <2>1, TotalsAlone DEF TInv
  <1> QED BY <1>2, <1>3, <1>4, <1>5 DEF Next, CalcStep

-----------------------------------------------------------------------------

\* A line that DisplayThread prints lies between the totals it loaded from.
LEMMA LineOK == TInv => LineTrue
  <1> SUFFICES ASSUME TInv, at["Display"] = "print" PROVE LineTrue
    BY DEF LineTrue
  <1>1. /\ showing \in Quantities /\ Meter[showing] \in WordPair
        /\ loaded \in WordPair /\ since \in WordPair
    BY DEF TInv, IInv, Totals, Fits
  <1>2. since["hi"] <= loaded["hi"] /\ loaded["hi"] <= Meter[showing]["hi"]
    BY DEF TInv, Loading, Reading
  <1>3. CASE showing = "energy"
    BY <1>1, <1>2, <1>3, EnergyLine DEF LineTrue
  <1>4. CASE showing = "cost"
    <2>1. loaded["hi"] < Half * CentPerDollar
      <3>1. /\ loaded["hi"] \in Int /\ Meter["cost"]["hi"] \in Int /\ goal["cost"]["hi"] \in Int
            /\ Half * CentPerDollar \in Int
        BY Sizes DEF TInv, Fits, WordPair, Halves, Quantities
      <3>2. Meter["cost"]["hi"] <= goal["cost"]["hi"]
        BY DEF TInv, Rising, Quantities
      <3>3. goal["cost"]["hi"] < Half * CentPerDollar
        BY DEF TInv, Fits
      <3> QED BY <1>2, <1>4, <3>1, <3>2, <3>3
    <2> QED BY <1>1, <1>2, <1>4, <2>1, CostLine DEF LineTrue
  <1> QED BY <1>1, <1>3, <1>4 DEF Quantities

\* A reply tells a stored total exactly, and one that is being stored within its goal.
LEMMA RepliesOK == TInv => RepliesTrue
  <1> SUFFICES ASSUME TInv PROVE RepliesTrue
    OBVIOUS
  <1> DEFINE stored(q) == \A h \in Halves : <<q, h>> \notin left
  <1> DEFINE least(q) == IF stored(q) THEN Value(Meter[q]) ELSE 0
  <1> DEFINE most(q) == IF stored(q) THEN Value(Meter[q]) ELSE Value(goal[q])
  <1>1. ASSUME NEW q \in Quantities
        PROVE  /\ Meter[q] \in WordPair /\ goal[q] \in WordPair
               /\ Meter[q]["hi"] <= goal[q]["hi"] /\ Meter[q]["hi"] <= Meter[q]["hi"]
    <2>1. Meter[q] \in WordPair /\ goal[q] \in WordPair /\ Meter[q]["hi"] <= goal[q]["hi"]
      BY DEF TInv, Fits, Rising
    <2>2. Meter[q]["hi"] \in Int
      BY <2>1, Sizes DEF WordPair, Halves
    <2> QED BY <2>1, <2>2
  <1>2. "energy" \in Quantities /\ "cost" \in Quantities
    BY DEF Quantities
  <1>3. ASSUME most("energy") < Half * Word
        PROVE  HandleEnergy(Value(Meter["energy"]))
                   \in least("energy") \div (JoulePerWh * Word) ..
                           most("energy") \div (JoulePerWh * Word)
    <2>1. CASE stored("energy")
      <3> DEFINE reply == HandleEnergy(Value(Meter["energy"]))
      <3>1. /\ reply = Value(Meter["energy"]) \div (JoulePerWh * Word)
            /\ reply \in 0 \div (JoulePerWh * Word) ..
                             Value(Meter["energy"]) \div (JoulePerWh * Word)
        BY Zenon, <1>1, <1>2, <1>3, <2>1, EnergyReplied
      <3> HIDE DEF reply
      <3>2. reply \in reply .. reply
        BY <3>1
      <3> QED BY Zenon, <2>1, <3>1, <3>2 DEF reply
    <2>2. CASE ~ stored("energy")
      BY Zenon, <1>1, <1>2, <1>3, <2>2, EnergyReplied
    <2> QED BY <2>1, <2>2
  <1>4. ASSUME most("cost") < CentPerDollar * Word
        PROVE  LET cost == HandleCost(Value(Meter["cost"]))
               IN  cost.dollars * CentPerDollar + cost.cents
                       \in least("cost") \div Word .. most("cost") \div Word
    <2> DEFINE cost == HandleCost(Value(Meter["cost"]))
    <2> DEFINE reply == cost.dollars * CentPerDollar + cost.cents
    <2>1. CASE stored("cost")
      <3>1. /\ reply = Value(Meter["cost"]) \div Word
            /\ reply \in 0 \div Word .. Value(Meter["cost"]) \div Word
        BY Zenon, <1>1, <1>2, <1>4, <2>1, CostReplied
      <3> HIDE DEF reply
      <3>2. reply \in reply .. reply
        BY <3>1
      <3> QED BY Zenon, <2>1, <3>1, <3>2 DEF reply
    <2>2. CASE ~ stored("cost")
      BY Zenon, <1>1, <1>2, <1>4, <2>2, CostReplied
    <2> QED BY <2>1, <2>2
  <1> QED BY Zenon, <1>3, <1>4 DEF RepliesTrue

-----------------------------------------------------------------------------

\* The upper words only rise, and DisplayThread's loads lie between them.
THEOREM TotalsInvariant == Spec => []TInv
  <1>1. Interface_Init => TInv
    BY InitOK, TotalsInit DEF TInv
  <1> QED BY <1>1, TotalsStep, PTL DEF Spec

\* The display and the replies tell the totals, as far as they have room for them,
\* whatever CalcThread stores between two loads and whoever asks between two stores.
THEOREM ReadoutsCorrect == Spec => []ReadoutsTrue
  <1>1. TInv => ReadoutsTrue
    BY LineOK, RepliesOK DEF ReadoutsTrue
  <1> QED BY <1>1, TotalsInvariant, PTL

=============================================================================
