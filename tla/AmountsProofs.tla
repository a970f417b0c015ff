--------------------------- MODULE AmountsProofs ---------------------------
(***************************************************************************)
(* Theorems about module Amounts: what rounding and GetPrecision compute,   *)
(* for any number of decimals, and what that means for the orders.         *)
(***************************************************************************)
EXTENDS Amounts, Loops, FiniteSetTheorems, SequenceTheorems

-----------------------------------------------------------------------------
(* Powers of ten.                                                          *)

\* The recursive definition of the powers has a solution, and its values are positive.
LEMMA PowerDefined ==
  /\ Power \in [0..Digits -> Nat \ {0}]
  /\ Power[0] = 1
  /\ \A n \in 1..Digits : Power[n] = 10 * Power[n - 1]
<1> DEFINE T == Nat \ {0}
           tenfold == [n \in 1..Digits |-> [p \in T |-> 10 * p]]
<1>1. Digits \in Nat
  BY AmountsAssumption
<1>2. tenfold \in [1..Digits -> [T -> T]]
  OBVIOUS
<1>3. PICK f \in [0..Digits -> T] : Rounds(f, Digits, 1, tenfold)
  <2> HIDE DEF tenfold
  <2>1. 1 \in T
    OBVIOUS
  <2> HIDE DEF T
  <2> QED
    BY <1>1, <1>2, <2>1, RoundsDefined
<1>4. f = [n \in 0..Digits |-> IF n = 0 THEN 1 ELSE 10 * f[n - 1]]
  <2>1. ASSUME NEW n \in 1..Digits PROVE tenfold[n][f[n - 1]] = 10 * f[n - 1]
    <3>1. f[n - 1] \in T
      BY <1>1, <1>3
    <3> QED
      BY <3>1
  <2>2. f = [n \in 0..Digits |-> IF n = 0 THEN 1 ELSE tenfold[n][f[n - 1]]]
    BY <1>3 DEF Rounds
  <2> HIDE DEF tenfold
  <2>3. ASSUME NEW n \in 0..Digits
        PROVE  (IF n = 0 THEN 1 ELSE tenfold[n][f[n - 1]])
                 = IF n = 0 THEN 1 ELSE 10 * f[n - 1]
    BY <1>1, <2>1
  <2> QED
    BY <2>2, <2>3, Zenon
<1>5. Power = [n \in 0..Digits |-> IF n = 0 THEN 1 ELSE 10 * Power[n - 1]]
  BY <1>4 DEF Power
<1>6. /\ Power[0] = 1
      /\ \A n \in 1..Digits : Power[n] = 10 * Power[n - 1]
  BY <1>1, <1>5
<1>7. \A n \in 0..Digits : Power[n] \in T
  <2> DEFINE S == {n \in 0..Digits : Power[n] \in T}
  <2>1. 0 \in S /\ \A n \in 0..(Digits - 1) : n \in S => n + 1 \in S
    BY <1>1, <1>6
  <2> HIDE DEF S
  <2>2. \A n \in 0..Digits : n \in S
    BY <1>1, <2>1, LoopInduction
  <2> QED
    BY <2>2 DEF S
<1> QED
  BY <1>5, <1>6, <1>7

\* A grid is never zero, so that nothing is divided by zero.
LEMMA GridIsPositive == ASSUME NEW n \in 0..Digits PROVE Grid(n) \in Nat \ {0}
BY PowerDefined, AmountsAssumption DEF Grid

\* A higher power of ten is at least ten times a lower one.
LEMMA PowerGrows ==
  ASSUME NEW m \in 0..Digits, NEW n \in 0..Digits, m < n
  PROVE  10 * Power[m] <= Power[n]
<1> DEFINE S == {k \in 0..(Digits - m) : k > 0 => 10 * Power[m] <= Power[m + k]}
<1>1. Digits \in Nat /\ Digits - m \in Nat
  BY AmountsAssumption
<1>2. 0 \in S
  BY <1>1
<1>3. ASSUME NEW k \in 0..(Digits - m - 1), k \in S PROVE k + 1 \in S
  <2>1. Power[m + k + 1] = 10 * Power[m + k] /\ Power[m + k] \in Nat /\ Power[m] \in Nat
    BY <1>1, PowerDefined
  <2> QED
    BY <1>1, <1>3, <2>1
<1>4. \A k \in 0..(Digits - m) : k \in S
  <2> HIDE DEF S
  <2> QED
    BY <1>1, <1>2, <1>3, LoopInduction
<1>5. n - m \in S
  BY <1>1, <1>4
<1> QED
  BY <1>1, <1>5

\* Powers of ten multiply by adding their exponents.
LEMMA PowerSum ==
  ASSUME NEW m \in 0..Digits, NEW n \in 0..Digits, m + n <= Digits
  PROVE  Power[m] * Power[n] = Power[m + n]
<1> DEFINE S == {k \in 0..(Digits - m) : Power[m] * Power[k] = Power[m + k]}
<1>1. Digits \in Nat /\ Digits - m \in Nat
  BY AmountsAssumption
<1>2. 0 \in S
  BY <1>1, PowerDefined
<1>3. ASSUME NEW k \in 0..(Digits - m - 1), k \in S PROVE k + 1 \in S
  <2>1. /\ Power[m + k + 1] = 10 * Power[m + k] /\ Power[k + 1] = 10 * Power[k]
        /\ Power[m + k] \in Nat /\ Power[m] \in Nat /\ Power[k] \in Nat
    BY <1>1, PowerDefined
  <2>2. Power[m] * (10 * Power[k]) = 10 * (Power[m] * Power[k])
    BY <2>1
  <2> QED
    BY <1>1, <1>3, <2>1, <2>2
<1>4. \A k \in 0..(Digits - m) : k \in S
  <2> HIDE DEF S
  <2> QED
    BY <1>1, <1>2, <1>3, LoopInduction
<1> QED
  BY <1>1, <1>4

-----------------------------------------------------------------------------
(* What rounding does.                                                     *)

\* What integer division leaves out is less than the divisor.
LEMMA Quotient ==
  ASSUME NEW x \in Nat, NEW d \in Nat \ {0}
  PROVE  x \div d \in Nat /\ d * (x \div d) <= x /\ x < d * (x \div d) + d
OBVIOUS

\* The nearest multiple of the grid: within half of it.
LEMMA RoundIs ==
  ASSUME NEW a \in Nat, NEW b \in Nat \ {0}, NEW n \in 0..Digits
  PROVE  /\ Round(a, b, n) \in Nat
         /\ \E k \in Nat : Round(a, b, n) = k * Grid(n)
         /\ 2 * b * Round(a, b, n) <= 2 * a + b * Grid(n)
         /\ 2 * a < 2 * b * Round(a, b, n) + b * Grid(n)
<1> DEFINE g == Grid(n)
           x == 2 * a + b * g
           d == 2 * b * g
           k == x \div d
<1>1. g \in Nat \ {0}
  BY GridIsPositive
<1>2. x \in Nat /\ d \in Nat \ {0}
  BY <1>1
<1>3. k \in Nat /\ d * k <= x /\ x < d * k + d
  <2> HIDE DEF x, d
  <2> QED
    BY <1>2, Quotient
<1>4. Round(a, b, n) = g * k
  BY DEF Round
<1> HIDE DEF g, k
<1>5. g * k \in Nat /\ g * k = k * g
  BY <1>1, <1>3
<1>6. d * k = 2 * b * (g * k)
  BY <1>1, <1>3
<1>7. /\ 2 * b * (g * k) <= 2 * a + b * g
      /\ 2 * a + b * g < 2 * b * (g * k) + 2 * b * g
  BY <1>3, <1>6
<1>8. 2 * b * g = b * g + b * g /\ b * g \in Nat /\ 2 * b * (g * k) \in Nat
  BY <1>1, <1>5
<1> QED
  BY <1>3, <1>4, <1>5, <1>7, <1>8 DEF g

\* The multiple of the grid below.
LEMMA RoundDownIs ==
  ASSUME NEW a \in Nat, NEW n \in 0..Digits
  PROVE  /\ RoundDown(a, n) \in Nat
         /\ \E k \in Nat : RoundDown(a, n) = k * Grid(n)
         /\ RoundDown(a, n) <= a /\ a < RoundDown(a, n) + Grid(n)
<1>1. Grid(n) \in Nat \ {0}
  BY GridIsPositive
<1>2. /\ a \div Grid(n) \in Nat /\ Grid(n) * (a \div Grid(n)) <= a
      /\ a < Grid(n) * (a \div Grid(n)) + Grid(n)
  BY <1>1, Quotient
<1>3. /\ Grid(n) * (a \div Grid(n)) \in Nat
      /\ Grid(n) * (a \div Grid(n)) = (a \div Grid(n)) * Grid(n)
  BY <1>1, <1>2
<1> QED
  BY <1>2, <1>3 DEF RoundDown

\* The fewest decimals with which the size does not round to zero.
LEMMA GetPrecisionIs ==
  ASSUME NEW size \in Nat \ {0}
  PROVE  /\ GetPrecision(size) \in 0..Digits
         /\ HalfAfter(size, GetPrecision(size))
         /\ \A m \in 0..(GetPrecision(size) - 1) : ~HalfAfter(size, m)
<1> DEFINE S == {n \in 0..Digits : HalfAfter(size, n)}
<1>1. Digits \in Nat
  BY AmountsAssumption
<1>2. Digits \in S
  <2> DEFINE p == Power[Digits]
  <2>0. p \in Nat
    BY <1>1, PowerDefined
  <2>1. One \in Nat /\ 2 * size * One >= One
    <3>1. One = p
      BY DEF One
    <3> HIDE DEF p
    <3>2. 2 * size * p >= p
      BY <2>0
    <3> QED
      BY <2>0, <3>1, <3>2
  <2> QED
    BY <1>1, <2>1 DEF HalfAfter, One
<1>3. PICK n \in S : \A m \in S : n <= m
  <2>1. S \subseteq Nat
    BY <1>1
  <2> HIDE DEF S
  <2> QED
    BY <1>2, <2>1, LeastNat
<1>4. n \in 0..Digits /\ HalfAfter(size, n) /\ \A m \in 0..(n - 1) : ~HalfAfter(size, m)
  BY <1>1, <1>3
<1> HIDE DEF S
<1> QED
  BY <1>4 DEF GetPrecision

\* A finite set of numbers has a largest and a smallest one.
LEMMA FiniteBounded ==
  ASSUME NEW S, S \subseteq Nat, IsFiniteSet(S)
  PROVE  \E top \in Nat : \A x \in S : x <= top
<1>1. PICK q \in Seq(S) : \A x \in S : \E n \in 1..Len(q) : q[n] = x
  BY DEF IsFiniteSet
<1> DEFINE T == {n \in 0..Len(q) : \E top \in Nat : \A k \in 1..n : q[k] <= top}
<1>2. Len(q) \in Nat /\ \A k \in 1..Len(q) : q[k] \in Nat
  <2>1. \A k \in 1..Len(q) : q[k] \in S
    BY <1>1
  <2>2. Len(q) \in Nat
    BY <1>1, LenProperties
  <2> QED
    BY <2>1, <2>2
<1>3. 0 \in T
  BY <1>2
<1>4. ASSUME NEW n \in 0..(Len(q) - 1), n \in T PROVE n + 1 \in T
  <2>1. PICK top \in Nat : \A k \in 1..n : q[k] <= top
    BY <1>4
  <2>2. PICK more \in Nat : more >= top /\ more >= q[n + 1]
    <3>1. q[n + 1] \in Nat
      BY <1>2
    <3> QED
      BY <3>1
  <2>3. \A k \in 1..(n + 1) : q[k] <= more
    BY <1>2, <2>1, <2>2
  <2>4. n + 1 \in 0..Len(q)
    BY <1>2
  <2> QED
    BY <2>3, <2>4
<1>5. Len(q) \in T
  <2> HIDE DEF T
  <2>1. \A n \in 0..Len(q) : n \in T
    BY <1>2, <1>3, <1>4, LoopInduction
  <2> QED
    BY <1>2, <2>1
<1> QED
  BY <1>1, <1>2, <1>5

\* The best bid of a finite book is one of its bids, and none is above it.
LEMMA MaxIs ==
  ASSUME NEW S, S \subseteq Nat, IsFiniteSet(S), S # {}
  PROVE  Max(S) \in S /\ \A x \in S : x <= Max(S)
<1>1. PICK top \in Nat : \A x \in S : x <= top
  BY FiniteBounded
<1> DEFINE Below == {top - x : x \in S}
<1>2. PICK least \in Below : \A y \in Below : least <= y
  <2>1. \A x \in S : top - x \in Nat
    BY <1>1
  <2>2. Below \subseteq Nat /\ Below # {}
    BY <2>1
  <2> HIDE DEF Below
  <2> QED
    BY <2>2, LeastNat
<1>3. PICK hi \in S : least = top - hi
  BY <1>2
<1>4. \A x \in S : hi >= x
  BY <1>1, <1>2, <1>3
<1>5. Max(S) \in S /\ \A x \in S : Max(S) >= x
  BY <1>3, <1>4 DEF Max
<1> QED
  BY <1>5

\* The best ask is one of the asks, and none is below it.
LEMMA MinIs ==
  ASSUME NEW S, S \subseteq Nat, S # {}
  PROVE  Min(S) \in S /\ \A x \in S : Min(S) <= x
<1>1. PICK lo \in S : \A x \in S : lo <= x
  BY LeastNat
<1> QED
  BY <1>1 DEF Min

-----------------------------------------------------------------------------
(* What the numbers of an order are.                                       *)

\* Both sides of an inequality times the same number.
LEMMA TimesMonotone ==
  ASSUME NEW a \in Int, NEW b \in Int, NEW c \in Nat, a <= b
  PROVE  a * c <= b * c
OBVIOUS

\* Multiples of one grid are at least a step apart.
LEMMA MultiplesApart ==
  ASSUME NEW j \in Nat, NEW k \in Nat, NEW g \in Nat \ {0}, j * g < k * g
  PROVE  j * g + g <= k * g
<1>1. j < k
  <2>1. k <= j => k * g <= j * g
    BY TimesMonotone
  <2> QED
    BY <2>1
<1>2. (j + 1) * g <= k * g
  BY <1>1, TimesMonotone
<1> QED
  BY <1>2

\* The rate is between the offers.
LEMMA TwiceRateIs ==
  ASSUME NEW b \in Books, b.asks # {}, b.bids # {}
  PROVE  /\ TwiceRate(b) \in Nat \ {0}
         /\ \A bid \in b.bids : bid \in Nat /\ 2 * bid <= TwiceRate(b)
         /\ \A ask \in b.asks : ask \in Nat /\ TwiceRate(b) <= 2 * ask
<1> DEFINE hi == Max(b.bids)
           lo == Min(b.asks)
<1>1. /\ b.asks \subseteq Nat \ {0} /\ b.bids \subseteq Nat \ {0}
      /\ IsFiniteSet(b.bids) /\ \A bid \in b.bids, ask \in b.asks : bid < ask
  BY AmountsAssumption
<1>2. hi \in b.bids /\ \A bid \in b.bids : bid <= hi
  BY <1>1, MaxIs
<1>3. lo \in b.asks /\ \A ask \in b.asks : lo <= ask
  BY <1>1, MinIs
<1>4. TwiceRate(b) = hi + lo
  BY DEF TwiceRate
<1> HIDE DEF hi, lo
<1> QED
  BY <1>1, <1>2, <1>3, <1>4

\* A buy price is 1.0005 of the rate, to within half of the grid.
LEMMA BuyPriceIs ==
  ASSUME NEW rate2 \in Nat \ {0}, NEW n \in 0..Digits
  PROVE  /\ BuyPrice(rate2, n) \in Nat
         /\ \E k \in Nat : BuyPrice(rate2, n) = k * Grid(n)
         /\ 8000 * BuyPrice(rate2, n) <= 4002 * rate2 + 4000 * Grid(n)
         /\ 4002 * rate2 < 8000 * BuyPrice(rate2, n) + 4000 * Grid(n)
<1>1. 2001 * rate2 \in Nat /\ 4000 \in Nat \ {0} /\ Grid(n) \in Nat
  BY GridIsPositive
<1>2. /\ BuyPrice(rate2, n) \in Nat
      /\ \E k \in Nat : BuyPrice(rate2, n) = k * Grid(n)
      /\ 2 * 4000 * BuyPrice(rate2, n) <= 2 * (2001 * rate2) + 4000 * Grid(n)
      /\ 2 * (2001 * rate2) < 2 * 4000 * BuyPrice(rate2, n) + 4000 * Grid(n)
  BY <1>1, RoundIs DEF BuyPrice
<1> QED
  BY <1>1, <1>2

\* The sum that is looked at before a buy.
Least == MinSum * One * One

LEMMA LeastIs == Least \in Nat
BY PowerDefined, AmountsAssumption DEF Least, MinSum, One

\* A buy amount is MinSum at 1.0005 of the rate, to within half of the grid.
LEMMA BuyAmountIs ==
  ASSUME NEW rate2 \in Nat \ {0}, NEW n \in 0..Digits
  PROVE  /\ BuyAmount(rate2, n) \in Nat
         /\ \E k \in Nat : BuyAmount(rate2, n) = k * Grid(n)
         /\ 2 * (2001 * rate2) * BuyAmount(rate2, n)
              <= 8000 * Least + (2001 * rate2) * Grid(n)
         /\ 8000 * Least
              < 2 * (2001 * rate2) * BuyAmount(rate2, n) + (2001 * rate2) * Grid(n)
<1> DEFINE a == 4000 * MinSum * One * One
           b == 2001 * rate2
<1>1. One \in Nat /\ Grid(n) \in Nat
  BY GridIsPositive, PowerDefined, AmountsAssumption DEF One
<1>2. a = 4000 * Least /\ Least \in Nat
  BY <1>1, LeastIs DEF Least, MinSum
<1>3. a \in Nat /\ b \in Nat \ {0}
  BY <1>2
<1>4. BuyAmount(rate2, n) = Round(a, b, n)
  BY DEF BuyAmount
<1> HIDE DEF a, b
<1>5. /\ Round(a, b, n) \in Nat
      /\ \E k \in Nat : Round(a, b, n) = k * Grid(n)
      /\ 2 * b * Round(a, b, n) <= 2 * a + b * Grid(n)
      /\ 2 * a < 2 * b * Round(a, b, n) + b * Grid(n)
  BY <1>3, RoundIs
<1>6. 2 * a = 8000 * Least
  BY <1>2
<1> QED
  BY <1>4, <1>5, <1>6 DEF b

\* Two rounded numbers, and how far their product is from what they are for.
LEMMA ProductNear ==
  ASSUME NEW x \in Nat, NEW least \in Nat, NEW price \in Nat, NEW amount \in Nat,
         NEW mark \in Nat, NEW lot \in Nat,
         4000 * price <= x + 2000 * mark, x <= 4000 * price + 2000 * mark,
         2 * x * amount <= 8000 * least + x * lot,
         8000 * least <= 2 * x * amount + x * lot
  PROVE  /\ 4 * (price * amount - least)
              <= 2 * lot * price + 2 * mark * amount + 3 * lot * mark
         /\ 4 * (least - price * amount)
              <= 2 * lot * price + 2 * mark * amount + 3 * lot * mark
<1> DEFINE pa == price * amount  xa == x * amount  xl == x * lot
           pl == price * lot     ma == mark * amount  ml == mark * lot
<1>1. /\ pa \in Nat /\ xa \in Nat /\ xl \in Nat /\ pl \in Nat /\ ma \in Nat /\ ml \in Nat
  OBVIOUS
<1>2. 4000 * pa <= xa + 2000 * ma /\ xa <= 4000 * pa + 2000 * ma
  <2>1. /\ (4000 * price) * amount <= (x + 2000 * mark) * amount
        /\ x * amount <= (4000 * price + 2000 * mark) * amount
    BY TimesMonotone
  <2> QED
    BY <2>1
<1>3. xl <= 4000 * pl + 2000 * ml
  <2>1. x * lot <= (4000 * price + 2000 * mark) * lot
    BY TimesMonotone
  <2> QED
    BY <2>1
<1>4. 2 * xa <= 8000 * least + xl /\ 8000 * least <= 2 * xa + xl
  OBVIOUS
<1>5. /\ 2 * lot * price = 2 * pl /\ 2 * mark * amount = 2 * ma
      /\ 3 * lot * mark = 3 * ml
  OBVIOUS
<1> HIDE DEF pa, xa, xl, pl, ma, ml
<1>6. /\ 4 * (pa - least) <= 2 * pl + 2 * ma + 3 * ml
      /\ 4 * (least - pa) <= 2 * pl + 2 * ma + 3 * ml
  BY <1>1, <1>2, <1>3, <1>4
<1> QED
  BY <1>5, <1>6 DEF pa

\* A sell price is at least 1.003 of what was paid, less half of the grid.
LEMMA SellPriceIs ==
  ASSUME NEW price \in Nat, NEW n \in 0..Digits
  PROVE  /\ SellPrice(price, n) \in Nat
         /\ \E k \in Nat : SellPrice(price, n) = k * Grid(n)
         /\ 2006 * price < 2000 * SellPrice(price, n) + 1000 * Grid(n)
<1>1. 1003 * price \in Nat /\ 1000 \in Nat \ {0} /\ Grid(n) \in Nat
  BY GridIsPositive
<1>2. /\ SellPrice(price, n) \in Nat
      /\ \E k \in Nat : SellPrice(price, n) = k * Grid(n)
      /\ 2 * (1003 * price) < 2 * 1000 * SellPrice(price, n) + 1000 * Grid(n)
  BY <1>1, RoundIs DEF SellPrice
<1> QED
  BY <1>1, <1>2

\* A sell amount is on the grid, at most what there is, and near 0.999 of it.
LEMMA SellAmountIs ==
  ASSUME NEW amount \in Nat, NEW n \in 0..Digits
  PROVE  /\ SellAmount(amount, n) \in Nat
         /\ \E k \in Nat : SellAmount(amount, n) = k * Grid(n)
         /\ SellAmount(amount, n) <= amount
         /\ 1998 * amount <= 2000 * SellAmount(amount, n) + 2998 * Grid(n)
         /\ 1998 * RoundDown(amount, n) < 2000 * SellAmount(amount, n) + 1000 * Grid(n)
<1> DEFINE whole == RoundDown(amount, n)
           sold == SellAmount(amount, n)
           lot == Grid(n)
<1>1. lot \in Nat \ {0}
  BY GridIsPositive
<1>2. whole \in Nat /\ whole <= amount /\ amount < whole + lot
  BY RoundDownIs
<1>3. PICK k \in Nat : whole = k * lot
  BY RoundDownIs
<1>4. /\ sold \in Nat /\ \E j \in Nat : sold = j * lot
      /\ 2 * 1000 * sold <= 2 * (999 * whole) + 1000 * lot
      /\ 2 * (999 * whole) < 2 * 1000 * sold + 1000 * lot
  <2>1. 999 * whole \in Nat /\ 1000 \in Nat \ {0} /\ sold = Round(999 * whole, 1000, n)
    BY <1>2 DEF SellAmount
  <2> DEFINE a == 999 * whole
  <2>2. a \in Nat /\ 1000 \in Nat \ {0} /\ sold = Round(a, 1000, n)
    BY <2>1
  <2> HIDE DEF a
  <2>3. /\ Round(a, 1000, n) \in Nat /\ \E j \in Nat : Round(a, 1000, n) = j * lot
        /\ 2 * 1000 * Round(a, 1000, n) <= 2 * a + 1000 * lot
        /\ 2 * a < 2 * 1000 * Round(a, 1000, n) + 1000 * lot
    BY <2>2, RoundIs
  <2> HIDE DEF sold
  <2> QED
    BY <2>2, <2>3 DEF a
<1>5. PICK j \in Nat : sold = j * lot
  BY <1>4
<1> HIDE DEF whole, sold, lot
<1>6. sold <= whole
  <2>1. whole < sold => whole + lot <= sold
    BY <1>1, <1>3, <1>5, MultiplesApart
  <2> QED
    BY <1>1, <1>2, <1>4, <2>1
<1>7. 1998 * amount <= 2000 * sold + 2998 * lot
  BY <1>1, <1>2, <1>4
<1> QED
  BY <1>1, <1>2, <1>4, <1>6, <1>7 DEF whole, sold, lot

-----------------------------------------------------------------------------
(* Sizes and filters.                                                      *)

\* A sell order has a price and an amount.
LEMMA SellNumbersAreNat ==
  \A x \in Nat, n \in 0..Digits : SellPrice(x, n) \in Nat /\ SellAmount(x, n) \in Nat
<1> TAKE x \in Nat, n \in 0..Digits
<1>1. SellPrice(x, n) \in Nat
  BY SellPriceIs, SMTT(30)
<1>2. SellAmount(x, n) \in Nat
  BY SellAmountIs, SMTT(30)
<1> QED
  BY <1>1, <1>2

\* A multiple leaves no remainder.
LEMMA MultipleFits ==
  ASSUME NEW k \in Nat, NEW d \in Nat \ {0}
  PROVE  (k * d) % d = 0
<1>1. k * d \in Nat /\ (k * d) % d = k * d - d * ((k * d) \div d)
  OBVIOUS
<1> DEFINE q == (k * d) \div d
<1>2. q \in Nat /\ d * q <= k * d /\ k * d < d * q + d
  BY <1>1, Quotient
<1> HIDE DEF q
<1>3. d * q = q * d /\ q * d \in Nat
  BY <1>2
<1>4. q = k
  <2>1. q < k => (q + 1) * d <= k * d
    BY <1>2, TimesMonotone
  <2>2. k < q => (k + 1) * d <= q * d
    BY <1>2, TimesMonotone
  <2> QED
    BY <1>1, <1>2, <1>3, <2>1, <2>2
<1> QED
  BY <1>1, <1>3, <1>4 DEF q

\* The decimals of a size that is a power of ten, or half of one, say it all.
LEMMA GridOfHandy ==
  ASSUME NEW size \in Nat \ {0}, Handy(size)
  PROVE  \/ Grid(GetPrecision(size)) = size
         \/ Grid(GetPrecision(size)) = 2 * size
<1> DEFINE h == GetPrecision(size)
<1>1. PICK n \in 0..Digits : size = Power[n] \/ 2 * size = Power[n]
  BY DEF Handy
<1>2. Digits \in Nat /\ Digits - n \in 0..Digits
  BY AmountsAssumption
<1>3. h \in 0..Digits /\ HalfAfter(size, h) /\ \A m \in 0..(h - 1) : ~HalfAfter(size, m)
  BY GetPrecisionIs
<1> HIDE DEF h
<1>4. \A m \in 0..Digits : Power[m] \in Nat \ {0}
  BY PowerDefined
<1>5. HalfAfter(size, Digits - n)
  <2>1. Power[n] * Power[Digits - n] = Power[Digits]
    BY <1>2, PowerSum
  <2>2. 2 * size * Power[Digits - n] >= Power[n] * Power[Digits - n]
    <3>1. Power[n] <= 2 * size
      BY <1>1, <1>4
    <3> QED
      BY <1>2, <1>4, <3>1, TimesMonotone
  <2> QED
    BY <2>1, <2>2 DEF HalfAfter, One
<1>6. ASSUME h < Digits - n PROVE FALSE
  <2>1. n + h \in 0..Digits /\ n + h < Digits /\ Digits \in 0..Digits
    BY <1>2, <1>3, <1>6
  <2>2. Power[n] * Power[h] = Power[n + h]
    BY <1>3, <2>1, PowerSum
  <2>3. 10 * Power[n + h] <= Power[Digits]
    BY <2>1, PowerGrows
  <2>4. 2 * size * Power[h] <= 2 * (Power[n] * Power[h])
    <3>1. 2 * size <= 2 * Power[n] /\ 2 * size \in Int /\ 2 * Power[n] \in Int
      BY <1>1, <1>4
    <3>2. 2 * size * Power[h] <= 2 * Power[n] * Power[h]
      BY <1>3, <1>4, <3>1, TimesMonotone
    <3> QED
      BY <1>3, <1>4, <3>2
  <2>5. Power[Digits] <= 2 * size * Power[h]
    BY <1>3 DEF HalfAfter, One
  <2>6. Power[n + h] \in Nat \ {0} /\ Power[Digits] \in Nat
    BY <1>4, <2>1
  <2>7. 2 * size * Power[h] \in Nat
    BY <1>3, <1>4
  <2>8. 2 * size * Power[h] <= 2 * Power[n + h]
    BY <2>2, <2>4
  <2> HIDE DEF h
  <2> QED
    BY <2>3, <2>5, <2>6, <2>7, <2>8
<1>7. ~(Digits - n < h)
  BY <1>2, <1>3, <1>5
<1>8. h = Digits - n
  BY <1>2, <1>3, <1>6, <1>7
<1>9. Grid(h) = Power[n]
  BY <1>2, <1>8 DEF Grid
<1> QED
  BY <1>1, <1>9 DEF h

LEMMA GridFits ==
  ASSUME NEW size \in Nat \ {0}, Handy(size), NEW x \in Nat,
         \E k \in Nat : x = k * Grid(GetPrecision(size))
  PROVE  x % size = 0
<1>1. PICK k \in Nat : x = k * Grid(GetPrecision(size))
  OBVIOUS
<1>2. CASE Grid(GetPrecision(size)) = size
  BY <1>1, <1>2, MultipleFits
<1>3. CASE Grid(GetPrecision(size)) = 2 * size
  <2>1. x = (2 * k) * size /\ 2 * k \in Nat
    BY <1>1, <1>3
  <2> QED
    BY <2>1, MultipleFits
<1> QED
  BY <1>2, <1>3, GridOfHandy

-----------------------------------------------------------------------------
(* The inductive invariant.                                                *)

Ordering(side) == pc \in {"CreateOrder", "CheckOrder"} /\ order.side = side

\* Once the bot trades it knows the decimals of its filters.
FiltersKnown ==
  pc \notin {"Start", "hung"} =>
    /\ tick # 0 /\ step # 0
    /\ info = [price |-> GetPrecision(tick), base |-> GetPrecision(step)]

OrderTaken ==
  /\ pc \in {"CreateOrder", "CheckOrder"} => order.side # "none"
  /\ pc = "CheckOrder" => Covered(order)

\* What a buy order was made from.
BuyMade ==
  Ordering("BUY") =>
    /\ book \in Books /\ book.asks # {} /\ book.bids # {}
    /\ order.price = BuyPrice(TwiceRate(book), info.price)
    /\ order.amount = BuyAmount(TwiceRate(book), info.base)
    /\ bought = order.price

NothingSpent ==
  (pc = "OpenPosition" \/ Ordering("BUY")) => opened.quote = quote /\ opened.base = base

\* What was bought is there, but for the fee.
Bought ==
  (pc = "ClosePosition" \/ Ordering("SELL")) =>
    /\ \E k \in Nat : bought = k * Grid(info.price)
    /\ \E k \in Nat :
         LET amount == k * Grid(info.base) IN
         /\ opened.quote = quote + bought * amount
         /\ opened.base + amount <= base + amount \div 1000

\* What a sell order was made from.
SellMade ==
  /\ pc = "ClosePosition" => order.price = bought
  /\ Ordering("SELL") =>
       /\ order.price = SellPrice(bought, info.price)
       /\ order.amount = SellAmount(base, info.base)

AmountsInv ==
  TypeOK /\ FiltersKnown /\ OrderTaken /\ BuyMade /\ NothingSpent /\ Bought /\ SellMade

\* The invariant holds at the start.
LEMMA InitInv == Init => AmountsInv
<1> SUFFICES ASSUME Init PROVE AmountsInv
  OBVIOUS
<1>1. Digits \in Nat /\ 0 \in 0..Digits /\ InitQuotes \subseteq Nat /\ MaxTrades \in Nat
  BY AmountsAssumption
<1>2. TypeOK
  BY <1>1 DEF Init, TypeOK, States, Order
<1> QED
  BY <1>2 DEF Init, AmountsInv, FiltersKnown, OrderTaken, BuyMade, NothingSpent, Bought,
     SellMade, Ordering

\* Every action keeps the invariant.
LEMMA StepInv == AmountsInv /\ [Next]_vars => AmountsInv'
<1> SUFFICES ASSUME AmountsInv, [Next]_vars PROVE AmountsInv'
  OBVIOUS
<1> USE DEF AmountsInv, pairVars, accountVars, observedVars
<1>0. /\ Digits \in Nat /\ MaxTrades \in Nat
      /\ info.price \in 0..Digits /\ info.base \in 0..Digits
      /\ order.price \in Nat /\ order.amount \in Nat /\ quote \in Nat /\ base \in Nat
      /\ tick \in Nat /\ step \in Nat /\ bought \in Nat
  BY AmountsAssumption DEF TypeOK, Order
<1>1. CASE GetInformation
  <2>1. CASE tick = 0 \/ step = 0
    BY <1>1, <2>1 DEF GetInformation, TypeOK, States, FiltersKnown, OrderTaken, BuyMade,
       NothingSpent, Bought, SellMade, Ordering
  <2>2. CASE ~(tick = 0 \/ step = 0)
    <3>1. GetPrecision(tick) \in 0..Digits /\ GetPrecision(step) \in 0..Digits
      BY <1>0, <2>2, GetPrecisionIs
    <3> QED
      BY <1>1, <2>2, <3>1 DEF GetInformation, TypeOK, States, FiltersKnown, OrderTaken,
         BuyMade, NothingSpent, Bought, SellMade, Ordering
  <2> QED
    BY <2>1, <2>2
<1>2. CASE Signal
  <2>1. trades' \in 0..MaxTrades
    BY <1>0, <1>2 DEF Signal, TypeOK
  <2> QED
    BY <1>2, <2>1 DEF Signal, TypeOK, States, FiltersKnown, OrderTaken, BuyMade,
       NothingSpent, Bought, SellMade, Ordering
<1>3. CASE NotEnoughMoney \/ BuyCancelled
  BY <1>3 DEF NotEnoughMoney, BuyCancelled, TypeOK, States, FiltersKnown, OrderTaken, BuyMade,
     NothingSpent, Bought, SellMade, Ordering
<1>4. ASSUME NEW b \in Books, OpenPosition(b) PROVE AmountsInv'
  <2>1. TwiceRate(b) \in Nat \ {0}
    BY <1>4, TwiceRateIs DEF OpenPosition
  <2>2. /\ BuyPrice(TwiceRate(b), info.price) \in Nat
        /\ BuyAmount(TwiceRate(b), info.base) \in Nat
    BY <1>0, <2>1, BuyPriceIs, BuyAmountIs
  <2>3. /\ order' = [side |-> "BUY", price |-> BuyPrice(TwiceRate(b), info.price),
                     amount |-> BuyAmount(TwiceRate(b), info.base)]
        /\ bought' = order'.price /\ book' = b /\ pc' = "CreateOrder"
        /\ UNCHANGED <<pairVars, info, accountVars, trades, opened>>
        /\ pc = "OpenPosition" /\ b.asks # {} /\ b.bids # {}
    BY <1>4 DEF OpenPosition
  <2>4. TypeOK'
    BY <2>2, <2>3 DEF TypeOK, States, Order
  <2> QED
    BY <2>3, <2>4 DEF FiltersKnown, OrderTaken, BuyMade, NothingSpent, Bought, SellMade,
       Ordering
<1>5. CASE CreateOrder
  <2>1. TypeOK'
    BY <1>5 DEF CreateOrder, TypeOK, States
  <2>2. FiltersKnown' /\ OrderTaken'
    BY <1>5 DEF CreateOrder, FiltersKnown, OrderTaken, Covered, Sum
  <2> QED
    BY <1>5, <2>1, <2>2 DEF CreateOrder, BuyMade, NothingSpent, Bought, SellMade, Ordering
<1>6. CASE BuyFinished
  <2> DEFINE amount == order.amount
  <2>1. PICK fee \in Fees(amount) : base' = (base + amount) - fee
    BY <1>6 DEF BuyFinished
  <2>2. fee \in Nat /\ fee <= amount \div 1000 /\ amount \div 1000 <= amount
    <3>1. amount \div 1000 \in Nat /\ 1000 * (amount \div 1000) <= amount
      BY <1>0
    <3> QED
      BY <1>0, <3>1 DEF Fees
  <2>3. Sum(order) \in Nat /\ Sum(order) = order.price * amount /\ Sum(order) <= quote
    BY <1>0, <1>6 DEF BuyFinished, OrderTaken, Covered, Sum
  <2>4. /\ quote' = quote - Sum(order) /\ pc' = "ClosePosition" /\ pc = "CheckOrder"
        /\ order.side = "BUY"
        /\ UNCHANGED <<pairVars, info, order, trades, observedVars>>
    BY <1>6 DEF BuyFinished
  <2>5. quote' \in Nat /\ base' \in Nat
    BY <1>0, <2>1, <2>2, <2>3, <2>4
  <2>6. TypeOK'
    BY <2>4, <2>5 DEF TypeOK, States
  <2>7. FiltersKnown' /\ OrderTaken' /\ BuyMade' /\ NothingSpent'
    BY <2>4 DEF FiltersKnown, OrderTaken, BuyMade, NothingSpent, Ordering
  <2>8. SellMade'
    BY <2>4 DEF SellMade, BuyMade, Ordering
  <2>9. Bought'
    <3>1. /\ book \in Books /\ book.asks # {} /\ book.bids # {}
          /\ bought = BuyPrice(TwiceRate(book), info.price) /\ bought = order.price
          /\ amount = BuyAmount(TwiceRate(book), info.base)
          /\ opened.quote = quote /\ opened.base = base
      BY <2>4 DEF BuyMade, NothingSpent, Ordering
    <3>2. TwiceRate(book) \in Nat \ {0}
      BY <3>1, TwiceRateIs
    <3>3. \E k \in Nat : bought = k * Grid(info.price)
      <4>1. \E k \in Nat : BuyPrice(TwiceRate(book), info.price) = k * Grid(info.price)
        BY <1>0, <3>2, BuyPriceIs
      <4> QED
        BY <3>1, <4>1, Zenon
    <3>4. PICK k \in Nat : amount = k * Grid(info.base)
      <4>1. \E k \in Nat : BuyAmount(TwiceRate(book), info.base) = k * Grid(info.base)
        BY <1>0, <3>2, BuyAmountIs
      <4> QED
        BY <3>1, <4>1, Zenon
    <3>5. opened.quote = quote' + bought * amount
      BY <1>0, <2>3, <2>4, <3>1
    <3>6. opened.base + amount <= base' + amount \div 1000
      BY <1>0, <2>1, <2>2, <3>1
    <3> HIDE DEF amount
    <3> QED
      BY <2>4, <3>3, <3>4, <3>5, <3>6 DEF Bought
  <2> QED
    BY <2>6, <2>7, <2>8, <2>9
<1>7. CASE ClosePosition
  <2>1. /\ order' = [side |-> "SELL", price |-> SellPrice(order.price, info.price),
                     amount |-> SellAmount(base, info.base)]
        /\ pc' = "CreateOrder" /\ pc = "ClosePosition"
        /\ UNCHANGED <<pairVars, info, accountVars, trades, observedVars>>
    BY <1>7 DEF ClosePosition
  <2>2. SellPrice(order.price, info.price) \in Nat /\ SellAmount(base, info.base) \in Nat
    BY <1>0, SellNumbersAreNat
  <2>3. TypeOK'
    BY <2>1, <2>2 DEF TypeOK, States, Order
  <2> QED
    BY <2>1, <2>3 DEF FiltersKnown, OrderTaken, BuyMade, NothingSpent, Bought, SellMade,
       Ordering
<1>8. CASE SellFinished
  <2>1. PICK fee \in Fees(Sum(order)) : quote' = (quote + Sum(order)) - fee
    BY <1>8 DEF SellFinished
  <2>2. Sum(order) \in Nat
    BY <1>0 DEF Sum
  <2>3. fee \in Nat /\ fee <= Sum(order)
    <3>1. Sum(order) \div 1000 \in Nat /\ 1000 * (Sum(order) \div 1000) <= Sum(order)
      BY <2>2
    <3> QED
      BY <2>2, <3>1 DEF Fees
  <2>4. order.amount <= base
    BY <1>8 DEF SellFinished, OrderTaken, Covered
  <2>5. quote' \in Nat /\ base' \in Nat
    BY <1>0, <1>8, <2>1, <2>2, <2>3, <2>4 DEF SellFinished
  <2>6. TypeOK'
    BY <1>8, <2>5 DEF SellFinished, TypeOK, States
  <2> QED
    BY <1>8, <2>6 DEF SellFinished, FiltersKnown, OrderTaken, BuyMade, NothingSpent, Bought,
       SellMade, Ordering
<1>9. CASE UNCHANGED vars
  BY <1>9 DEF vars, TypeOK, FiltersKnown, OrderTaken, Covered, Sum, BuyMade, NothingSpent,
     Bought, SellMade, Ordering
<1> QED
  BY <1>1, <1>2, <1>3, <1>4, <1>5, <1>6, <1>7, <1>8, <1>9 DEF Next

\* What an order carries follows from the filters, the order book and the account it
\* was made with, and a trade's account from its two orders, at every step of the
\* bot (bot.go:108-196, 273-339).
THEOREM AmountsInvariant == Spec => []AmountsInv
BY InitInv, StepInv, PTL DEF Spec

-----------------------------------------------------------------------------
(* What it implies.                                                        *)

\* Every number keeps its kind: no balance becomes negative, and the decimals
\* that are found for a filter are never too many (exchange.go:45-52).
THEOREM AmountsTypeCorrect == Spec => []TypeOK
<1>1. AmountsInv => TypeOK
  BY DEF AmountsInv
<1> QED
  BY <1>1, AmountsInvariant, PTL

\* A buy order is priced between the best offers, up to 0.05% and half of a
\* price step, for any order book (exchange.go:85-90, bot.go:274-287).
THEOREM BuyNearOffersHolds == Spec => []BuyNearOffers
<1>1. AmountsInv => BuyNearOffers
  <2> SUFFICES ASSUME AmountsInv, Buying PROVE BuyNearOffers
    BY DEF BuyNearOffers
  <2> DEFINE rate2 == TwiceRate(book)
             price == order.price
             mark == Grid(info.price)
  <2>1. /\ book \in Books /\ book.asks # {} /\ book.bids # {}
        /\ price = BuyPrice(rate2, info.price) /\ info.price \in 0..Digits
    BY DEF AmountsInv, BuyMade, Ordering, Buying, TypeOK
  <2>2. /\ rate2 \in Nat \ {0}
        /\ \A bid \in book.bids : bid \in Nat /\ 2 * bid <= rate2
        /\ \A ask \in book.asks : ask \in Nat /\ rate2 <= 2 * ask
    BY <2>1, TwiceRateIs
  <2>3. mark \in Nat \ {0}
    BY <2>1, GridIsPositive
  <2> HIDE DEF rate2
  <2>4. /\ price \in Nat /\ 8000 * price <= 4002 * rate2 + 4000 * mark
        /\ 4002 * rate2 < 8000 * price + 4000 * mark
    BY <2>1, <2>2, BuyPriceIs
  <2> HIDE DEF price, mark
  <2>5. ASSUME NEW bid \in book.bids PROVE 2 * price + mark >= 2 * bid
    BY <2>2, <2>3, <2>4
  <2>6. ASSUME NEW ask \in book.asks PROVE 1000 * (2 * price - mark) <= 2001 * ask
    BY <2>2, <2>3, <2>4
  <2> QED
    BY <2>5, <2>6 DEF BuyNearOffers, price, mark
<1> QED
  BY <1>1, AmountsInvariant, PTL

\* The least sum that the balance is compared with covers a buy order, up to the
\* rounding of its price and of its amount (bot.go:142, 286-287).
THEOREM BuySpendsMinSumHolds == Spec => []BuySpendsMinSum
<1>1. AmountsInv => BuySpendsMinSum
  <2> SUFFICES ASSUME AmountsInv, Buying PROVE BuySpendsMinSum
    BY DEF BuySpendsMinSum
  <2> DEFINE rate2 == TwiceRate(book)
             x == 2001 * rate2
             price == order.price
             amount == order.amount
             mark == Grid(info.price)
             lot == Grid(info.base)
  <2>1. /\ book \in Books /\ book.asks # {} /\ book.bids # {}
        /\ price = BuyPrice(rate2, info.price) /\ info.price \in 0..Digits
        /\ amount = BuyAmount(rate2, info.base) /\ info.base \in 0..Digits
    BY DEF AmountsInv, BuyMade, Ordering, Buying, TypeOK
  <2>2. rate2 \in Nat \ {0}
    BY <2>1, TwiceRateIs
  <2>3. mark \in Nat \ {0} /\ lot \in Nat \ {0} /\ Least \in Nat
    BY <2>1, GridIsPositive, LeastIs
  <2> HIDE DEF rate2
  <2>4. /\ price \in Nat /\ 8000 * price <= 4002 * rate2 + 4000 * mark
        /\ 4002 * rate2 < 8000 * price + 4000 * mark
    BY <2>1, <2>2, BuyPriceIs
  <2>5. /\ amount \in Nat
        /\ 2 * x * amount <= 8000 * Least + x * lot
        /\ 8000 * Least < 2 * x * amount + x * lot
    BY <2>1, <2>2, BuyAmountIs
  <2>6. x \in Nat /\ 4000 * price <= x + 2000 * mark /\ x <= 4000 * price + 2000 * mark
    BY <2>2, <2>3, <2>4
  <2>7. x * amount \in Nat /\ x * lot \in Nat
    BY <2>3, <2>5, <2>6
  <2> HIDE DEF x, price, amount, mark, lot
  <2>8. /\ 4 * (price * amount - Least)
             <= 2 * lot * price + 2 * mark * amount + 3 * lot * mark
        /\ 4 * (Least - price * amount)
             <= 2 * lot * price + 2 * mark * amount + 3 * lot * mark
    <3>1. 2 * x * amount = 2 * (x * amount)
      BY <2>5, <2>6
    <3>2. 8000 * Least <= 2 * x * amount + x * lot
      BY <2>3, <2>5, <2>7, <3>1
    <3> QED
      BY <2>3, <2>4, <2>5, <2>6, <3>2, ProductNear
  <2>9. price * amount \in Nat /\ lot * price \in Nat /\ mark * amount \in Nat
        /\ lot * mark \in Nat
    BY <2>3, <2>4, <2>5
  <2>10. Sum(order) - MinSum * One * One = price * amount - Least
    BY DEF Sum, Least, price, amount
  <2> DEFINE slack == 2 * lot * price + 2 * mark * amount + 3 * lot * mark
             excess == price * amount - Least
  <2>11. slack \in Int /\ excess \in Int /\ Least - price * amount = -excess
    BY <2>3, <2>4, <2>5, <2>9
  <2>12. 4 * excess <= slack /\ 4 * (-excess) <= slack
    BY <2>8, <2>11
  <2>13. 4 * excess <= slack /\ -slack <= 4 * excess
    <3> HIDE DEF slack, excess
    <3> QED
      BY <2>11, <2>12
  <2> QED
    BY <2>10, <2>13 DEF BuySpendsMinSum, price, amount, mark, lot
<1> QED
  BY <1>1, AmountsInvariant, PTL

\* A sell order never offers more than there is, and leaves less than 0.1% and one
\* and a half lot steps (bot.go:166-168, 336; analytics.go:155-164).
THEOREM SellsAllButDustHolds == Spec => []SellsAllButDust
<1>1. AmountsInv => SellsAllButDust
  <2> SUFFICES ASSUME AmountsInv, Selling PROVE SellsAllButDust
    BY DEF SellsAllButDust
  <2> DEFINE sold == order.amount
             lot == Grid(info.base)
  <2>1. sold = SellAmount(base, info.base) /\ info.base \in 0..Digits /\ base \in Nat
    BY DEF AmountsInv, SellMade, Ordering, Selling, TypeOK
  <2>2. lot \in Nat \ {0}
    BY <2>1, GridIsPositive
  <2>3. sold \in Nat /\ sold <= base /\ 1998 * base <= 2000 * sold + 2998 * lot
    BY <2>1, SellAmountIs
  <2> HIDE DEF sold, lot
  <2>4. sold <= base /\ 2000 * (base - sold) <= 2 * base + 3000 * lot
    BY <2>1, <2>2, <2>3
  <2> QED
    BY <2>4 DEF SellsAllButDust, sold, lot
<1> QED
  BY <1>1, AmountsInvariant, PTL

\* The price of a sell order is not below the one that was paid, and above it
\* unless 0.3% are less than half of a price step (bot.go:326-334).
THEOREM SellsAboveBuyHolds == Spec => []SellsAboveBuy
<1>1. AmountsInv => SellsAboveBuy
  <2> SUFFICES ASSUME AmountsInv, Selling PROVE SellsAboveBuy
    BY DEF SellsAboveBuy
  <2> DEFINE price == order.price
             mark == Grid(info.price)
  <2>1. price = SellPrice(bought, info.price) /\ info.price \in 0..Digits /\ bought \in Nat
    BY DEF AmountsInv, SellMade, Ordering, Selling, TypeOK
  <2>2. PICK k \in Nat : bought = k * mark
    BY DEF AmountsInv, Bought, Ordering, Selling
  <2>3. mark \in Nat \ {0}
    BY <2>1, GridIsPositive
  <2>4. /\ price \in Nat /\ 2006 * bought < 2000 * price + 1000 * mark
        /\ \E j \in Nat : price = j * mark
    BY <2>1, SellPriceIs
  <2>5. PICK j \in Nat : price = j * mark
    BY <2>4
  <2> HIDE DEF price, mark
  <2>6. price >= bought
    <3>1. price < bought => price + mark <= bought
      BY <2>2, <2>3, <2>5, MultiplesApart
    <3> QED
      BY <2>1, <2>3, <2>4, <3>1
  <2>7. 3 * bought >= 500 * mark => price > bought
    BY <2>1, <2>3, <2>4, <2>6
  <2> QED
    BY <2>6, <2>7 DEF SellsAboveBuy, price, mark
<1> QED
  BY <1>1, AmountsInvariant, PTL

\* Orders fit filters whose sizes are powers of ten, or half of one
\* (exchange.go:45-52, api.go:369-386).
THEOREM OrdersFitFiltersHolds == Spec => []OrdersFitFilters
<1>1. AmountsInv => OrdersFitFilters
  <2> SUFFICES ASSUME AmountsInv, Buying \/ Selling PROVE OrdersFitFilters
    BY DEF OrdersFitFilters
  <2>1. /\ tick \in Nat \ {0} /\ step \in Nat \ {0}
        /\ info.price = GetPrecision(tick) /\ info.base = GetPrecision(step)
        /\ info.price \in 0..Digits /\ info.base \in 0..Digits
        /\ base \in Nat /\ bought \in Nat
        /\ order.price \in Nat /\ order.amount \in Nat
    BY AmountsAssumption DEF AmountsInv, FiltersKnown, Buying, Selling, TypeOK, Order
  <2>2. /\ \E k \in Nat : order.price = k * Grid(info.price)
        /\ \E k \in Nat : order.amount = k * Grid(info.base)
    <3>1. CASE Buying
      <4>1. /\ book \in Books /\ book.asks # {} /\ book.bids # {}
            /\ order.price = BuyPrice(TwiceRate(book), info.price)
            /\ order.amount = BuyAmount(TwiceRate(book), info.base)
        BY <3>1 DEF AmountsInv, BuyMade, Ordering, Buying
      <4>2. TwiceRate(book) \in Nat \ {0}
        BY <4>1, TwiceRateIs
      <4> DEFINE priceDecimals == info.price
                 baseDecimals == info.base
      <4>a. priceDecimals \in 0..Digits /\ baseDecimals \in 0..Digits
        BY <2>1
      <4> HIDE DEF priceDecimals, baseDecimals
      <4>3. \E k \in Nat : BuyPrice(TwiceRate(book), priceDecimals) = k * Grid(priceDecimals)
        BY <4>a, <4>2, BuyPriceIs
      <4>4. \E k \in Nat : BuyAmount(TwiceRate(book), baseDecimals) = k * Grid(baseDecimals)
        BY <4>a, <4>2, BuyAmountIs
      <4> QED
        BY <4>1, <4>3, <4>4, Zenon DEF priceDecimals, baseDecimals
    <3>2. CASE Selling
      <4>1. /\ order.price = SellPrice(bought, info.price)
            /\ order.amount = SellAmount(base, info.base)
        BY <3>2 DEF AmountsInv, SellMade, Ordering, Selling
      <4>2. \E k \in Nat : SellPrice(bought, info.price) = k * Grid(info.price)
        BY <2>1, SellPriceIs
      <4>3. \E k \in Nat : SellAmount(base, info.base) = k * Grid(info.base)
        BY <2>1, SellAmountIs
      <4> QED
        BY <4>1, <4>2, <4>3, Zenon
    <3> QED
      BY <3>1, <3>2
  <2>3. Handy(tick) => order.price % tick = 0
    BY <2>1, <2>2, GridFits
  <2>4. Handy(step) => order.amount % step = 0
    BY <2>1, <2>2, GridFits
  <2> QED
    BY <2>3, <2>4 DEF OrdersFitFilters
<1> QED
  BY <1>1, AmountsInvariant, PTL

-----------------------------------------------------------------------------
(* What a trade brings.                                                    *)

\* Of at least four lots bought, so many are sold that a price 0.25% higher makes
\* up for the fees of both orders.
LEMMA EnoughIsSold ==
  ASSUME NEW amount \in Nat, NEW there \in Nat, NEW n \in 0..Digits,
         \E k \in Nat : amount = k * Grid(n),
         amount >= 4 * Grid(n), amount <= there + amount \div 1000
  PROVE  2000 * amount <= 2995 * SellAmount(there, n)
<1> DEFINE lot == Grid(n)
           sold == SellAmount(there, n)
           whole == RoundDown(there, n)
           fee == amount \div 1000
<1>1. lot \in Nat \ {0}
  BY GridIsPositive
<1>2. PICK k \in Nat : amount = k * lot
  OBVIOUS
<1>3. fee \in Nat /\ 1000 * fee <= amount
  BY Quotient
<1>4. /\ sold \in Nat /\ 1998 * there <= 2000 * sold + 2998 * lot
      /\ 1998 * whole < 2000 * sold + 1000 * lot /\ \E j \in Nat : sold = j * lot
  BY SellAmountIs
<1>5. whole \in Nat /\ there < whole + lot /\ \E i \in Nat : whole = i * lot
  BY RoundDownIs
<1>6. amount >= 4 * lot /\ amount <= there + fee
  OBVIOUS
<1> HIDE DEF lot, sold, whole, fee
<1>7. CASE amount = 4 * lot
  <2>1. PICK i \in Nat : whole = i * lot
    BY <1>5
  <2>2. whole >= 3 * lot
    <3>1. whole < 3 * lot => whole + lot <= 3 * lot
      BY <1>1, <2>1, MultiplesApart
    <3> QED
      BY <1>1, <1>3, <1>5, <1>6, <1>7, <3>1
  <2>3. PICK j \in Nat : sold = j * lot
    BY <1>4
  <2>4. sold >= 3 * lot
    <3>1. sold < 3 * lot => sold + lot <= 3 * lot
      BY <1>1, <2>3, MultiplesApart
    <3> QED
      BY <1>1, <1>4, <1>5, <2>2, <3>1
  <2> QED
    BY <1>1, <1>4, <1>7, <2>4 DEF sold
<1>8. CASE amount > 4 * lot
  <2>1. amount >= 5 * lot
    <3>1. 4 * lot + lot <= amount
      BY <1>1, <1>2, <1>8, MultiplesApart
    <3> QED
      BY <1>1, <3>1
  <2> QED
    BY <1>1, <1>3, <1>4, <1>6, <2>1 DEF sold
<1>9. amount = 4 * lot \/ amount > 4 * lot
  BY <1>1, <1>6
<1> QED
  BY <1>7, <1>8, <1>9

\* What is bought at one price and sold at a price 0.25% higher.
LEMMA TradeGains ==
  ASSUME NEW paid \in Nat, NEW price \in Nat, NEW amount \in Nat, NEW sold \in Nat,
         NEW buyFee \in Nat, NEW sellFee \in Nat,
         2005 * paid <= 2000 * price, 2000 * amount <= 2995 * sold,
         1000 * buyFee <= amount, 1000 * sellFee <= price * sold
  PROVE  paid * sold + paid * buyFee <= price * sold - sellFee
<1> DEFINE ps == price * sold  bs == paid * sold  bf == paid * buyFee  ba == paid * amount
<1>1. ps \in Nat /\ bs \in Nat /\ bf \in Nat /\ ba \in Nat
  OBVIOUS
<1>2. 2005 * bs <= 2000 * ps
  <2>1. (2005 * paid) * sold <= (2000 * price) * sold
    BY TimesMonotone
  <2> QED
    BY <2>1
<1>3. 2000 * ba <= 2995 * bs
  <2>1. (2000 * amount) * paid <= (2995 * sold) * paid
    BY TimesMonotone
  <2> QED
    BY <2>1
<1>4. 1000 * bf <= ba
  <2>1. (1000 * buyFee) * paid <= amount * paid
    BY TimesMonotone
  <2> QED
    BY <2>1
<1>5. 1000 * sellFee <= ps
  OBVIOUS
<1> HIDE DEF ps, bs, bf, ba
<1>6. bs + bf <= ps - sellFee
  BY <1>1, <1>2, <1>3, <1>4, <1>5
<1> QED
  BY <1>6 DEF ps, bs, bf

\* A trade of at least four lot steps, at a price of at least 1000 price steps,
\* leaves an account that is worth no less than before it, fees included
\* (bot.go:273-290, 326-339).
THEOREM TradesGainHolds == Spec => TradesGain
<1>1. AmountsInv /\ SellFinished /\ Sizeable
        => quote' + bought * base' >= opened.quote + bought * opened.base
  <2> SUFFICES ASSUME AmountsInv, SellFinished, Sizeable
               PROVE  quote' + bought * base' >= opened.quote + bought * opened.base
    OBVIOUS
  <2> DEFINE mark == Grid(info.price)
             lot == Grid(info.base)
             price == order.price
             sold == order.amount
  <2>1. /\ info.price \in 0..Digits /\ info.base \in 0..Digits
        /\ quote \in Nat /\ base \in Nat /\ bought \in Nat
        /\ opened.quote \in Nat /\ opened.base \in Nat
        /\ price \in Nat /\ sold \in Nat
    BY DEF AmountsInv, TypeOK, Order
  <2>2. /\ price = SellPrice(bought, info.price)
        /\ sold = SellAmount(base, info.base) /\ sold <= base
    BY DEF AmountsInv, SellMade, OrderTaken, Covered, Ordering, SellFinished
  <2>3. mark \in Nat \ {0} /\ lot \in Nat \ {0}
    BY <2>1, GridIsPositive
  <2>4. PICK k \in Nat : /\ opened.quote = quote + bought * (k * lot)
                         /\ opened.base + k * lot <= base + (k * lot) \div 1000
    BY DEF AmountsInv, Bought, Ordering, SellFinished
  <2> DEFINE amount == k * lot
             buyFee == amount \div 1000
  <2>5. amount \in Nat /\ buyFee \in Nat /\ 1000 * buyFee <= amount
    <3>1. amount \in Nat
      BY <2>3
    <3> QED
      BY <3>1, Quotient
  <2>6. bought >= 1000 * mark /\ opened.quote - quote >= 4 * bought * lot
    BY DEF Sizeable
  <2>7. PICK sellFee \in Fees(Sum(order)) : quote' = (quote + Sum(order)) - sellFee
    BY DEF SellFinished
  <2>8. base' = base - sold /\ Sum(order) = price * sold
    BY DEF SellFinished, Sum
  <2>9. sellFee \in Nat /\ 1000 * sellFee <= price * sold
    <3>1. price * sold \in Nat
      BY <2>1
    <3>2. (price * sold) \div 1000 \in Nat /\ 1000 * ((price * sold) \div 1000) <= price * sold
      BY <3>1, Quotient
    <3> QED
      BY <2>8, <3>1, <3>2 DEF Fees
  <2>10. \E i \in Nat : amount = i * lot
    OBVIOUS
  <2>11. 2005 * bought <= 2000 * price
    <3>1. 2006 * bought < 2000 * price + 1000 * mark
      <4> DEFINE decimals == info.price
      <4>1. decimals \in 0..Digits /\ bought \in Nat
        BY <2>1
      <4> HIDE DEF decimals
      <4>2. 2006 * bought < 2000 * SellPrice(bought, decimals) + 1000 * Grid(decimals)
        BY <4>1, SellPriceIs
      <4> QED
        BY <2>2, <4>2 DEF decimals
    <3> HIDE DEF mark, price
    <3> QED
      BY <2>1, <2>3, <2>6, <3>1
  <2> HIDE DEF amount
  <2>12. amount >= 4 * lot
    <3>1. bought * amount >= 4 * bought * lot
      BY <2>1, <2>4, <2>5, <2>6 DEF amount
    <3>2. bought > 0
      BY <2>1, <2>3, <2>6
    <3>3. amount < 4 * lot => (amount + 1) * bought <= (4 * lot) * bought
      BY <2>1, <2>3, <2>5, TimesMonotone
    <3> HIDE DEF lot
    <3> QED
      BY <2>1, <2>3, <2>5, <3>1, <3>2, <3>3
  <2>13. opened.base + amount <= base + buyFee /\ amount <= base + buyFee
    BY <2>1, <2>4, <2>5 DEF amount
  <2>14. 2000 * amount <= 2995 * sold
    BY <2>1, <2>2, <2>5, <2>10, <2>12, <2>13, EnoughIsSold
  <2> HIDE DEF buyFee, price, sold
  <2>15. bought * sold + bought * buyFee <= price * sold - sellFee
    BY <2>1, <2>5, <2>9, <2>11, <2>14, TradeGains
  <2> DEFINE bs == bought * sold  bf == bought * buyFee  ba == bought * amount
             bl == bought * opened.base  bb == bought * base  ps == price * sold
  <2>16. /\ bs \in Nat /\ bf \in Nat /\ ba \in Nat /\ bl \in Nat /\ bb \in Nat
         /\ ps \in Nat
    BY <2>1, <2>5
  <2>17. bl + ba <= bb + bf
    <3>1. (opened.base + amount) * bought <= (base + buyFee) * bought
      BY <2>1, <2>5, <2>13, TimesMonotone
    <3> QED
      BY <2>1, <2>5, <3>1
  <2>18. bought * base' = bb - bs
    BY <2>1, <2>8
  <2>19. quote' = (quote + ps) - sellFee /\ opened.quote = quote + ba /\ bs + bf <= ps - sellFee
    <3>1. quote' = (quote + ps) - sellFee
      BY <2>7, <2>8, Zenon
    <3>2. opened.quote = quote + ba
      BY <2>4 DEF amount
    <3>3. bs + bf <= ps - sellFee
      BY <2>15
    <3> QED
      BY <3>1, <3>2, <3>3
  <2> HIDE DEF bs, bf, ba, bb, ps
  <2> QED
    <3> DEFINE worth == bought * base'
    <3>1. worth = bb - bs
      BY <2>18
    <3>2. bl = bought * opened.base
      OBVIOUS
    <3> HIDE DEF worth, bl
    <3>3. quote' + worth >= opened.quote + bl
      BY <2>1, <2>9, <2>16, <2>17, <2>19, <3>1
    <3> QED
      BY <3>2, <3>3 DEF worth
<1>2. AmountsInv /\ [Next]_vars
        => [SellFinished /\ Sizeable
              => quote' + bought * base' >= opened.quote + bought * opened.base]_vars
  BY <1>1
<1> QED
  BY <1>2, AmountsInvariant, PTL DEF Spec, TradesGain
=============================================================================
