------------------------ MODULE SimulationEngineProofs ------------------------
(***************************************************************************)
(* What one fill does to the account and to its order, and what follows    *)
(* for every run of SimulationEngine: whatever the prices, the rates, the  *)
(* fill models and the orders.                                             *)
(*                                                                         *)
(* The invariants of the runs speak of all orders at once; here each is a  *)
(* predicate of one order (Sound), which a fill, a cancellation and a new  *)
(* order keep.  The strengthening adds that what a round over the resting  *)
(* orders has still to visit does rest (Visiting).  For money and holdings *)
(* the lemmas on Total say what one changed addend does to a sum.          *)
(***************************************************************************)
EXTENDS SimulationEngine, TLAPS, SequenceTheorems, FiniteSetTheorems

(* Integer arithmetic *)

\* The nearest whole quotient is at most half a divisor off.
LEMMA NearestIs ==
    ASSUME NEW a \in Nat, NEW b \in Nat \ {0}
    PROVE  /\ Nearest(a, b) \in Nat /\ b * Nearest(a, b) \in Nat
           /\ 2 * (b * Nearest(a, b)) - b <= 2 * a
           /\ 2 * a <= 2 * (b * Nearest(a, b)) + b
<1> DEFINE down == a \div b
           rest == a % b
<1>1. down \in Nat /\ rest \in 0..(b - 1) /\ a = b * down + rest
  OBVIOUS
<1>2. Nearest(a, b) = IF 2 * rest > b \/ (2 * rest = b /\ down % 2 = 1) THEN down + 1 ELSE down
  BY DEF Nearest
<1> HIDE DEF down, rest
<1>3. b * (down + 1) = b * down + b /\ b * down \in Nat
  BY <1>1
<1>4. CASE Nearest(a, b) = down + 1 /\ 2 * rest >= b
  <2> DEFINE product == b * down
  <2> HIDE DEF product
  <2>1. product \in Nat /\ a = product + rest /\ b * (down + 1) = product + b
    BY <1>1, <1>3 DEF product
  <2>2. b * Nearest(a, b) = product + b /\ Nearest(a, b) \in Nat
    BY <1>1, <1>4, <2>1
  <2>3. QED
    BY <1>1, <1>4, <2>1, <2>2
<1>5. CASE Nearest(a, b) = down /\ 2 * rest <= b
  <2> DEFINE product == b * down
  <2> HIDE DEF product
  <2>1. product \in Nat /\ a = product + rest
    BY <1>1, <1>3 DEF product
  <2>2. b * Nearest(a, b) = product /\ Nearest(a, b) \in Nat
    BY <1>1, <1>5 DEF product
  <2>3. QED
    BY <1>1, <1>5, <2>1, <2>2
<1>6. QED
  BY <1>1, <1>2, <1>4, <1>5

LEMMA ProductStep ==
    ASSUME NEW b \in Nat, NEW low \in Nat, NEW high \in Nat, low < high
    PROVE  b * low \in Nat /\ b * high \in Nat /\ b * low + b <= b * high
<1>1. b * (high - low - 1) \in Nat
  OBVIOUS
<1>2. b * (high - low - 1) = b * high - b * low - b
  OBVIOUS
<1>3. b * low \in Nat /\ b * high \in Nat
  OBVIOUS
<1>4. QED
  BY <1>1, <1>2, <1>3

\* Rounding keeps the order of the dividends.
LEMMA NearestMonotone ==
    ASSUME NEW low \in Nat, NEW high \in Nat, low <= high, NEW b \in Nat \ {0}
    PROVE  Nearest(low, b) <= Nearest(high, b)
<1> DEFINE r == Nearest(low, b)
           s == Nearest(high, b)
<1>1. /\ r \in Nat /\ b * r \in Nat /\ 2 * (b * r) - b <= 2 * low
      /\ s \in Nat /\ b * s \in Nat /\ 2 * high <= 2 * (b * s) + b
  BY NearestIs
<1>2. SUFFICES ASSUME s < r PROVE FALSE
  BY <1>1
<1>3. low # high
  BY <1>1, <1>2
<1> HIDE DEF r, s
<1>4. b * s + b <= b * r
  BY <1>1, <1>2, ProductStep
<1> DEFINE x == b * r
           y == b * s
<1>5. x \in Nat /\ y \in Nat /\ 2 * x - b <= 2 * low /\ 2 * high <= 2 * y + b /\ y + b <= x
  BY <1>1, <1>4
<1> HIDE DEF x, y
<1>6. QED
  BY <1>3, <1>5

\* A part of a whole number, given as a ratio of at most one, is at most it.
LEMMA PartBound ==
    ASSUME NEW amount \in Nat, NEW whole \in Nat \ {0}, NEW part \in 0..whole
    PROVE  Nearest(amount * part, whole) \in 0..amount
<1> DEFINE product == amount * part
           r == Nearest(product, whole)
<1>1. product \in Nat /\ product <= whole * amount
  <2>1. amount * (whole - part) \in Nat
    OBVIOUS
  <2>2. amount * (whole - part) = whole * amount - amount * part
    OBVIOUS
  <2>3. QED
    BY <2>1, <2>2
<1> HIDE DEF product
<1>2. r \in Nat /\ whole * r \in Nat /\ 2 * (whole * r) - whole <= 2 * product
  BY <1>1, NearestIs
<1> HIDE DEF r
<1>3. SUFFICES ASSUME amount < r PROVE FALSE
  BY <1>2 DEF r, product
<1>4. whole * amount + whole <= whole * r /\ whole * amount \in Nat
  BY <1>2, <1>3, ProductStep
<1> DEFINE x == whole * r
           y == whole * amount
<1>5. x \in Nat /\ y \in Nat /\ product <= y /\ 2 * x - whole <= 2 * product /\ y + whole <= x
  BY <1>1, <1>2, <1>4
<1> HIDE DEF x, y
<1>6. QED
  BY <1>1, <1>5

\* All of it is all of it.
LEMMA NearestExact ==
    ASSUME NEW amount \in Nat, NEW whole \in Nat \ {0}
    PROVE  Nearest(amount * whole, whole) = amount
<1> DEFINE product == amount * whole
           r == Nearest(product, whole)
<1>1. product \in Nat /\ product = whole * amount
  OBVIOUS
<1>2. r \in 0..amount
  BY PartBound
<1> HIDE DEF product
<1>3. r \in Nat /\ 2 * product <= 2 * (whole * r) + whole
  BY <1>1, NearestIs
<1> HIDE DEF r
<1>4. SUFFICES ASSUME r < amount PROVE FALSE
  BY <1>2, <1>3 DEF r, product
<1>5. whole * r + whole <= whole * amount /\ whole * r \in Nat
  BY <1>3, <1>4, ProductStep
<1> DEFINE x == whole * r
<1>6. x \in Nat /\ x + whole <= product /\ 2 * product <= 2 * x + whole
  BY <1>1, <1>3, <1>5
<1> HIDE DEF x
<1>7. QED
  BY <1>1, <1>6

LEMMA ProductMonotone ==
    ASSUME NEW low \in Nat, NEW high \in Nat, low <= high, NEW price \in Nat
    PROVE  low * price \in Nat /\ high * price \in Nat /\ low * price <= high * price
<1>1. (high - low) * price \in Nat
  OBVIOUS
<1>2. (high - low) * price = high * price - low * price
  OBVIOUS
<1>3. QED
  BY <1>1, <1>2
LEMMA ProductOfSum ==
    ASSUME NEW price \in Nat, NEW one \in Nat, NEW other \in Nat
    PROVE  price * (one + other) = price * one + price * other
  OBVIOUS
--------------------------------------------------------------------------------
(* Fees and prices *)

LEMMA WorthType ==
    ASSUME NEW quantity \in Nat, NEW price \in Nat
    PROVE  Worth(quantity, price) \in Nat
<1>1. quantity * price \in Nat /\ Lot \in Nat \ {0}
  BY SimulationAssumption DEF SimulationAssumption
<1>2. QED
  BY <1>1, NearestIs DEF Worth

\* What more is worth is worth no less.
LEMMA WorthMonotone ==
    ASSUME NEW low \in Nat, NEW high \in Nat, low <= high, NEW price \in Nat
    PROVE  /\ Worth(low, price) \in Nat /\ Worth(high, price) \in Nat
           /\ Worth(low, price) <= Worth(high, price)
<1>1. Lot \in Nat \ {0}
  BY SimulationAssumption DEF SimulationAssumption
<1>2. low * price \in Nat /\ high * price \in Nat /\ low * price <= high * price
  BY ProductMonotone
<1> DEFINE x == low * price
           y == high * price
<1>3. x \in Nat /\ y \in Nat /\ x <= y
  BY <1>2
<1> HIDE DEF x, y
<1>4. Nearest(x, Lot) \in Nat /\ Nearest(y, Lot) \in Nat /\ Nearest(x, Lot) <= Nearest(y, Lot)
  BY <1>1, <1>3, NearestIs, NearestMonotone
<1>5. QED
  BY <1>4 DEF Worth, x, y

\* A fee is never more than what it is taken from, and grows with it.
LEMMA FeeBound ==
    ASSUME NEW gross \in Nat
    PROVE  Fee(gross) \in 0..gross
  BY PartBound, SimulationAssumption DEF Fee, SimulationAssumption

LEMMA FeeMonotone ==
    ASSUME NEW low \in Nat, NEW high \in Nat, low <= high
    PROVE  Fee(low) <= Fee(high)
<1>1. Whole \in Nat \ {0} /\ FeeRate \in Nat
  BY SimulationAssumption DEF SimulationAssumption
<1> DEFINE x == low * FeeRate
           y == high * FeeRate
<1>2. x \in Nat /\ y \in Nat /\ x <= y
  BY <1>1, ProductMonotone
<1> HIDE DEF x, y
<1>3. Nearest(x, Whole) <= Nearest(y, Whole)
  BY <1>1, <1>2, NearestMonotone
<1>4. QED
  BY <1>3 DEF Fee, x, y

\* Slippage never brings a price down to zero.
LEMMA PricePositive ==
    ASSUME NEW market \in Snapshots, NEW action \in {"Buy", "Sell"}
    PROVE  Price(action, market) \in Nat \ {0}
<1>1. /\ Slippage \in 0..(Whole - 1) /\ Whole \in Nat \ {0}
      /\ market.bid \in Nat \ {0} /\ market.ask \in Nat \ {0}
      /\ Whole < 2 * (market.bid * (Whole - Slippage))
  BY SimulationAssumption DEF SimulationAssumption
<1> DEFINE exact == Reference(action, market)
                      * (IF action = "Buy" THEN Whole + Slippage ELSE Whole - Slippage)
<1>2. exact \in Nat /\ Whole < 2 * exact
  <2>1. CASE action = "Buy"
    <3> DEFINE rate == Whole + Slippage
               above == market.ask
    <3>1. exact = above * rate /\ rate \in Nat /\ rate >= Whole /\ above \in Nat \ {0}
      BY <1>1, <2>1 DEF Reference
    <3> HIDE DEF rate, above, exact
    <3>2. 1 * rate <= above * rate /\ above * rate \in Nat
      BY <3>1, ProductMonotone
    <3>3. QED
      BY <1>1, <3>1, <3>2
  <2>2. CASE action # "Buy"
    <3>1. exact = market.bid * (Whole - Slippage)
      BY <2>2 DEF Reference
    <3>2. exact \in Nat
      <4> DEFINE rate == Whole - Slippage
      <4>1. rate \in Nat
        BY <1>1
      <4> HIDE DEF rate
      <4>2. market.bid * rate \in Nat
        BY <1>1, <4>1
      <4>3. QED
        BY <3>1, <4>2 DEF rate
    <3>3. QED
      BY <1>1, <3>1, <3>2
  <2>3. QED
    BY <2>1, <2>2
<1>3. Price(action, market) = Nearest(exact, Whole)
  BY DEF Price
<1> HIDE DEF exact
<1> DEFINE r == Nearest(exact, Whole)
<1>4. r \in Nat /\ Whole * r \in Nat /\ 2 * exact <= 2 * (Whole * r) + Whole
  BY <1>1, <1>2, NearestIs
<1> HIDE DEF r
<1>5. r # 0
  BY <1>1, <1>2, <1>4
<1>6. QED
  BY <1>3, <1>4, <1>5 DEF r
--------------------------------------------------------------------------------
(* What a fill does to the account *)

\* An account that can pay for, or deliver, the whole remainder can pay for, or
\* deliver, any part of it.
LEMMA PartIsPossible ==
    ASSUME NEW a \in Accounts, NEW order \in Orders, NEW price \in Nat \ {0},
           NEW remaining \in Nat, NEW quantity \in 1..remaining,
           EnsureFullFillPossible(a, order, remaining, price)
    PROVE  LET gross == Worth(quantity, price)
           IN  /\ gross \in Nat /\ Fee(gross) \in 0..gross
               /\ order.action = "Buy" => gross + Fee(gross) <= a.cash
               /\ order.action # "Buy" => quantity <= a.held[order.instrument]
<1> DEFINE gross == Worth(quantity, price)
           whole == Worth(remaining, price)
<1>1. a.cash \in Nat /\ a.held[order.instrument] \in Nat
  BY DEF Accounts, Orders
<1>2. gross \in Nat /\ whole \in Nat /\ gross <= whole
  <2>1. quantity \in Nat /\ quantity <= remaining /\ price \in Nat
    OBVIOUS
  <2>2. QED
    BY <2>1, WorthMonotone
<1>3. order.action = "Buy" => whole + Fee(whole) <= a.cash
  BY DEF EnsureFullFillPossible
<1>4. order.action # "Buy" => quantity <= a.held[order.instrument]
  BY <1>1 DEF EnsureFullFillPossible
<1> HIDE DEF gross, whole
<1>5. Fee(gross) \in 0..gross /\ Fee(whole) \in 0..whole /\ Fee(gross) <= Fee(whole)
  BY <1>2, FeeBound, FeeMonotone
<1>6. order.action = "Buy" => gross + Fee(gross) <= a.cash
  BY <1>1, <1>2, <1>3, <1>5
<1>7. QED
  BY <1>2, <1>4, <1>5, <1>6 DEF gross

\* The account after a fill, and that nothing in it is negative.
LEMMA FillKeepsAccount ==
    ASSUME NEW a \in Accounts, NEW order \in Orders, NEW price \in Nat \ {0},
           NEW remaining \in Nat, NEW quantity \in 1..remaining,
           EnsureFullFillPossible(a, order, remaining, price)
    PROVE  LET i == order.instrument
               gross == Worth(quantity, price)
               b == ApplyFill(a, order, quantity, price)
           IN  /\ b \in Accounts
               /\ \A j \in Instruments \ {i} :
                     b.held[j] = a.held[j] /\ b.average[j] = a.average[j]
               /\ order.action = "Buy" =>
                     /\ b.cash = a.cash - (gross + Fee(gross))
                     /\ b.realized = a.realized
                     /\ b.held[i] = a.held[i] + quantity
                     /\ b.average[i] = Nearest((Basis(a, i) + (gross + Fee(gross))) * Lot, b.held[i])
               /\ order.action # "Buy" =>
                     /\ b.cash = a.cash + (gross - Fee(gross))
                     /\ b.realized = a.realized + (gross - Fee(gross) - Worth(quantity, a.average[i]))
                     /\ b.held[i] = a.held[i] - quantity
                     /\ b.average[i] = IF a.held[i] = quantity THEN 0 ELSE a.average[i]
<1> DEFINE i == order.instrument
           gross == Worth(quantity, price)
           fee == Fee(gross)
           sold == Worth(quantity, a.average[i])
           b == ApplyFill(a, order, quantity, price)
<1>1. /\ i \in Instruments
      /\ a.cash \in Nat /\ a.realized \in Int /\ a.fees \in Nat
      /\ a.held \in [Instruments -> Nat] /\ a.average \in [Instruments -> Nat]
  BY DEF Accounts, Orders
<1>2. /\ gross \in Nat /\ fee \in 0..gross
      /\ order.action = "Buy" => gross + fee <= a.cash
      /\ order.action # "Buy" => quantity <= a.held[i]
  BY PartIsPossible
<1>3. Basis(a, i) \in Nat /\ sold \in Nat
  <2>1. a.held[i] \in Nat /\ a.average[i] \in Nat /\ quantity \in Nat
    BY <1>1
  <2>2. QED
    BY <2>1, WorthType DEF Basis
<1>4. CASE order.action = "Buy"
  <2> DEFINE average == Nearest((Basis(a, i) + (gross + fee)) * Lot, a.held[i] + quantity)
  <2>1. b = Traded(a, order, quantity, price, average, 0)
    BY <1>4 DEF ApplyFill
  <2>2. average \in Nat
    <3> DEFINE cost == (Basis(a, i) + (gross + fee)) * Lot
    <3>1. Lot \in Nat \ {0}
      BY SimulationAssumption DEF SimulationAssumption
    <3>2. Basis(a, i) + (gross + fee) \in Nat /\ a.held[i] + quantity \in Nat \ {0}
      BY <1>1, <1>2, <1>3
    <3>3. cost \in Nat
      <4> DEFINE spent == Basis(a, i) + (gross + fee)
      <4> HIDE DEF spent
      <4>1. spent * Lot \in Nat
        BY <3>1, <3>2 DEF spent
      <4>2. QED
        BY <4>1 DEF spent
    <3> HIDE DEF cost
    <3>4. Nearest(cost, a.held[i] + quantity) \in Nat
      BY <3>2, <3>3, NearestIs
    <3>5. QED
      BY <3>4 DEF cost
  <2> HIDE DEF average, b
  <2>3. b = [cash |-> a.cash - (gross + fee), realized |-> a.realized + 0, fees |-> a.fees + fee,
             held |-> [a.held EXCEPT ![i] = @ + quantity],
             average |-> [a.average EXCEPT ![i] = average]]
    BY <1>4, <2>1 DEF Traded
  <2> HIDE DEF gross, fee, i
  <2>4. /\ a.cash - (gross + fee) \in Nat /\ a.fees + fee \in Nat /\ a.realized + 0 = a.realized
        /\ a.held[i] + quantity \in Nat
    BY <1>1, <1>2, <1>4
  <2>5. /\ b \in Accounts
        /\ b.cash = a.cash - (gross + fee) /\ b.realized = a.realized
        /\ b.held[i] = a.held[i] + quantity /\ b.average[i] = average
        /\ \A j \in Instruments \ {i} : b.held[j] = a.held[j] /\ b.average[j] = a.average[j]
    BY <1>1, <2>2, <2>3, <2>4 DEF Accounts
  <2>6. QED
    BY <1>4, <2>5 DEF average, b, gross, fee, i
<1>5. CASE order.action # "Buy"
  <2> DEFINE average == IF a.held[i] = quantity THEN 0 ELSE a.average[i]
             gain == gross - fee - sold
  <2>1. b = Traded(a, order, quantity, price, average, gain)
    BY <1>5 DEF ApplyFill
  <2>2. average \in Nat
    BY <1>1
  <2> HIDE DEF average, b
  <2>3. b = [cash |-> a.cash + (gross - fee), realized |-> a.realized + gain, fees |-> a.fees + fee,
             held |-> [a.held EXCEPT ![i] = @ - quantity],
             average |-> [a.average EXCEPT ![i] = average]]
    BY <1>5, <2>1 DEF Traded
  <2> HIDE DEF gross, fee, i, sold
  <2>4. /\ a.cash + (gross - fee) \in Nat /\ a.fees + fee \in Nat
        /\ gain \in Int /\ a.realized + gain \in Int
        /\ a.held[i] - quantity \in Nat
    BY <1>1, <1>2, <1>3, <1>5
  <2> HIDE DEF gain
  <2>5. /\ b \in Accounts
        /\ b.cash = a.cash + (gross - fee) /\ b.realized = a.realized + gain
        /\ b.held[i] = a.held[i] - quantity /\ b.average[i] = average
        /\ \A j \in Instruments \ {i} : b.held[j] = a.held[j] /\ b.average[j] = a.average[j]
    BY <1>1, <2>2, <2>3, <2>4 DEF Accounts
  <2>6. QED
    BY <1>5, <2>5 DEF average, gain, b, gross, fee, i, sold
<1>6. QED
  BY <1>4, <1>5

\* Rounding two parts on their own is at most one off rounding their sum.
LEMMA NearestOfSum ==
    ASSUME NEW x \in Nat, NEW y \in Nat, NEW b \in Nat \ {0}
    PROVE  Nearest(x, b) + Nearest(y, b) - Nearest(x + y, b) \in -1..1
<1> DEFINE r == Nearest(x, b)
           s == Nearest(y, b)
           t == Nearest(x + y, b)
<1>1. /\ r \in Nat /\ 2 * (b * r) - b <= 2 * x /\ 2 * x <= 2 * (b * r) + b
      /\ s \in Nat /\ 2 * (b * s) - b <= 2 * y /\ 2 * y <= 2 * (b * s) + b
      /\ t \in Nat /\ 2 * (b * t) - b <= 2 * (x + y) /\ 2 * (x + y) <= 2 * (b * t) + b
  <2>1. x + y \in Nat
    OBVIOUS
  <2>2. QED
    BY <2>1, NearestIs
<1> HIDE DEF r, s, t
<1>2. /\ b * r \in Nat /\ b * s \in Nat /\ b * t \in Nat
      /\ b * (r + s) = b * r + b * s
  BY <1>1
<1> DEFINE br == b * r
           bs == b * s
           bt == b * t
<1>3. /\ br \in Nat /\ bs \in Nat /\ bt \in Nat
      /\ 2 * (br + bs - bt) <= 3 * b /\ 2 * (bt - br - bs) <= 3 * b
  <2>1. br \in Nat /\ bs \in Nat /\ bt \in Nat
    BY <1>2
  <2>2. /\ 2 * br - b <= 2 * x /\ 2 * x <= 2 * br + b
        /\ 2 * bs - b <= 2 * y /\ 2 * y <= 2 * bs + b
        /\ 2 * bt - b <= 2 * (x + y) /\ 2 * (x + y) <= 2 * bt + b
    BY <1>1
  <2> HIDE DEF br, bs, bt
  <2>3. QED
    BY <2>1, <2>2
<1>4. r + s <= t + 1
  <2>1. SUFFICES ASSUME t + 1 < r + s PROVE FALSE
    BY <1>1
  <2>2. b * (t + 1) + b <= b * (r + s)
    BY <1>1, <2>1, ProductStep
  <2>3. b * (t + 1) = bt + b
    BY <1>1
  <2>4. bt + b + b <= br + bs
    BY <1>2, <2>2, <2>3
  <2> HIDE DEF br, bs, bt
  <2>5. QED
    BY <1>3, <2>4
<1>5. t <= r + s + 1
  <2>1. SUFFICES ASSUME r + s + 1 < t PROVE FALSE
    BY <1>1
  <2>2. b * (r + s + 1) + b <= b * t
    BY <1>1, <2>1, ProductStep
  <2>3. b * (r + s + 1) = br + bs + b
    BY <1>1
  <2>4. br + bs + b + b <= bt
    BY <2>2, <2>3
  <2> HIDE DEF br, bs, bt
  <2>5. QED
    BY <1>3, <2>4
<1>6. r \in Nat /\ s \in Nat /\ t \in Nat
  BY <1>1
<1>7. r + s - t \in -1..1
  BY <1>4, <1>5, <1>6
<1>8. QED
  BY <1>7 DEF r, s, t

\* An average of a cost, times the quantity again: at most half a unit of price for
\* each part of the quantity and half a unit of money away from the cost.
LEMMA AverageOfCost ==
    ASSUME NEW cost \in Nat, NEW held \in Nat \ {0}
    PROVE  LET drift == Worth(held, Nearest(cost * Lot, held)) - cost
           IN  /\ Worth(held, Nearest(cost * Lot, held)) \in Nat
               /\ 2 * (Lot * drift) \in -(held + Lot)..(held + Lot)
<1> DEFINE average == Nearest(cost * Lot, held)
           worth == Worth(held, average)
<1>1. Lot \in Nat \ {0}
  BY SimulationAssumption DEF SimulationAssumption
<1>2. cost * Lot \in Nat
  BY <1>1
<1>3. /\ average \in Nat
      /\ 2 * (held * average) - held <= 2 * (cost * Lot)
      /\ 2 * (cost * Lot) <= 2 * (held * average) + held
  <2> DEFINE product == cost * Lot
  <2> HIDE DEF product
  <2>1. /\ Nearest(product, held) \in Nat
        /\ 2 * (held * Nearest(product, held)) - held <= 2 * product
        /\ 2 * product <= 2 * (held * Nearest(product, held)) + held
    BY <1>2, NearestIs DEF product
  <2>2. QED
    BY <2>1 DEF product
<1> HIDE DEF average
<1>4. held * average \in Nat
  BY <1>3
<1>5. /\ worth \in Nat
      /\ 2 * (Lot * worth) - Lot <= 2 * (held * average)
      /\ 2 * (held * average) <= 2 * (Lot * worth) + Lot
  BY <1>1, <1>4, NearestIs DEF Worth
<1> HIDE DEF worth
<1>6. Lot * (worth - cost) = Lot * worth - cost * Lot /\ Lot * worth \in Nat
  BY <1>1, <1>5
<1> DEFINE product == cost * Lot
           value == held * average
           whole == Lot * worth
<1>7. /\ product \in Nat /\ value \in Nat /\ whole \in Nat
      /\ 2 * value - held <= 2 * product /\ 2 * product <= 2 * value + held
      /\ 2 * whole - Lot <= 2 * value /\ 2 * value <= 2 * whole + Lot
      /\ Lot * (worth - cost) = whole - product
  BY <1>2, <1>3, <1>4, <1>5, <1>6
<1> HIDE DEF product, value, whole
<1>8. 2 * (Lot * (worth - cost)) \in -(held + Lot)..(held + Lot)
  BY <1>1, <1>7
<1>9. QED
  BY <1>5, <1>8 DEF worth, average

\* What one fill does to the money of its instrument: a purchase moves it by what
\* dividing the cost and multiplying the average back rounds away, a sale of a part
\* by the rounding of the parts, a sale of all not at all; and no other position is
\* touched (SimulatedAccount::apply_fill).
THEOREM FillMovesMoneyByRounding ==
    ASSUME NEW a \in Accounts, NEW order \in Orders, NEW price \in Nat \ {0},
           NEW remaining \in Nat, NEW quantity \in 1..remaining,
           EnsureFullFillPossible(a, order, remaining, price)
    PROVE  LET b == ApplyFill(a, order, quantity, price)
               i == order.instrument
               drift == (b.cash + Basis(b, i) - b.realized) - (a.cash + Basis(a, i) - a.realized)
           IN  /\ IF order.action = "Buy"
                  THEN /\ b.held[i] = a.held[i] + quantity
                       /\ 2 * (Lot * drift) \in -(b.held[i] + Lot)..(b.held[i] + Lot)
                  ELSE /\ b.held[i] = a.held[i] - quantity
                       /\ drift \in -1..1
                       /\ b.held[i] = 0 => drift = 0
               /\ \A j \in Instruments \ {i} :
                     b.held[j] = a.held[j] /\ Basis(b, j) = Basis(a, j)
<1> DEFINE i == order.instrument
           gross == Worth(quantity, price)
           b == ApplyFill(a, order, quantity, price)
           had == a.held[i]
           average == a.average[i]
           drift == (b.cash + Basis(b, i) - b.realized) - (a.cash + Basis(a, i) - a.realized)
<1>1. /\ i \in Instruments /\ had \in Nat /\ average \in Nat
      /\ a.cash \in Nat /\ a.realized \in Int
  BY DEF Accounts, Orders
<1>2. /\ gross \in Nat /\ Fee(gross) \in 0..gross
      /\ order.action # "Buy" => quantity <= had
  BY PartIsPossible
<1>3. /\ \A j \in Instruments \ {i} : b.held[j] = a.held[j] /\ b.average[j] = a.average[j]
      /\ order.action = "Buy" =>
            /\ b.cash = a.cash - (gross + Fee(gross))
            /\ b.realized = a.realized
            /\ b.held[i] = had + quantity
            /\ b.average[i] = Nearest((Basis(a, i) + (gross + Fee(gross))) * Lot, b.held[i])
      /\ order.action # "Buy" =>
            /\ b.cash = a.cash + (gross - Fee(gross))
            /\ b.realized = a.realized + (gross - Fee(gross) - Worth(quantity, average))
            /\ b.held[i] = had - quantity
            /\ b.average[i] = IF had = quantity THEN 0 ELSE average
  BY FillKeepsAccount
<1> HIDE DEF b, gross
<1>4. Basis(a, i) = Worth(had, average) /\ Basis(a, i) \in Nat
  BY <1>1, WorthType DEF Basis
<1>5. Basis(b, i) = Worth(b.held[i], b.average[i])
  BY DEF Basis
<1>6. \A j \in Instruments \ {i} : b.held[j] = a.held[j] /\ Basis(b, j) = Basis(a, j)
  BY <1>3 DEF Basis
<1> HIDE DEF had, average, i
<1>7. CASE order.action = "Buy"
  <2> DEFINE cost == Basis(a, i) + (gross + Fee(gross))
             held == b.held[i]
  <2>1. cost \in Nat /\ held \in Nat \ {0}
    BY <1>1, <1>2, <1>3, <1>4, <1>7
  <2>2. Basis(b, i) = Worth(held, Nearest(cost * Lot, held))
    BY <1>3, <1>5, <1>7
  <2> HIDE DEF held
  <2>3. /\ Basis(b, i) \in Nat
        /\ 2 * (Lot * (Basis(b, i) - cost)) \in -(held + Lot)..(held + Lot)
    <3> HIDE DEF cost
    <3>1. QED
      BY <2>1, <2>2, AverageOfCost
  <2>4. Basis(b, i) \in Int
    BY <2>3
  <2>5. drift = Basis(b, i) - cost
    BY <1>1, <1>2, <1>3, <1>4, <1>7, <2>4
  <2> HIDE DEF drift, cost
  <2>6. b.held[i] = had + quantity
    BY <1>3, <1>7
  <2>7. 2 * (Lot * drift) \in -(held + Lot)..(held + Lot)
    BY <2>3, <2>5
  <2>8. QED
    BY <1>6, <1>7, <2>6, <2>7 DEF drift, held, b, had, i
<1>8. CASE order.action # "Buy"
  <2> DEFINE sold == Worth(quantity, average)
             left == Basis(b, i)
             all == Basis(a, i)
  <2>1. Lot \in Nat \ {0}
    BY SimulationAssumption DEF SimulationAssumption
  <2>2. sold \in Nat
    <3>1. quantity \in Nat /\ average \in Nat
      BY <1>1
    <3>2. QED
      BY <3>1, WorthType
  <2>3. CASE had = quantity
    <3>1. b.held[i] = 0 /\ b.average[i] = 0
      BY <1>1, <1>3, <1>8, <2>3
    <3>2. left = Nearest(0 * Lot, Lot)
      BY <1>5, <2>1, <3>1 DEF Worth
    <3>3. left = 0
      BY <2>1, <3>2, NearestExact
    <3>4. sold = all
      BY <1>4, <2>3
    <3>5. drift = left - all + sold
      <4> HIDE DEF sold
      <4>1. QED
        BY <1>1, <1>2, <1>3, <1>4, <1>8, <2>2, <3>3 DEF sold
    <3>6. drift = 0
      <4> HIDE DEF drift, sold, left
      <4>1. QED
        BY <1>4, <3>3, <3>4, <3>5
    <3>7. QED
      BY <1>3, <1>6, <1>8, <3>6 DEF b, had, i
  <2>4. CASE had # quantity
    <3> DEFINE rest == had - quantity
    <3>1. rest \in Nat \ {0} /\ b.held[i] = rest /\ b.average[i] = average
      BY <1>1, <1>2, <1>3, <1>8, <2>4
    <3>2. /\ quantity * average \in Nat /\ rest * average \in Nat
          /\ had * average = quantity * average + rest * average
      BY <1>1, <3>1
    <3> DEFINE x == quantity * average
               y == rest * average
    <3>3. x \in Nat /\ y \in Nat /\ all = Nearest(x + y, Lot) /\ sold = Nearest(x, Lot)
          /\ left = Nearest(y, Lot)
      BY <1>4, <1>5, <3>1, <3>2 DEF Worth
    <3> HIDE DEF x, y, sold, left, all, rest
    <3>4. sold + left - all \in -1..1 /\ left \in Nat
      BY <2>1, <3>3, NearestOfSum, NearestIs
    <3>5. drift = left - all + sold
      BY <1>1, <1>2, <1>3, <1>4, <1>8, <2>2, <3>4 DEF sold, left, all
    <3>6. drift \in -1..1
      <4> HIDE DEF drift
      <4>1. all \in Nat
        BY <1>4 DEF all
      <4>2. QED
        BY <2>2, <3>4, <3>5, <4>1
    <3>7. b.held[i] = had - quantity /\ b.held[i] # 0
      BY <3>1 DEF rest
    <3> HIDE DEF drift
    <3>8. QED
      BY <1>6, <1>8, <3>6, <3>7 DEF drift, b, had, i
  <2>5. QED
    BY <2>3, <2>4
<1>9. QED
  BY <1>7, <1>8
--------------------------------------------------------------------------------
(* What a fill does to its order *)

AddsUp(order) ==
    /\ order.filled + order.remaining = order.requested
    /\ order.status = "Filled" => order.remaining = 0
    /\ order.requested > 0 /\ order.remaining = 0 => order.status = "Filled"
    /\ order.filled > 0 => order.status # "Pending"

KeepsLimit(order) ==
    order.limit > 0 =>
        IF order.action = "Buy" THEN order.traded <= order.limit * order.filled
        ELSE order.traded >= order.limit * order.filled

Sound(order) == order \in Orders /\ AddsUp(order) /\ KeepsLimit(order)

\* The same order, as far as it was requested.
SameRequest(order, other) ==
    /\ order.instrument = other.instrument
    /\ order.action = other.action
    /\ order.limit = other.limit

\* Sizing an open order at a price gives it a quantity and changes nothing else.
LEMMA SizedIsSound ==
    ASSUME NEW order, Sound(order), Open(order), NEW price \in Nat \ {0}
    PROVE  /\ Sound(Sized(order, price))
           /\ Open(Sized(order, price))
           /\ SameRequest(Sized(order, price), order)
<1>1. CASE order.requested > 0
  BY <1>1 DEF Sized, SameRequest
<1>2. CASE ~(order.requested > 0)
  <2> DEFINE quantity == Nearest(order.notional * Lot, price)
             sized == Sized(order, price)
  <2>1. order \in Orders /\ order.requested = 0 /\ order.filled = 0
    BY <1>2 DEF Sound, Orders, AddsUp
  <2>2. quantity \in Nat
    <3>1. order.notional * Lot \in Nat
      BY <2>1, SimulationAssumption DEF Orders, SimulationAssumption
    <3>2. QED
      BY <3>1, NearestIs
  <2>3. sized = [order EXCEPT !.requested = quantity, !.remaining = quantity]
    BY <1>2 DEF Sized
  <2> HIDE DEF quantity, sized
  <2>4. /\ sized \in Orders
        /\ sized.filled = 0 /\ sized.requested = quantity /\ sized.remaining = quantity
        /\ sized.status = order.status /\ sized.traded = order.traded
        /\ sized.instrument = order.instrument
        /\ sized.action = order.action
        /\ sized.limit = order.limit
    BY <2>1, <2>2, <2>3 DEF Orders
  <2>5. AddsUp(sized) /\ Open(sized)
    BY <2>1, <2>2, <2>4 DEF AddsUp, Open
  <2>6. KeepsLimit(sized)
    BY <2>1, <2>4 DEF Sound, KeepsLimit
  <2>7. QED
    BY <2>4, <2>5, <2>6 DEF Sound, SameRequest, sized
<1>3. QED
  BY <1>1, <1>2

\* An order that nothing remains of may be called filled.
LEMMA EndedIsSound ==
    ASSUME NEW order, Sound(order), Open(order), order.remaining = 0
    PROVE  LET ended == [order EXCEPT !.status = "Filled"]
           IN  Sound(ended) /\ SameRequest(ended, order) /\ ended.filled = order.filled
<1> DEFINE ended == [order EXCEPT !.status = "Filled"]
<1>1. order \in Orders /\ AddsUp(order) /\ KeepsLimit(order)
  BY DEF Sound
<1>2. /\ ended \in Orders
      /\ ended.status = "Filled" /\ ended.filled = order.filled
      /\ ended.remaining = order.remaining /\ ended.requested = order.requested
      /\ ended.traded = order.traded /\ ended.limit = order.limit
      /\ ended.action = order.action /\ ended.instrument = order.instrument
  BY <1>1 DEF Orders, Statuses
<1> HIDE DEF ended
<1>3. QED
  BY <1>1, <1>2 DEF Sound, AddsUp, KeepsLimit, SameRequest, ended

\* A fill within the limit, of no more than remains, leaves a sound order.
LEMMA FilledIsSound ==
    ASSUME NEW order, Sound(order), Open(order), NEW price \in Nat \ {0},
           NEW quantity \in 1..order.remaining,
           order.limit > 0 =>
               IF order.action = "Buy" THEN price <= order.limit ELSE price >= order.limit
    PROVE  /\ Sound(Filled(order, quantity, price))
           /\ SameRequest(Filled(order, quantity, price), order)
<1> DEFINE gross == quantity * price
           filled == Filled(order, quantity, price)
<1>1. /\ order \in Orders
      /\ order.filled \in Nat /\ order.remaining \in Nat /\ order.requested \in Nat
      /\ order.traded \in Nat /\ order.limit \in Nat /\ quantity \in Nat \ {0}
  BY DEF Sound, Orders
<1>2. gross \in Nat
  BY <1>1, ProductMonotone
<1>3. filled = [order EXCEPT !.filled = @ + quantity, !.remaining = @ - quantity,
                             !.traded = @ + gross,
                             !.status = IF order.remaining = quantity THEN "Filled"
                                        ELSE "PartiallyFilled"]
  BY DEF Filled
<1>4. KeepsLimit(order) /\ AddsUp(order)
  BY DEF Sound
<1>5. order.limit > 0 =>
          IF order.action = "Buy" THEN gross <= order.limit * quantity
          ELSE gross >= order.limit * quantity
  <2>1. gross = price * quantity
    BY <1>1
  <2>2. price <= order.limit => price * quantity <= order.limit * quantity
    BY <1>1, ProductMonotone
  <2>3. price >= order.limit => order.limit * quantity <= price * quantity
    BY <1>1, ProductMonotone
  <2>4. price * quantity \in Nat /\ order.limit * quantity \in Nat
    BY <1>1
  <2> HIDE DEF gross
  <2>5. QED
    BY <1>1, <2>1, <2>2, <2>3, <2>4
<1>6. order.limit * (order.filled + quantity) = order.limit * order.filled + order.limit * quantity
  <2>1. order.limit \in Nat /\ order.filled \in Nat /\ quantity \in Nat
    BY <1>1
  <2>2. QED
    BY <2>1, ProductOfSum, Zenon
<1> HIDE DEF gross, filled
<1>7. /\ filled \in Orders
      /\ filled.filled = order.filled + quantity
      /\ filled.remaining = order.remaining - quantity
      /\ filled.requested = order.requested
      /\ filled.traded = order.traded + gross
      /\ filled.instrument = order.instrument
      /\ filled.action = order.action
      /\ filled.limit = order.limit
      /\ filled.status = IF order.remaining = quantity THEN "Filled" ELSE "PartiallyFilled"
  <2> DEFINE status == IF order.remaining = quantity THEN "Filled" ELSE "PartiallyFilled"
  <2>1. order = [instrument |-> order.instrument, action |-> order.action,
                 notional |-> order.notional, limit |-> order.limit, status |-> order.status,
                 requested |-> order.requested, filled |-> order.filled,
                 remaining |-> order.remaining, traded |-> order.traded]
    BY <1>1 DEF Orders
  <2>2. /\ order.filled + quantity \in Nat
        /\ order.remaining - quantity \in Nat
        /\ order.traded + gross \in Nat
        /\ status \in Statuses
    BY <1>1, <1>2 DEF Statuses
  <2>3. filled = [order EXCEPT !.filled = @ + quantity, !.remaining = @ - quantity,
                               !.traded = @ + gross, !.status = status]
    BY <1>3
  <2> HIDE DEF status
  <2>4. filled = [instrument |-> order.instrument, action |-> order.action,
                  notional |-> order.notional, limit |-> order.limit, status |-> status,
                  requested |-> order.requested, filled |-> order.filled + quantity,
                  remaining |-> order.remaining - quantity, traded |-> order.traded + gross]
    BY <2>1, <2>3
  <2>5. QED
    BY <1>1, <2>2, <2>4 DEF Orders, status
<1>8. AddsUp(filled)
  BY <1>1, <1>4, <1>7 DEF AddsUp
<1>9. KeepsLimit(filled)
  <2>1. order.limit * order.filled \in Nat /\ order.limit * quantity \in Nat
    BY <1>1
  <2> DEFINE before == order.limit * order.filled
             now == order.limit * quantity
  <2>2. SUFFICES ASSUME order.limit > 0
                 PROVE  IF order.action = "Buy"
                        THEN order.traded + gross <= order.limit * (order.filled + quantity)
                        ELSE order.traded + gross >= order.limit * (order.filled + quantity)
    BY <1>7 DEF KeepsLimit
  <2>3. IF order.action = "Buy" THEN order.traded <= before ELSE order.traded >= before
    BY <1>4, <2>2 DEF KeepsLimit
  <2>4. IF order.action = "Buy" THEN gross <= now ELSE gross >= now
    BY <1>5, <2>2
  <2>5. order.limit * (order.filled + quantity) = before + now
    BY <1>6
  <2> HIDE DEF before, now
  <2>6. before \in Nat /\ now \in Nat
    BY <2>1 DEF before, now
  <2>7. QED
    BY <1>1, <1>2, <2>3, <2>4, <2>5, <2>6
<1>10. QED
  BY <1>7, <1>8, <1>9 DEF Sound, SameRequest, filled
--------------------------------------------------------------------------------
(* fill_order *)

LEMMA FillOrderIsSound ==
    ASSUME NEW a \in Accounts, NEW order, Sound(order), Open(order),
           NEW market \in Snapshots, NEW ratio \in 0..Whole, LimitIsFillable(order, market)
    PROVE  LET result == FillOrder(a, order, market, ratio)
           IN  /\ result.account \in Accounts
               /\ Sound(result.order)
               /\ SameRequest(result.order, order)
<1> DEFINE price == Price(order.action, market)
           sized == Sized(order, price)
           quantity == Nearest(sized.remaining * ratio, Whole)
           result == FillOrder(a, order, market, ratio)
<1>1. order \in Orders /\ order.action \in {"Buy", "Sell"}
  BY DEF Sound, Orders
<1>2. price \in Nat \ {0}
  BY <1>1, PricePositive
<1> HIDE DEF price
<1>3. Sound(sized) /\ Open(sized) /\ SameRequest(sized, order)
  BY <1>2, SizedIsSound
<1>4. Whole \in Nat \ {0}
  BY SimulationAssumption DEF SimulationAssumption
<1> HIDE DEF sized
<1>5. sized.remaining \in Nat /\ sized \in Orders
  BY <1>3 DEF Sound, Orders
<1>6. quantity \in 0..sized.remaining
  BY <1>4, <1>5, PartBound
<1> HIDE DEF quantity
<1>7. result = IF sized.remaining = 0 THEN Outcome(TRUE, a, [sized EXCEPT !.status = "Filled"])
               ELSE IF ~EnsureFullFillPossible(a, order, sized.remaining, price)
               THEN Outcome(FALSE, a, sized)
               ELSE IF ratio = 0 THEN Outcome(TRUE, a, sized)
               ELSE IF quantity = 0 THEN Outcome(FALSE, a, sized)
               ELSE Outcome(TRUE, ApplyFill(a, order, quantity, price),
                            Filled(sized, quantity, price))
  BY DEF FillOrder, price, sized, quantity
<1> HIDE DEF result
<1>8. CASE result.account = a /\ result.order = sized
  BY <1>3, <1>8 DEF result
<1>9. CASE /\ EnsureFullFillPossible(a, order, sized.remaining, price)
           /\ quantity \in 1..sized.remaining
           /\ result.account = ApplyFill(a, order, quantity, price)
           /\ result.order = Filled(sized, quantity, price)
  <2>1. ApplyFill(a, order, quantity, price) \in Accounts
    BY <1>1, <1>2, <1>5, <1>9, FillKeepsAccount
  <2>2. sized.limit > 0 =>
            IF sized.action = "Buy" THEN price <= sized.limit ELSE price >= sized.limit
    BY <1>1, <1>3 DEF LimitIsFillable, SameRequest, price
  <2>3. /\ Sound(Filled(sized, quantity, price))
        /\ SameRequest(Filled(sized, quantity, price), sized)
    BY <1>2, <1>3, <1>9, <2>2, FilledIsSound
  <2>4. QED
    BY <1>3, <1>9, <2>1, <2>3 DEF SameRequest, result
<1>10. CASE /\ sized.remaining = 0 /\ result.account = a
            /\ result.order = [sized EXCEPT !.status = "Filled"]
  BY <1>3, <1>10, EndedIsSound DEF SameRequest, result
<1>11. QED
  BY <1>5, <1>6, <1>7, <1>8, <1>9, <1>10 DEF Outcome

LEMMA NewOrderIsSound ==
    ASSUME NEW r \in [instrument : Instruments, action : {"Buy", "Sell"},
                      quantity : Nat, notional : Nat, limit : Nat]
    PROVE  /\ Sound(NewOrder(r)) /\ Open(NewOrder(r))
           /\ NewOrder(r).limit = r.limit
           /\ NewOrder(r).instrument = r.instrument
<1> DEFINE order == NewOrder(r)
<1>1. order \in Orders
  BY DEF NewOrder, Orders, Statuses
<1>2. AddsUp(order) /\ KeepsLimit(order) /\ Open(order)
  BY DEF NewOrder, AddsUp, KeepsLimit, Open
<1>3. QED
  BY <1>1, <1>2 DEF Sound, NewOrder

\* Cancelling keeps what an open order has filled.
LEMMA CancelledIsSound ==
    ASSUME NEW order, Sound(order), Open(order)
    PROVE  Sound([order EXCEPT !.status = "Cancelled"])
<1> DEFINE cancelled == [order EXCEPT !.status = "Cancelled"]
<1>1. order \in Orders /\ AddsUp(order) /\ KeepsLimit(order)
  BY DEF Sound
<1>2. cancelled \in Orders
  BY <1>1 DEF Orders, Statuses
<1>3. /\ cancelled.status = "Cancelled" /\ cancelled.filled = order.filled
      /\ cancelled.remaining = order.remaining /\ cancelled.requested = order.requested
      /\ cancelled.traded = order.traded /\ cancelled.limit = order.limit
      /\ cancelled.action = order.action
  BY <1>1 DEF Orders
<1> HIDE DEF cancelled
<1>4. QED
  BY <1>1, <1>2, <1>3 DEF Sound, AddsUp, KeepsLimit, Open, cancelled

\* A protective exit always succeeds and sells the whole position.
LEMMA ExitSellsAll ==
    ASSUME account \in Accounts, NEW market \in Snapshots, ProtectiveReason(market)
    PROVE  LET i == market.instrument
               exit == FillOrder(account, ExitOrder(i), market, Whole)
           IN  /\ exit.account \in Accounts
               /\ exit.account.held[i] = 0
               /\ Sound(exit.order)
               /\ exit.order.limit = 0
<1> DEFINE i == market.instrument
           held == account.held[i]
           order == ExitOrder(i)
           price == Price("Sell", market)
           exit == FillOrder(account, order, market, Whole)
<1>1. i \in Instruments /\ held \in Nat \ {0}
  BY SimulationAssumption DEF SimulationAssumption, ProtectiveReason, Accounts
<1>2. /\ Sound(order) /\ Open(order)
      /\ order.limit = 0 /\ order.instrument = i
  BY <1>1, NewOrderIsSound DEF ExitOrder
<1>3. order.action = "Sell" /\ order.requested = held /\ order.remaining = held
  BY DEF ExitOrder, NewOrder
<1>4. /\ exit.account \in Accounts
      /\ Sound(exit.order)
      /\ SameRequest(exit.order, order)
  <2>1. LimitIsFillable(order, market)
    BY <1>2 DEF LimitIsFillable
  <2>2. Whole \in 0..Whole
    BY SimulationAssumption DEF SimulationAssumption
  <2>3. QED
    BY <1>2, <2>1, <2>2, FillOrderIsSound
<1>5. Whole \in Nat \ {0} /\ Nearest(held * Whole, Whole) = held
  <2>1. Whole \in Nat \ {0}
    BY SimulationAssumption DEF SimulationAssumption
  <2> HIDE DEF held
  <2>2. QED
    BY <1>1, <2>1, NearestExact
<1>6. Sized(order, price) = order
  BY <1>1, <1>3 DEF Sized
<1>7. EnsureFullFillPossible(account, order, held, price)
  BY <1>1, <1>2, <1>3 DEF EnsureFullFillPossible
<1>8. exit.account = ApplyFill(account, order, held, price)
  <2> HIDE DEF held, order, price
  <2>1. QED
    BY <1>1, <1>3, <1>5, <1>6, <1>7 DEF FillOrder, Outcome, price
<1>9. ApplyFill(account, order, held, price).held[i] = held - held
  <2>1. price \in Nat \ {0}
    BY PricePositive
  <2>2. order \in Orders /\ held \in 1..held
    BY <1>1, <1>2 DEF Sound
  <2>3. QED
    BY <1>1, <1>2, <1>3, <1>7, <2>1, <2>2, FillKeepsAccount
<1>10. QED
  BY <1>1, <1>2, <1>4, <1>8, <1>9 DEF SameRequest
--------------------------------------------------------------------------------
(* The orders as a sequence *)

AllSound(all) == all \in Seq(Orders) /\ \A n \in 1..Len(all) : Sound(all[n])

\* The orders that were final are there and unchanged.
FinalKept(all, next) == \A n \in 1..Len(all) : Open(all[n]) \/ next[n] = all[n]

LEMMA AppendSound ==
    ASSUME NEW all, AllSound(all), NEW order, Sound(order)
    PROVE  /\ AllSound(Append(all, order))
           /\ FinalKept(all, Append(all, order))
           /\ Len(Append(all, order)) = Len(all) + 1
           /\ \A n \in 1..Len(all) : Append(all, order)[n] = all[n]
           /\ Append(all, order)[Len(all) + 1] = order
<1>1. all \in Seq(Orders) /\ order \in Orders /\ Len(all) \in Nat
  BY LenProperties DEF AllSound, Sound
<1>2. /\ Append(all, order) \in Seq(Orders)
      /\ Len(Append(all, order)) = Len(all) + 1
      /\ \A n \in 1..Len(all) : Append(all, order)[n] = all[n]
      /\ Append(all, order)[Len(all) + 1] = order
  BY <1>1
<1>3. QED
  BY <1>1, <1>2 DEF AllSound, FinalKept

LEMMA ReplaceSound ==
    ASSUME NEW all, AllSound(all), NEW n \in 1..Len(all), NEW order, Sound(order)
    PROVE  /\ AllSound([all EXCEPT ![n] = order])
           /\ Open(all[n]) => FinalKept(all, [all EXCEPT ![n] = order])
           /\ Len([all EXCEPT ![n] = order]) = Len(all)
           /\ \A m \in 1..Len(all) :
                 [all EXCEPT ![n] = order][m] = IF m = n THEN order ELSE all[m]
<1>1. all \in Seq(Orders) /\ order \in Orders
  BY DEF AllSound, Sound
<1>2. /\ [all EXCEPT ![n] = order] \in Seq(Orders)
      /\ Len([all EXCEPT ![n] = order]) = Len(all)
      /\ \A m \in 1..Len(all) : [all EXCEPT ![n] = order][m] = IF m = n THEN order ELSE all[m]
  BY <1>1, ExceptSeq
<1>3. QED
  BY <1>2 DEF AllSound, FinalKept

\* A protective exit cancels what rests in its instrument, and nothing else.
LEMMA WithdrawnSound ==
    ASSUME AllSound(orders), NEW i
    PROVE  /\ AllSound(Withdrawn(i))
           /\ FinalKept(orders, Withdrawn(i))
           /\ Len(Withdrawn(i)) = Len(orders)
           /\ \A n \in 1..Len(orders) :
                 ~(Withdrawn(i)[n].instrument = i /\ Open(Withdrawn(i)[n])
                     /\ Withdrawn(i)[n].limit > 0)
<1> DEFINE W == Withdrawn(i)
<1>1. orders \in Seq(Orders) /\ Len(orders) \in Nat
  BY LenProperties DEF AllSound
<1>2. /\ DOMAIN W = 1..Len(orders)
      /\ W = [n \in 1..Len(orders) |-> W[n]]
      /\ \A n \in 1..Len(orders) :
            W[n] = IF n \in Resting(orders, i) THEN [orders[n] EXCEPT !.status = "Cancelled"]
                   ELSE orders[n]
  BY DEF Withdrawn
<1> HIDE DEF W
<1>3. \A n \in 1..Len(orders) : Sound(W[n])
  <2>1. TAKE n \in 1..Len(orders)
  <2>2. Sound(orders[n])
    BY DEF AllSound
  <2>3. n \in Resting(orders, i) => Open(orders[n])
    BY DEF Resting
  <2>4. QED
    BY <1>2, <2>2, <2>3, CancelledIsSound
<1>4. W \in Seq(Orders) /\ Len(W) = Len(orders)
  <2>1. W \in [1..Len(orders) -> Orders]
    BY <1>2, <1>3 DEF Sound
  <2>2. W \in Seq(Orders)
    BY <1>1, <2>1, SeqDef
  <2>3. QED
    BY <1>1, <1>2, <2>2, LenProperties
<1>5. \A n \in 1..Len(orders) : ~(W[n].instrument = i /\ Open(W[n]) /\ W[n].limit > 0)
  <2>1. TAKE n \in 1..Len(orders)
  <2>2. orders[n] \in Orders
    BY DEF AllSound, Sound
  <2>3. CASE n \in Resting(orders, i)
    <3>1. W[n] = [orders[n] EXCEPT !.status = "Cancelled"]
      BY <1>2, <2>3
    <3>2. W[n].status = "Cancelled"
      BY <2>2, <3>1 DEF Orders
    <3>3. QED
      BY <3>2 DEF Open
  <2>4. CASE n \notin Resting(orders, i)
    BY <1>2, <2>4 DEF Resting
  <2>5. QED
    BY <2>3, <2>4
<1>6. FinalKept(orders, W)
  BY <1>2 DEF FinalKept, Resting
<1>7. QED
  BY <1>3, <1>4, <1>5, <1>6 DEF AllSound, W
--------------------------------------------------------------------------------
(* Sums over finite sets *)

\* What the fold of Total computes: g gives the sum of f over every subset of S.
IsTotal(g, f, S) ==
    g = [T \in SUBSET S |-> IF T = {} THEN 0
                     ELSE LET x == CHOOSE y \in T : TRUE IN f[x] + g[T \ {x}]]

\* Whatever holds of some subset of a finite set holds of a minimal one: this is how
\* the proofs below go by induction over a finite set.
LEMMA MinimalSubset ==
    ASSUME NEW S, IsFiniteSet(S), NEW K \in SUBSET SUBSET S, K # {}
    PROVE  \E T \in K : \A U \in K : U \subseteq T => U = T
<1> DEFINE R == StrictSubsetOrdering(S)
<1>1. IsWellFoundedOn(R, FiniteSubsetsOf(S)) /\ FiniteSubsetsOf(S) = SUBSET S
  BY FS_StrictSubsetOrderingWellFounded, FS_FiniteSubsetsOfFinite
<1>2. \A T, U \in SUBSET S : U \subseteq T /\ U # T => <<U, T>> \in R
  BY DEF StrictSubsetOrdering
<1> HIDE DEF R
<1>3. PICK T \in K : \A U \in K : ~(<<U, T>> \in R)
  BY <1>1, WFMin
<1>4. QED
  BY <1>2, <1>3

LEMMA TotalIsChosen ==
    ASSUME NEW f, NEW S
    PROVE  Total(f, S) = (CHOOSE g : IsTotal(g, f, S))[S]
  BY DEF Total, MapThenFoldSet, IsTotal

\* The recursion has one solution ...
LEMMA TotalsAgree ==
    ASSUME NEW f, NEW S, IsFiniteSet(S), NEW T \in SUBSET S, NEW g, NEW h,
           IsTotal(g, f, S), IsTotal(h, f, T)
    PROVE  \A U \in SUBSET T : g[U] = h[U]
<1> DEFINE K == {U \in SUBSET T : g[U] # h[U]}
<1>1. SUFFICES ASSUME K # {} PROVE FALSE
  OBVIOUS
<1>2. IsFiniteSet(T)
  BY FS_Subset
<1>3. PICK U \in K : \A V \in K : V \subseteq U => V = U
  <2>1. K \in SUBSET SUBSET T
    OBVIOUS
  <2> HIDE DEF K
  <2>2. QED
    BY <1>1, <1>2, <2>1, MinimalSubset
<1>4. U \in SUBSET S /\ U \in SUBSET T /\ g[U] # h[U]
  OBVIOUS
<1>5. U # {}
  BY <1>4 DEF IsTotal
<1> DEFINE x == CHOOSE y \in U : TRUE
<1>6. x \in U
  BY <1>5
<1>7. g[U] = f[x] + g[U \ {x}] /\ h[U] = f[x] + h[U \ {x}]
  BY <1>4, <1>5 DEF IsTotal
<1>8. g[U \ {x}] = h[U \ {x}]
  <2>1. U \ {x} \in SUBSET T /\ U \ {x} # U
    BY <1>4, <1>6
  <2>2. QED
    BY <1>3, <2>1
<1>9. QED
  BY <1>4, <1>7, <1>8

\* ... and it has a solution.
LEMMA TotalExists ==
    ASSUME NEW f, NEW S, IsFiniteSet(S)
    PROVE  \E g : IsTotal(g, f, S)
<1>0. ASSUME NEW U, IsFiniteSet(U), NEW V \in SUBSET U, NEW g, NEW h,
             IsTotal(g, f, U), IsTotal(h, f, V)
      PROVE  g[V] = h[V]
  <2>1. \A W \in SUBSET V : g[W] = h[W]
    BY <1>0, TotalsAgree
  <2>2. QED
    BY <2>1
<1> DEFINE K == {T \in SUBSET S : ~ \E g : IsTotal(g, f, T)}
<1>1. SUFFICES ASSUME K # {} PROVE FALSE
  OBVIOUS
<1>2. PICK T \in K : \A U \in K : U \subseteq T => U = T
  <2>1. K \in SUBSET SUBSET S
    OBVIOUS
  <2> HIDE DEF K
  <2>2. QED
    BY <1>1, <2>1, MinimalSubset
<1>3. IsFiniteSet(T)
  BY FS_Subset
<1>4. \A U \in SUBSET T : U # T => \E g : IsTotal(g, f, U)
  BY <1>2
<1> DEFINE at(U) == CHOOSE g : IsTotal(g, f, U)
<1>5. \A U \in SUBSET T : U # T => IsTotal(at(U), f, U) /\ Total(f, U) = at(U)[U]
  BY <1>4, TotalIsChosen
<1> HIDE DEF at
<1>6. ASSUME NEW U \in SUBSET T, U # T, NEW V \in SUBSET U
      PROVE  at(U)[V] = Total(f, V)
  <2>1. V \in SUBSET T /\ V # T /\ IsFiniteSet(U)
    BY <1>3, <1>6, FS_Subset
  <2>2. IsTotal(at(U), f, U) /\ IsTotal(at(V), f, V) /\ Total(f, V) = at(V)[V]
    BY <1>5, <1>6, <2>1
  <2>3. at(U)[V] = at(V)[V]
    BY <1>0, <2>1, <2>2
  <2>4. QED
    BY <2>2, <2>3
<1> DEFINE pick(U) == CHOOSE y \in U : TRUE
           G == [U \in SUBSET T |->
                    IF U # T THEN Total(f, U)
                    ELSE IF T = {} THEN 0 ELSE f[pick(T)] + Total(f, T \ {pick(T)})]
<1>7. ASSUME NEW U \in SUBSET T
      PROVE  G[U] = IF U = {} THEN 0 ELSE f[pick(U)] + G[U \ {pick(U)}]
  <2>1. U # {} => pick(U) \in U
    OBVIOUS
  <2>2. CASE U = T
    BY <2>1, <2>2
  <2>3. CASE U # T
    <3>1. G[U] = at(U)[U] /\ IsTotal(at(U), f, U)
      BY <1>5, <2>3
    <3>2. CASE U = {}
      BY <3>1, <3>2 DEF IsTotal
    <3>3. CASE U # {}
      <4>1. at(U)[U] = f[pick(U)] + at(U)[U \ {pick(U)}]
        BY <3>1, <3>3 DEF IsTotal
      <4>2. at(U)[U \ {pick(U)}] = Total(f, U \ {pick(U)})
        BY <1>6, <2>3
      <4>3. G[U \ {pick(U)}] = Total(f, U \ {pick(U)})
        BY <2>1, <2>3, <3>3
      <4>4. QED
        BY <3>1, <3>3, <4>1, <4>2, <4>3
    <3>4. QED
      BY <3>2, <3>3
  <2>4. QED
    BY <2>2, <2>3
<1>8. IsTotal(G, f, T)
  <2>1. G = [U \in SUBSET T |-> IF U = {} THEN 0 ELSE f[pick(U)] + G[U \ {pick(U)}]]
    BY <1>7
  <2>2. QED
    BY <2>1 DEF IsTotal
<1>9. QED
  BY <1>2, <1>8

\* The recursion equation of Total.
LEMMA TotalRecursion ==
    ASSUME NEW f, NEW S, IsFiniteSet(S)
    PROVE  Total(f, S) = IF S = {} THEN 0
                         ELSE LET x == CHOOSE y \in S : TRUE IN f[x] + Total(f, S \ {x})
<1> DEFINE at(U) == CHOOSE g : IsTotal(g, f, U)
<1>1. \A U \in SUBSET S : IsTotal(at(U), f, U) /\ Total(f, U) = at(U)[U]
  BY FS_Subset, TotalExists, TotalIsChosen
<1> HIDE DEF at
<1>2. ASSUME NEW U \in SUBSET S PROVE at(S)[U] = Total(f, U)
  <2>1. S \in SUBSET S
    OBVIOUS
  <2>2. IsTotal(at(S), f, S) /\ IsTotal(at(U), f, U) /\ Total(f, U) = at(U)[U]
    BY <1>1, <2>1
  <2> DEFINE g == at(S)
             h == at(U)
  <2>3. IsTotal(g, f, S) /\ IsTotal(h, f, U)
    BY <2>2
  <2> HIDE DEF g, h
  <2>4. \A V \in SUBSET U : g[V] = h[V]
    BY <2>3, TotalsAgree
  <2>5. QED
    BY <2>2, <2>4 DEF g, h
<1> DEFINE x == CHOOSE y \in S : TRUE
<1>3. at(S)[S] = IF S = {} THEN 0 ELSE f[x] + at(S)[S \ {x}]
  BY <1>1 DEF IsTotal
<1>4. QED
  BY <1>2, <1>3

LEMMA TotalEmpty ==
    ASSUME NEW f
    PROVE  Total(f, {}) = 0
  BY TotalRecursion, FS_EmptySet

LEMMA TotalType ==
    ASSUME NEW S, IsFiniteSet(S), NEW f \in [S -> Int]
    PROVE  \A T \in SUBSET S : Total(f, T) \in Int
<1> DEFINE K == {T \in SUBSET S : Total(f, T) \notin Int}
<1>1. SUFFICES ASSUME K # {} PROVE FALSE
  OBVIOUS
<1>2. PICK T \in K : \A U \in K : U \subseteq T => U = T
  <2>1. K \in SUBSET SUBSET S
    OBVIOUS
  <2> HIDE DEF K
  <2>2. QED
    BY <1>1, <2>1, MinimalSubset
<1> DEFINE x == CHOOSE y \in T : TRUE
<1>3. IsFiniteSet(T) /\ T # {}
  <2>1. Total(f, T) \notin Int /\ T \in SUBSET S
    OBVIOUS
  <2>2. T # {}
    BY <2>1, TotalEmpty
  <2>3. QED
    BY <2>1, <2>2, FS_Subset
<1>4. x \in T /\ f[x] \in Int
  BY <1>3
<1>5. Total(f, T) = f[x] + Total(f, T \ {x})
  BY <1>3, TotalRecursion
<1>6. Total(f, T \ {x}) \in Int
  BY <1>2, <1>4
<1>7. QED
  BY <1>4, <1>5, <1>6

\* The order in which the fold takes its elements makes no difference.
LEMMA TotalRemove ==
    ASSUME NEW S, IsFiniteSet(S), NEW f \in [S -> Int]
    PROVE  \A T \in SUBSET S : \A x \in T : Total(f, T) = f[x] + Total(f, T \ {x})
<1> DEFINE K == {T \in SUBSET S : \E x \in T : Total(f, T) # f[x] + Total(f, T \ {x})}
<1>1. SUFFICES ASSUME K # {} PROVE FALSE
  OBVIOUS
<1>2. PICK T \in K : \A U \in K : U \subseteq T => U = T
  <2>1. K \in SUBSET SUBSET S
    OBVIOUS
  <2> HIDE DEF K
  <2>2. QED
    BY <1>1, <2>1, MinimalSubset
<1>3. PICK x \in T : Total(f, T) # f[x] + Total(f, T \ {x})
  OBVIOUS
<1> DEFINE y == CHOOSE z \in T : TRUE
<1>4. y \in T
  OBVIOUS
<1>5. IsFiniteSet(T)
  BY FS_Subset
<1>6. Total(f, T) = f[y] + Total(f, T \ {y})
  BY <1>4, <1>5, TotalRecursion
<1>7. x # y
  BY <1>3, <1>6
<1> HIDE DEF y
<1>13. \A U \in SUBSET T : U # T => \A z \in U : Total(f, U) = f[z] + Total(f, U \ {z})
  BY <1>2
<1>8. Total(f, T \ {y}) = f[x] + Total(f, (T \ {y}) \ {x})
  <2>1. T \ {y} \in SUBSET T /\ T \ {y} # T /\ x \in T \ {y}
    BY <1>4, <1>7
  <2>2. QED
    BY <1>13, <2>1
<1>9. Total(f, T \ {x}) = f[y] + Total(f, (T \ {x}) \ {y})
  <2>1. T \ {x} \in SUBSET T /\ T \ {x} # T /\ y \in T \ {x}
    BY <1>4, <1>7
  <2>2. QED
    BY <1>13, <2>1
<1>10. (T \ {x}) \ {y} = (T \ {y}) \ {x}
  OBVIOUS
<1>11. f[x] \in Int /\ f[y] \in Int /\ Total(f, (T \ {y}) \ {x}) \in Int
  BY <1>4, TotalType
<1> DEFINE rest == Total(f, (T \ {y}) \ {x})
<1>12. QED
  <2>1. Total(f, T) = f[y] + (f[x] + rest) /\ Total(f, T \ {x}) = f[y] + rest
    BY <1>6, <1>8, <1>9, <1>10
  <2>2. f[x] \in Int /\ f[y] \in Int /\ rest \in Int
    BY <1>11
  <2> HIDE DEF rest
  <2>3. QED
    BY <1>3, <2>1, <2>2

LEMMA TotalSame ==
    ASSUME NEW S, IsFiniteSet(S), NEW f, NEW g, \A x \in S : f[x] = g[x]
    PROVE  Total(f, S) = Total(g, S)
<1> DEFINE K == {T \in SUBSET S : Total(f, T) # Total(g, T)}
<1>1. SUFFICES ASSUME K # {} PROVE FALSE
  OBVIOUS
<1>2. PICK T \in K : \A U \in K : U \subseteq T => U = T
  <2>1. K \in SUBSET SUBSET S
    OBVIOUS
  <2> HIDE DEF K
  <2>2. QED
    BY <1>1, <2>1, MinimalSubset
<1> DEFINE x == CHOOSE y \in T : TRUE
<1>3. IsFiniteSet(T) /\ T # {}
  BY FS_Subset, TotalEmpty
<1>4. x \in T
  BY <1>3
<1>5. Total(f, T) = f[x] + Total(f, T \ {x}) /\ Total(g, T) = g[x] + Total(g, T \ {x})
  BY <1>3, TotalRecursion
<1>6. Total(f, T \ {x}) = Total(g, T \ {x})
  BY <1>2, <1>4
<1>7. QED
  BY <1>4, <1>5, <1>6

\* A function that changes at one argument changes its sum by as much.
LEMMA TotalExcept ==
    ASSUME NEW S, IsFiniteSet(S), NEW f \in [S -> Int], NEW x \in S, NEW g \in [S -> Int],
           \A y \in S \ {x} : g[y] = f[y]
    PROVE  Total(g, S) = Total(f, S) - f[x] + g[x]
<1>1. IsFiniteSet(S \ {x}) /\ S \in SUBSET S /\ S \ {x} \in SUBSET S
  BY FS_RemoveElement
<1>2. Total(g, S \ {x}) = Total(f, S \ {x})
  BY <1>1, TotalSame
<1>3. Total(f, S) = f[x] + Total(f, S \ {x}) /\ Total(g, S) = g[x] + Total(g, S \ {x})
  BY <1>1, TotalRemove
<1>4. Total(f, S \ {x}) \in Int
  BY <1>1, TotalType
<1>5. QED
  BY <1>2, <1>3, <1>4
--------------------------------------------------------------------------------
(* What a fill means for the books *)

\* What an order brought into the position of i.
Brought(order, i) ==
    IF order.instrument # i THEN 0
    ELSE IF order.action = "Buy" THEN order.filled
    ELSE 0 - order.filled

\* The account and the order move together.
Settles(a, order, b, next) ==
    /\ RoundingApart(a, b)
    /\ \A i \in Instruments : b.held[i] = a.held[i] + Brought(next, i) - Brought(order, i)

LEMMA MoneyType ==
    ASSUME NEW a \in Accounts
    PROVE  /\ [i \in Instruments |-> Basis(a, i)] \in [Instruments -> Int]
           /\ Total([i \in Instruments |-> Basis(a, i)], Instruments) \in Int
           /\ Money(a) \in Int
<1>1. \A i \in Instruments : Basis(a, i) \in Int
  BY WorthType DEF Accounts, Basis
<1> DEFINE f == [i \in Instruments |-> Basis(a, i)]
<1>2. f \in [Instruments -> Int]
  BY <1>1
<1>3. IsFiniteSet(Instruments)
  BY SimulationAssumption DEF SimulationAssumption
<1>4. a.cash \in Int /\ a.realized \in Int
  BY DEF Accounts
<1>5. Money(a) = a.cash + Total(f, Instruments) - a.realized
  BY DEF Money
<1> HIDE DEF f
<1>6. Total(f, Instruments) \in Int
  BY <1>2, <1>3, TotalType
<1>7. QED
  BY <1>2, <1>4, <1>5, <1>6 DEF f

LEMMA SameIsApart ==
    ASSUME NEW a \in Accounts
    PROVE  RoundingApart(a, a)
<1>1. Money(a) \in Int
  BY MoneyType, Zenon
<1> DEFINE money == Money(a)
           drift == Money(a) - Money(a)
<1>2. drift = 0
  <2>1. money \in Int /\ drift = money - money
    BY <1>1
  <2> HIDE DEF money, drift
  <2>2. QED
    BY <2>1
<1> HIDE DEF drift
<1>3. QED
  BY <1>2 DEF RoundingApart, drift

LEMMA FillOrderSettles ==
    ASSUME NEW a \in Accounts, NEW order, Sound(order), Open(order),
           NEW market \in Snapshots, NEW ratio \in 0..Whole
    PROVE  LET result == FillOrder(a, order, market, ratio)
           IN  Settles(a, order, result.account, result.order)
<1> DEFINE price == Price(order.action, market)
           sized == Sized(order, price)
           quantity == Nearest(sized.remaining * ratio, Whole)
           result == FillOrder(a, order, market, ratio)
           i == order.instrument
<1>1. order \in Orders /\ order.action \in {"Buy", "Sell"}
      /\ i \in Instruments /\ order.filled \in Nat
  BY DEF Sound, Orders
<1>2. price \in Nat \ {0}
  BY <1>1, PricePositive
<1> HIDE DEF price
<1>3. Sound(sized) /\ Open(sized) /\ SameRequest(sized, order)
  BY <1>2, SizedIsSound
<1>4. sized.filled = order.filled
  BY <1>1 DEF Sized, Orders
<1>5. Whole \in Nat \ {0}
  BY SimulationAssumption DEF SimulationAssumption
<1> HIDE DEF sized
<1>6. sized.remaining \in Nat /\ sized \in Orders
  BY <1>3 DEF Sound, Orders
<1>7. quantity \in 0..sized.remaining
  BY <1>5, <1>6, PartBound
<1> HIDE DEF quantity
<1>8. result = IF sized.remaining = 0 THEN Outcome(TRUE, a, [sized EXCEPT !.status = "Filled"])
               ELSE IF ~EnsureFullFillPossible(a, order, sized.remaining, price)
               THEN Outcome(FALSE, a, sized)
               ELSE IF ratio = 0 THEN Outcome(TRUE, a, sized)
               ELSE IF quantity = 0 THEN Outcome(FALSE, a, sized)
               ELSE Outcome(TRUE, ApplyFill(a, order, quantity, price),
                            Filled(sized, quantity, price))
  BY DEF FillOrder, price, sized, quantity
<1> HIDE DEF result
<1>9. a.held \in [Instruments -> Nat]
  BY DEF Accounts
<1>10. CASE /\ result.account = a
            /\ result.order.filled = order.filled /\ SameRequest(result.order, order)
  <2>1. \A j : Brought(result.order, j) = Brought(order, j)
    BY <1>10 DEF Brought, SameRequest
  <2>2. \A j \in Instruments : a.held[j] = a.held[j] + Brought(order, j) - Brought(order, j)
    BY <1>1, <1>9 DEF Brought
  <2>3. QED
    BY <1>10, <2>1, <2>2, SameIsApart DEF Settles, result
<1>11. CASE /\ EnsureFullFillPossible(a, order, sized.remaining, price)
            /\ quantity \in 1..sized.remaining
            /\ result.account = ApplyFill(a, order, quantity, price)
            /\ result.order = Filled(sized, quantity, price)
  <2> DEFINE b == ApplyFill(a, order, quantity, price)
             next == Filled(sized, quantity, price)
  <2>1. b \in Accounts
    BY <1>1, <1>2, <1>6, <1>11, FillKeepsAccount
  <2> DEFINE f == [j \in Instruments |-> Basis(a, j)]
             g == [j \in Instruments |-> Basis(b, j)]
             drift == (b.cash + g[i] - b.realized) - (a.cash + f[i] - a.realized)
  <2>2. /\ IF order.action = "Buy"
           THEN /\ b.held[i] = a.held[i] + quantity
                /\ 2 * (Lot * drift) \in -(b.held[i] + Lot)..(b.held[i] + Lot)
           ELSE /\ b.held[i] = a.held[i] - quantity
                /\ drift \in -1..1
                /\ b.held[i] = 0 => drift = 0
        /\ \A j \in Instruments \ {i} : b.held[j] = a.held[j] /\ g[j] = f[j]
    <3>1. f[i] = Basis(a, i) /\ g[i] = Basis(b, i)
      BY <1>1
    <3>2. \A j \in Instruments : f[j] = Basis(a, j) /\ g[j] = Basis(b, j)
      OBVIOUS
    <3> HIDE DEF f, g
    <3>3. QED
      BY <1>1, <1>2, <1>6, <1>11, <3>1, <3>2, FillMovesMoneyByRounding
  <2>3. /\ next.filled = order.filled + quantity
        /\ next.instrument = i /\ next.action = order.action
    BY <1>3, <1>4, <1>6 DEF Filled, Orders, SameRequest
  <2> HIDE DEF b, next
  <2>4. b.held \in [Instruments -> Nat] /\ b.cash \in Int /\ b.realized \in Int
        /\ a.cash \in Int /\ a.realized \in Int
    BY <2>1 DEF Accounts
  <2>5. RoundingApart(a, b)
    <3>1. f \in [Instruments -> Int] /\ g \in [Instruments -> Int]
          /\ Total(f, Instruments) \in Int
      BY <2>1, MoneyType
    <3>2. \A j \in Instruments \ {i} : g[j] = f[j]
      BY <2>2
    <3>3. IsFiniteSet(Instruments)
      BY SimulationAssumption DEF SimulationAssumption
    <3>4. /\ Money(a) = a.cash + Total(f, Instruments) - a.realized
          /\ Money(b) = b.cash + Total(g, Instruments) - b.realized
      BY DEF Money
    <3> HIDE DEF f, g
    <3>5. Total(g, Instruments) = Total(f, Instruments) - f[i] + g[i]
      BY <1>1, <3>1, <3>2, <3>3, TotalExcept
    <3>6. f[i] \in Int /\ g[i] \in Int
      BY <1>1, <3>1
    <3>7. Money(b) - Money(a) = drift
      BY <2>4, <3>1, <3>4, <3>5, <3>6
    <3> HIDE DEF drift
    <3>8. quantity \in Nat \ {0} /\ a.held[i] \in Nat /\ b.held[i] \in Nat
      BY <1>1, <1>6, <1>9, <1>11, <2>4
    <3>9. CASE order.action = "Buy"
      <4>1. b.held[i] > a.held[i] /\ 2 * (Lot * drift) \in -(b.held[i] + Lot)..(b.held[i] + Lot)
        BY <2>2, <3>8, <3>9
      <4>2. QED
        BY <1>1, <3>7, <4>1 DEF RoundingApart
    <3>10. CASE order.action # "Buy"
      <4>1. b.held[i] < a.held[i] /\ drift \in -1..1 /\ (b.held[i] = 0 => drift = 0)
        BY <2>2, <3>8, <3>10
      <4>2. b.held[i] = 0 \/ b.held[i] > 0
        BY <3>8
      <4>3. QED
        BY <1>1, <3>7, <4>1, <4>2 DEF RoundingApart
    <3>11. QED
      BY <3>9, <3>10
  <2>6. ASSUME NEW j \in Instruments
        PROVE  b.held[j] = a.held[j] + Brought(next, j) - Brought(order, j)
    <3>1. quantity \in Nat /\ a.held[j] \in Nat
      BY <1>6, <1>9, <1>11
    <3> HIDE DEF f, g, drift
    <3>2. CASE j # i
      BY <2>2, <2>3, <3>1, <3>2 DEF Brought
    <3>3. CASE j = i
      BY <1>1, <2>2, <2>3, <3>1, <3>3 DEF Brought
    <3>4. QED
      BY <3>2, <3>3
  <2>7. QED
    BY <1>11, <2>5, <2>6 DEF Settles, b, next, result
<1>12. CASE result.account = a /\ result.order = sized
  BY <1>3, <1>4, <1>10, <1>12 DEF result
<1>13. CASE /\ sized.remaining = 0 /\ result.account = a
            /\ result.order = [sized EXCEPT !.status = "Filled"]
  <2>1. result.order.filled = order.filled /\ SameRequest(result.order, order)
    BY <1>3, <1>4, <1>13, EndedIsSound DEF SameRequest
  <2>2. QED
    BY <1>10, <1>13, <2>1 DEF result
<1>14. QED
  BY <1>6, <1>7, <1>8, <1>11, <1>12, <1>13 DEF Outcome
--------------------------------------------------------------------------------
(* What the orders on record brought *)

Net(all, i) == Total([n \in 1..Len(all) |-> Brought(all[n], i)], 1..Len(all))

LEMMA BroughtType ==
    ASSUME NEW order, Sound(order), NEW i
    PROVE  Brought(order, i) \in Int
  BY DEF Sound, Orders, Brought

LEMMA NetType ==
    ASSUME NEW all, AllSound(all), NEW i
    PROVE  /\ Net(all, i) \in Int
           /\ IsFiniteSet(1..Len(all))
           /\ [n \in 1..Len(all) |-> Brought(all[n], i)] \in [1..Len(all) -> Int]
<1> DEFINE f == [n \in 1..Len(all) |-> Brought(all[n], i)]
<1>1. Len(all) \in Nat /\ IsFiniteSet(1..Len(all))
  BY FS_Interval, LenProperties DEF AllSound
<1>2. f \in [1..Len(all) -> Int]
  BY BroughtType DEF AllSound
<1> HIDE DEF f
<1>3. Total(f, 1..Len(all)) \in Int
  BY <1>1, <1>2, TotalType
<1>4. QED
  BY <1>1, <1>2, <1>3 DEF Net, f

LEMMA NetOfAppend ==
    ASSUME NEW all, AllSound(all), NEW order, Sound(order), NEW i
    PROVE  Net(Append(all, order), i) = Net(all, i) + Brought(order, i)
<1> DEFINE next == Append(all, order)
           f == [n \in 1..Len(all) |-> Brought(all[n], i)]
           g == [n \in 1..Len(next) |-> Brought(next[n], i)]
           last == Len(all) + 1
<1>1. /\ AllSound(next) /\ Len(next) = last /\ next[last] = order
      /\ \A n \in 1..Len(all) : next[n] = all[n]
  BY AppendSound
<1>2. Len(all) \in Nat
  BY LenProperties DEF AllSound
<1> HIDE DEF next
<1>3. IsFiniteSet(1..Len(next)) /\ g \in [1..Len(next) -> Int]
  BY <1>1, NetType
<1>4. last \in 1..Len(next) /\ (1..Len(next)) \ {last} = 1..Len(all)
  BY <1>1, <1>2
<1>5. g[last] = Brought(order, i) /\ \A n \in 1..Len(all) : g[n] = f[n]
  BY <1>1, <1>2
<1>6. IsFiniteSet(1..Len(all)) /\ Net(all, i) \in Int
  BY NetType
<1> HIDE DEF f, g
<1>7. Total(g, 1..Len(next)) = g[last] + Total(g, (1..Len(next)) \ {last})
  BY <1>3, <1>4, TotalRemove
<1>8. Total(g, 1..Len(all)) = Total(f, 1..Len(all))
  BY <1>5, <1>6, TotalSame
<1>9. Net(next, i) = Brought(order, i) + Net(all, i)
  BY <1>4, <1>5, <1>7, <1>8 DEF Net, f, g
<1>10. QED
  BY <1>6, <1>9, BroughtType DEF next

LEMMA NetOfReplace ==
    ASSUME NEW all, AllSound(all), NEW n \in 1..Len(all), NEW order, Sound(order), NEW i
    PROVE  Net([all EXCEPT ![n] = order], i)
             = Net(all, i) - Brought(all[n], i) + Brought(order, i)
<1> DEFINE next == [all EXCEPT ![n] = order]
           f == [m \in 1..Len(all) |-> Brought(all[m], i)]
           g == [m \in 1..Len(next) |-> Brought(next[m], i)]
<1>1. /\ AllSound(next) /\ Len(next) = Len(all)
      /\ \A m \in 1..Len(all) : next[m] = IF m = n THEN order ELSE all[m]
  BY ReplaceSound
<1> HIDE DEF next
<1>2. IsFiniteSet(1..Len(all)) /\ f \in [1..Len(all) -> Int] /\ g \in [1..Len(all) -> Int]
  BY <1>1, NetType
<1>3. /\ f[n] = Brought(all[n], i) /\ g[n] = Brought(order, i)
      /\ \A m \in (1..Len(all)) \ {n} : g[m] = f[m]
  BY <1>1
<1> HIDE DEF f, g
<1>4. Total(g, 1..Len(all)) = Total(f, 1..Len(all)) - f[n] + g[n]
  <2> DEFINE S == 1..Len(all)
  <2>1. n \in S /\ IsFiniteSet(S) /\ f \in [S -> Int] /\ g \in [S -> Int]
    BY <1>2
  <2>2. \A m \in S \ {n} : g[m] = f[m]
    BY <1>3
  <2> HIDE DEF S
  <2>3. Total(g, S) = Total(f, S) - f[n] + g[n]
    BY ONLY <2>1, <2>2, TotalExcept
  <2>4. QED
    BY <2>3 DEF S
<1>5. QED
  BY <1>1, <1>3, <1>4 DEF Net, f, g, next

LEMMA NewOrderBringsNothing ==
    \A r : \A i : Brought(NewOrder(r), i) = 0
  BY DEF NewOrder, Brought

\* A cancelled order brought what it had brought.
LEMMA CancelledBrings ==
    ASSUME NEW order \in Orders, NEW i
    PROVE  Brought([order EXCEPT !.status = "Cancelled"], i) = Brought(order, i)
  BY DEF Orders, Brought

LEMMA NetOfWithdrawn ==
    ASSUME AllSound(orders), NEW i, NEW j
    PROVE  Net(Withdrawn(i), j) = Net(orders, j)
<1> DEFINE W == Withdrawn(i)
           f == [n \in 1..Len(orders) |-> Brought(orders[n], j)]
           g == [n \in 1..Len(W) |-> Brought(W[n], j)]
<1>1. Len(W) = Len(orders)
  BY WithdrawnSound
<1>2. \A n \in 1..Len(orders) :
          W[n] = IF n \in Resting(orders, i) THEN [orders[n] EXCEPT !.status = "Cancelled"]
                 ELSE orders[n]
  BY DEF Withdrawn
<1> HIDE DEF W
<1>3. ASSUME NEW n \in 1..Len(orders) PROVE g[n] = f[n]
  <2>1. orders[n] \in Orders
    BY DEF AllSound, Sound
  <2>2. Brought(W[n], j) = Brought(orders[n], j)
    BY <1>2, <2>1, CancelledBrings
  <2>3. QED
    BY <1>1, <2>2
<1>4. IsFiniteSet(1..Len(orders))
  BY NetType
<1> HIDE DEF f, g
<1>5. Total(g, 1..Len(orders)) = Total(f, 1..Len(orders))
  BY <1>3, <1>4, TotalSame
<1>6. QED
  BY <1>1, <1>5 DEF Net, f, g, W
--------------------------------------------------------------------------------
(* The strengthening *)

\* What a round has still to visit are resting orders of its instrument.
Visiting == visit.active => visit.todo \subseteq Resting(orders, visit.market.instrument)

IInv ==
    /\ TypeOK
    /\ AllSound(orders)
    /\ Visiting
    /\ ExitsAreFinal

LEMMA InitIInv == Init => IInv
<1>1. SUFFICES ASSUME Init PROVE IInv
  OBVIOUS
<1>2. account \in Accounts /\ model \in FillRatios
  BY <1>1, SimulationAssumption DEF SimulationAssumption, Init, Accounts
<1>3. orders \in Seq(Orders) /\ Len(orders) = 0
  BY <1>1 DEF Init
<1>4. visit = NoVisit /\ visit \in Visits /\ ~visit.active
  BY <1>1 DEF Init, NoVisit, Visits
<1>5. QED
  BY <1>2, <1>3, <1>4 DEF IInv, TypeOK, AllSound, Visiting, ExitsAreFinal

LEMMA ExecuteStep ==
    ASSUME IInv, NEW r \in Requests, NEW market \in Snapshots, Execute(r, market)
    PROVE  IInv' /\ FinalKept(orders, orders')
<1> DEFINE order == NewOrder(r)
           result == IF LimitIsFillable(order, market)
                     THEN FillOrder(account, order, market, model)
                     ELSE Outcome(TRUE, account, order)
<1>1. Sound(order) /\ Open(order)
  BY NewOrderIsSound, SimulationAssumption DEF SimulationAssumption
<1>2. account \in Accounts /\ model \in 0..Whole
  BY SimulationAssumption DEF SimulationAssumption, IInv, TypeOK
<1> HIDE DEF order
<1>3. result.account \in Accounts /\ Sound(result.order)
  <2>1. CASE LimitIsFillable(order, market)
    BY <1>1, <1>2, <2>1, FillOrderIsSound
  <2>2. CASE ~LimitIsFillable(order, market)
    BY <1>1, <1>2, <2>2 DEF Outcome
  <2>3. QED
    BY <2>1, <2>2
<1>4. /\ account' = result.account /\ orders' = Append(orders, result.order)
      /\ model' = model /\ visit' = visit /\ ~visit.active
  BY DEF Execute, order
<1> HIDE DEF result
<1>5. AllSound(orders') /\ FinalKept(orders, orders')
  BY <1>3, <1>4, AppendSound DEF IInv
<1>6. TypeOK'
  BY <1>3, <1>4, <1>5 DEF IInv, TypeOK, AllSound
<1>7. Visiting' /\ ExitsAreFinal'
  BY <1>4 DEF Visiting, ExitsAreFinal
<1>8. QED
  BY <1>5, <1>6, <1>7 DEF IInv

LEMMA CancelStep ==
    ASSUME IInv, NEW n \in 1..Len(orders), CancelOrder(n)
    PROVE  IInv' /\ FinalKept(orders, orders')
<1> DEFINE cancelled == [orders[n] EXCEPT !.status = "Cancelled"]
<1>1. Open(orders[n]) /\ Sound(orders[n]) /\ AllSound(orders)
  BY DEF CancelOrder, IInv, AllSound
<1>2. Sound(cancelled)
  BY <1>1, CancelledIsSound
<1>3. /\ orders' = [orders EXCEPT ![n] = cancelled]
      /\ UNCHANGED <<account, model, visit>> /\ ~visit.active
  BY DEF CancelOrder
<1> HIDE DEF cancelled
<1>4. AllSound(orders') /\ FinalKept(orders, orders')
  BY <1>1, <1>2, <1>3, ReplaceSound
<1>5. TypeOK'
  BY <1>3, <1>4 DEF IInv, TypeOK, AllSound
<1>6. Visiting' /\ ExitsAreFinal'
  BY <1>3 DEF Visiting, ExitsAreFinal
<1>7. QED
  BY <1>4, <1>5, <1>6 DEF IInv

LEMMA SnapshotStep ==
    ASSUME IInv, NEW market \in Snapshots, OnMarketSnapshot(market)
    PROVE  IInv' /\ FinalKept(orders, orders')
<1> DEFINE i == market.instrument
           exit == FillOrder(account, ExitOrder(i), market, Whole)
<1>1. account \in Accounts /\ AllSound(orders)
  BY DEF IInv, TypeOK
<1>2. /\ visit' = [active |-> TRUE, market |-> market, exited |-> ProtectiveReason(market),
                   todo |-> Resting(orders', i)]
      /\ model' = model
  BY DEF OnMarketSnapshot
<1>3. ProtectiveReason(market) \in BOOLEAN
  BY DEF ProtectiveReason
<1>4. visit'.active /\ visit'.market = market /\ visit'.exited = ProtectiveReason(market)
      /\ visit'.todo = Resting(orders', i)
  BY <1>2
<1>5. visit' \in Visits
  BY <1>2, <1>3 DEF Visits, Resting
<1>6. Visiting'
  BY <1>4 DEF Visiting
<1>7. SUFFICES /\ account' \in Accounts /\ AllSound(orders') /\ FinalKept(orders, orders')
               /\ ProtectiveReason(market) =>
                      account'.held[i] = 0 /\ Resting(orders', i) = {}
  <2>1. ASSUME /\ account' \in Accounts /\ AllSound(orders') /\ FinalKept(orders, orders')
               /\ ProtectiveReason(market) =>
                      account'.held[i] = 0 /\ Resting(orders', i) = {}
        PROVE  IInv' /\ FinalKept(orders, orders')
    <3>1. TypeOK'
      BY <1>2, <1>5, <2>1 DEF IInv, TypeOK, AllSound
    <3>2. ExitsAreFinal'
      BY <1>4, <2>1 DEF ExitsAreFinal
    <3>3. QED
      BY <1>6, <2>1, <3>1, <3>2 DEF IInv
  <2>2. QED
    BY <2>1
<1>8. CASE ProtectiveReason(market)
  <2>1. account' = exit.account /\ orders' = Append(Withdrawn(i), exit.order)
    BY <1>8 DEF OnMarketSnapshot
  <2>2. /\ exit.account \in Accounts /\ exit.account.held[i] = 0
        /\ Sound(exit.order) /\ exit.order.limit = 0
    BY <1>1, <1>8, ExitSellsAll
  <2> HIDE DEF exit
  <2>3. /\ AllSound(Withdrawn(i)) /\ FinalKept(orders, Withdrawn(i))
        /\ Len(Withdrawn(i)) = Len(orders)
        /\ \A n \in 1..Len(orders) :
              ~(Withdrawn(i)[n].instrument = i /\ Open(Withdrawn(i)[n])
                  /\ Withdrawn(i)[n].limit > 0)
    BY <1>1, WithdrawnSound
  <2>4. /\ AllSound(orders') /\ Len(orders') = Len(orders) + 1
        /\ \A n \in 1..Len(orders) : orders'[n] = Withdrawn(i)[n]
        /\ orders'[Len(orders) + 1] = exit.order
    BY <2>1, <2>2, <2>3, AppendSound
  <2>5. FinalKept(orders, orders')
    BY <2>3, <2>4 DEF FinalKept
  <2>6. Resting(orders', i) = {}
    <3>1. Len(orders) \in Nat
      BY <1>1, LenProperties DEF AllSound
    <3>2. \A n \in 1..(Len(orders) + 1) : n \in 1..Len(orders) \/ n = Len(orders) + 1
      BY <3>1
    <3>3. SUFFICES ASSUME NEW n \in 1..Len(orders'), orders'[n].instrument = i,
                          Open(orders'[n]), orders'[n].limit > 0
                   PROVE  FALSE
      BY DEF Resting
    <3>4. QED
      BY <2>2, <2>3, <2>4, <3>2, <3>3
  <2>7. QED
    BY <2>1, <2>2, <2>4, <2>5, <2>6
<1>9. CASE ~ProtectiveReason(market)
  BY <1>1, <1>9 DEF OnMarketSnapshot, FinalKept
<1>10. QED
  BY <1>8, <1>9

\* One order of the round: the others stay where they are, and after an exit
\* there is none.
LEMMA VisitStep ==
    ASSUME IInv, VisitOrder
    PROVE  IInv' /\ FinalKept(orders, orders')
<1>1. /\ visit.active /\ visit \in Visits /\ account \in Accounts /\ AllSound(orders)
      /\ model \in 0..Whole /\ model' = model
  BY SimulationAssumption DEF SimulationAssumption, IInv, TypeOK, VisitOrder
<1>2. /\ visit.market \in Snapshots /\ visit.exited \in BOOLEAN /\ visit.todo \subseteq Nat
      /\ visit \in [active : {TRUE}, market : Snapshots, exited : BOOLEAN, todo : SUBSET Nat]
  <2>1. ~NoVisit.active
    BY DEF NoVisit
  <2>2. visit \in [active : {TRUE}, market : Snapshots, exited : BOOLEAN, todo : SUBSET Nat]
    BY <1>1, <2>1 DEF Visits
  <2>3. QED
    BY <2>2
<1>3. PICK n \in visit.todo :
         IF LimitIsFillable(orders[n], visit.market)
         THEN LET result == FillOrder(account, orders[n], visit.market, model)
              IN  /\ account' = result.account
                  /\ orders' = [orders EXCEPT ![n] = result.order]
                  /\ visit' = IF result.ok THEN [visit EXCEPT !.todo = @ \ {n}] ELSE NoVisit
         ELSE /\ visit' = [visit EXCEPT !.todo = @ \ {n}]
              /\ UNCHANGED <<account, orders>>
  BY DEF VisitOrder
<1> DEFINE i == visit.market.instrument
           shorter == [visit EXCEPT !.todo = @ \ {n}]
<1>4. visit.todo \subseteq Resting(orders, i)
  BY <1>1 DEF IInv, Visiting
<1>5. /\ n \in 1..Len(orders) /\ Sound(orders[n]) /\ Open(orders[n])
      /\ orders[n].instrument = i /\ orders[n].limit > 0
  BY <1>1, <1>4 DEF Resting, AllSound
<1>6. /\ shorter.active /\ shorter.market = visit.market /\ shorter.exited = visit.exited
      /\ shorter.todo = visit.todo \ {n} /\ shorter \in Visits
  <2> DEFINE left == visit.todo \ {n}
  <2>1. shorter = [visit EXCEPT !.todo = left]
    OBVIOUS
  <2>2. left \in SUBSET Nat
    BY <1>2
  <2> HIDE DEF left, shorter
  <2>3. /\ shorter \in [active : {TRUE}, market : Snapshots, exited : BOOLEAN, todo : SUBSET Nat]
        /\ shorter.market = visit.market /\ shorter.exited = visit.exited
        /\ shorter.todo = left
    BY <1>2, <2>1, <2>2
  <2>4. QED
    BY <2>3 DEF Visits, left
<1> HIDE DEF shorter
<1>7. visit' \in {shorter, NoVisit}
  BY <1>3 DEF shorter
<1>8. ~visit.exited
  BY <1>1, <1>4, <1>3 DEF IInv, ExitsAreFinal
<1>9. NoVisit \in Visits /\ ~NoVisit.active
  BY DEF Visits, NoVisit
<1>10. visit' \in Visits /\ ExitsAreFinal'
  BY <1>6, <1>7, <1>8, <1>9 DEF ExitsAreFinal
<1>11. SUFFICES /\ account' \in Accounts /\ AllSound(orders') /\ FinalKept(orders, orders')
                /\ \A m \in visit.todo \ {n} : m \in Resting(orders', i)
  <2>1. ASSUME /\ account' \in Accounts /\ AllSound(orders') /\ FinalKept(orders, orders')
               /\ \A m \in visit.todo \ {n} : m \in Resting(orders', i)
        PROVE  IInv' /\ FinalKept(orders, orders')
    <3>1. TypeOK'
      BY <1>1, <1>10, <2>1 DEF IInv, TypeOK, AllSound
    <3>2. Visiting'
      BY <1>6, <1>7, <1>9, <2>1 DEF Visiting
    <3>3. QED
      BY <1>10, <2>1, <3>1, <3>2 DEF IInv
  <2>2. QED
    BY <2>1
<1>12. CASE LimitIsFillable(orders[n], visit.market)
  <2> DEFINE result == FillOrder(account, orders[n], visit.market, model)
  <2>1. account' = result.account /\ orders' = [orders EXCEPT ![n] = result.order]
    BY <1>3, <1>12
  <2>2. result.account \in Accounts /\ Sound(result.order)
    BY <1>1, <1>2, <1>5, <1>12, FillOrderIsSound
  <2> HIDE DEF result
  <2>3. /\ AllSound(orders') /\ FinalKept(orders, orders') /\ Len(orders') = Len(orders)
        /\ \A m \in 1..Len(orders) : orders'[m] = IF m = n THEN result.order ELSE orders[m]
    <3>1. AllSound(orders) /\ n \in 1..Len(orders) /\ Sound(result.order) /\ Open(orders[n])
      BY <1>1, <1>5, <2>2
    <3>2. orders' = [orders EXCEPT ![n] = result.order]
      BY <2>1
    <3> DEFINE order == result.order
    <3> HIDE DEF order
    <3>3. /\ AllSound([orders EXCEPT ![n] = order])
          /\ FinalKept(orders, [orders EXCEPT ![n] = order])
          /\ Len([orders EXCEPT ![n] = order]) = Len(orders)
          /\ \A m \in 1..Len(orders) :
                [orders EXCEPT ![n] = order][m] = IF m = n THEN order ELSE orders[m]
      <4>1. Sound(order)
        BY <3>1 DEF order
      <4>2. QED
        BY <3>1, <4>1, ReplaceSound
    <3>4. QED
      BY <3>2, <3>3 DEF order
  <2>4. \A m \in visit.todo \ {n} : m \in Resting(orders', i)
    BY <1>4, <2>3 DEF Resting
  <2>5. QED
    BY <2>1, <2>2, <2>3, <2>4
<1>13. CASE ~LimitIsFillable(orders[n], visit.market)
  <2>1. UNCHANGED <<account, orders>>
    BY <1>3, <1>13
  <2>2. QED
    BY <1>1, <1>4, <2>1 DEF FinalKept
<1>14. QED
  BY <1>12, <1>13

LEMMA EndStep ==
    ASSUME IInv, VisitEnds
    PROVE  IInv' /\ FinalKept(orders, orders')
<1>1. NoVisit \in Visits /\ ~NoVisit.active
  BY DEF Visits, NoVisit
<1>2. visit' = NoVisit /\ UNCHANGED <<account, orders, model>>
  BY DEF VisitEnds
<1>3. QED
  BY <1>1, <1>2 DEF IInv, TypeOK, Visiting, ExitsAreFinal, FinalKept

LEMMA NextIInv ==
    ASSUME IInv, [Next]_vars
    PROVE  IInv' /\ FinalKept(orders, orders')
<1>1. CASE \E r \in Requests, market \in Snapshots : Execute(r, market)
  BY <1>1, ExecuteStep
<1>2. CASE \E n \in 1..Len(orders) : CancelOrder(n)
  BY <1>2, CancelStep
<1>3. CASE \E market \in Snapshots : OnMarketSnapshot(market)
  BY <1>3, SnapshotStep
<1>4. CASE VisitOrder
  BY <1>4, VisitStep
<1>5. CASE VisitEnds
  BY <1>5, EndStep
<1>6. CASE UNCHANGED vars
  BY <1>6 DEF vars, IInv, TypeOK, AllSound, Visiting, ExitsAreFinal, FinalKept
<1>7. QED
  BY <1>1, <1>2, <1>3, <1>4, <1>5, <1>6 DEF Next
--------------------------------------------------------------------------------
(* The books: the account against the orders on record *)

Explained == \A i \in Instruments : account.held[i] = InitialHeld[i] + Net(orders, i)

\* What a step of the account and the orders must do for the books to stay explained.
Balanced ==
    /\ RoundingApart(account, account')
    /\ \A i \in Instruments :
          account'.held[i] = account.held[i] + Net(orders', i) - Net(orders, i)

LEMMA ExplainedIsTheProperty ==
    ASSUME IInv
    PROVE  Explained <=> InventoryIsExplained
<1>1. \A n \in 1..Len(orders) : - orders[n].filled = 0 - orders[n].filled
  <2>1. \A m \in Int : - m = 0 - m
    OBVIOUS
  <2>2. ASSUME NEW n \in 1..Len(orders) PROVE orders[n].filled \in Int
    <3>1. orders[n] \in Orders
      BY DEF IInv, AllSound, Sound
    <3>2. QED
      BY <3>1 DEF Orders
  <2>3. QED
    BY <2>1, <2>2, Zenon
<1>2. ASSUME NEW i
      PROVE  [n \in 1..Len(orders) |-> Brought(orders[n], i)]
               = [n \in 1..Len(orders) |->
                     IF orders[n].instrument # i THEN 0
                     ELSE IF orders[n].action = "Buy" THEN orders[n].filled
                     ELSE - orders[n].filled]
  BY <1>1 DEF Brought
<1>3. QED
  BY <1>2 DEF Explained, InventoryIsExplained, Net

LEMMA BalancedKeepsExplained ==
    ASSUME IInv, IInv', Balanced, Explained
    PROVE  Explained'
<1>1. ASSUME NEW i \in Instruments PROVE account'.held[i] = InitialHeld[i] + Net(orders', i)
  <2>1. Net(orders, i) \in Int /\ Net(orders', i) \in Int
    BY NetType DEF IInv
  <2>2. InitialHeld[i] \in Int
    BY SimulationAssumption DEF SimulationAssumption
  <2>3. QED
    BY <2>1, <2>2 DEF Balanced, Explained
<1>2. QED
  BY <1>1 DEF Explained

LEMMA InitExplained == Init => Explained
<1>1. SUFFICES ASSUME Init PROVE Explained
  OBVIOUS
<1>2. ASSUME NEW i \in Instruments PROVE account.held[i] = InitialHeld[i] + Net(orders, i)
  <2>1. Len(orders) = 0 /\ 1..Len(orders) = {}
    BY <1>1 DEF Init
  <2>2. Net(orders, i) = 0
    BY <2>1, TotalEmpty DEF Net
  <2>3. QED
    BY <1>1, <2>2, SimulationAssumption DEF Init, SimulationAssumption
<1>3. QED
  BY <1>2 DEF Explained

\* Neither the account nor what the orders brought changes.
LEMMA UnchangedIsBalanced ==
    ASSUME IInv, UNCHANGED <<account, orders>>
    PROVE  Balanced
<1>1. ASSUME NEW i \in Instruments PROVE Net(orders, i) \in Int /\ account.held[i] \in Int
  BY NetType DEF IInv, TypeOK, Accounts
<1>2. RoundingApart(account, account')
  BY SameIsApart DEF IInv, TypeOK
<1>3. QED
  BY <1>1, <1>2 DEF Balanced

LEMMA ExecuteBalances ==
    ASSUME IInv, NEW r \in Requests, NEW market \in Snapshots, Execute(r, market)
    PROVE  Balanced
<1> DEFINE order == NewOrder(r)
           result == IF LimitIsFillable(order, market)
                     THEN FillOrder(account, order, market, model)
                     ELSE Outcome(TRUE, account, order)
<1>1. Sound(order) /\ Open(order)
  BY NewOrderIsSound, SimulationAssumption DEF SimulationAssumption
<1>2. \A i : Brought(order, i) = 0
  BY NewOrderBringsNothing
<1>3. account \in Accounts /\ model \in 0..Whole /\ AllSound(orders)
  BY SimulationAssumption DEF SimulationAssumption, IInv, TypeOK
<1> HIDE DEF order
<1>4. Sound(result.order) /\ Settles(account, order, result.account, result.order)
  <2>1. CASE LimitIsFillable(order, market)
    BY <1>1, <1>3, <2>1, FillOrderIsSound, FillOrderSettles
  <2>2. CASE ~LimitIsFillable(order, market)
    <3>1. result.account = account /\ result.order = order
      BY <2>2 DEF Outcome
    <3>2. \A i \in Instruments : account.held[i] \in Int
      BY <1>3 DEF Accounts
    <3>3. \A i \in Instruments : account.held[i] = account.held[i] + 0 - 0
      BY <3>2
    <3> HIDE DEF result
    <3>4. QED
      BY <1>1, <1>2, <1>3, <3>1, <3>3, SameIsApart DEF Settles
  <2>3. QED
    BY <2>1, <2>2
<1>5. account' = result.account /\ orders' = Append(orders, result.order)
  BY DEF Execute, order
<1> HIDE DEF result
<1>6. ASSUME NEW i \in Instruments
      PROVE  account'.held[i] = account.held[i] + Net(orders', i) - Net(orders, i)
  <2>1. Net(orders', i) = Net(orders, i) + Brought(result.order, i)
    BY <1>3, <1>4, <1>5, NetOfAppend
  <2>2. account'.held[i] = account.held[i] + Brought(result.order, i) - 0
    BY <1>2, <1>4, <1>5 DEF Settles
  <2>3. Net(orders, i) \in Int /\ account.held[i] \in Int /\ Brought(result.order, i) \in Int
    BY <1>3, <1>4, NetType, BroughtType DEF Accounts
  <2>4. QED
    BY <2>1, <2>2, <2>3
<1>7. QED
  BY <1>4, <1>5, <1>6 DEF Balanced, Settles

LEMMA CancelBalances ==
    ASSUME IInv, NEW n \in 1..Len(orders), CancelOrder(n)
    PROVE  Balanced
<1> DEFINE cancelled == [orders[n] EXCEPT !.status = "Cancelled"]
<1>1. Open(orders[n]) /\ Sound(orders[n]) /\ AllSound(orders)
  BY DEF CancelOrder, IInv, AllSound
<1>2. Sound(cancelled) /\ \A i : Brought(cancelled, i) = Brought(orders[n], i)
  BY <1>1, CancelledIsSound, CancelledBrings DEF Sound
<1>3. orders' = [orders EXCEPT ![n] = cancelled] /\ account' = account
  BY DEF CancelOrder
<1> HIDE DEF cancelled
<1>4. ASSUME NEW i \in Instruments
      PROVE  account'.held[i] = account.held[i] + Net(orders', i) - Net(orders, i)
  <2>1. Net(orders', i) = Net(orders, i) - Brought(orders[n], i) + Brought(cancelled, i)
    <3>1. Net([orders EXCEPT ![n] = cancelled], i)
            = Net(orders, i) - Brought(orders[n], i) + Brought(cancelled, i)
      BY <1>1, <1>2, NetOfReplace
    <3>2. QED
      BY <1>3, <3>1
  <2>2. Net(orders, i) \in Int /\ account.held[i] \in Int /\ Brought(orders[n], i) \in Int
    BY <1>1, NetType, BroughtType DEF IInv, TypeOK, Accounts
  <2>3. QED
    BY <1>2, <1>3, <2>1, <2>2
<1>5. RoundingApart(account, account')
  BY <1>3, SameIsApart DEF IInv, TypeOK
<1>6. QED
  BY <1>4, <1>5 DEF Balanced

LEMMA SnapshotBalances ==
    ASSUME IInv, NEW market \in Snapshots, OnMarketSnapshot(market)
    PROVE  Balanced
<1> DEFINE i == market.instrument
           order == ExitOrder(i)
           exit == FillOrder(account, order, market, Whole)
<1>1. account \in Accounts /\ AllSound(orders)
  BY DEF IInv, TypeOK
<1>2. CASE ~ProtectiveReason(market)
  BY <1>2, UnchangedIsBalanced DEF OnMarketSnapshot
<1>3. CASE ProtectiveReason(market)
  <2>1. account' = exit.account /\ orders' = Append(Withdrawn(i), exit.order)
    BY <1>3 DEF OnMarketSnapshot
  <2>2. Sound(exit.order)
    BY <1>1, <1>3, ExitSellsAll
  <2>3. Sound(order) /\ Open(order)
    <3>1. i \in Instruments /\ account.held[i] \in Nat
      BY <1>1, SimulationAssumption DEF SimulationAssumption, Accounts
    <3>2. QED
      BY <3>1, NewOrderIsSound DEF ExitOrder
  <2>4. \A j : Brought(order, j) = 0
    BY NewOrderBringsNothing DEF ExitOrder
  <2>5. Settles(account, order, exit.account, exit.order)
    <3>1. Whole \in 0..Whole
      BY SimulationAssumption DEF SimulationAssumption
    <3> HIDE DEF order
    <3>2. QED
      BY <1>1, <2>3, <3>1, FillOrderSettles
  <2>6. AllSound(Withdrawn(i))
    BY <1>1, WithdrawnSound
  <2> HIDE DEF exit, order
  <2>7. ASSUME NEW j \in Instruments
        PROVE  account'.held[j] = account.held[j] + Net(orders', j) - Net(orders, j)
    <3>1. Net(orders', j) = Net(orders, j) + Brought(exit.order, j)
      <4>1. Net(orders', j) = Net(Withdrawn(i), j) + Brought(exit.order, j)
        BY <2>1, <2>2, <2>6, NetOfAppend
      <4>2. QED
        BY <1>1, <4>1, NetOfWithdrawn
    <3>2. account'.held[j] = account.held[j] + Brought(exit.order, j) - 0
      BY <2>1, <2>4, <2>5 DEF Settles
    <3>3. Net(orders, j) \in Int /\ account.held[j] \in Int /\ Brought(exit.order, j) \in Int
      BY <1>1, <2>2, NetType, BroughtType DEF Accounts
    <3>4. QED
      BY <3>1, <3>2, <3>3
  <2>8. QED
    BY <2>1, <2>5, <2>7 DEF Balanced, Settles
<1>4. QED
  BY <1>2, <1>3

LEMMA VisitBalances ==
    ASSUME IInv, VisitOrder
    PROVE  Balanced
<1>1. /\ account \in Accounts /\ AllSound(orders) /\ model \in 0..Whole
      /\ visit.active /\ visit.market \in Snapshots
      /\ visit.todo \subseteq Resting(orders, visit.market.instrument)
  <2>1. /\ account \in Accounts /\ AllSound(orders) /\ model \in 0..Whole
        /\ visit.active /\ visit \in Visits /\ Visiting
    BY SimulationAssumption DEF SimulationAssumption, IInv, TypeOK, VisitOrder
  <2>2. visit \in [active : {TRUE}, market : Snapshots, exited : BOOLEAN, todo : SUBSET Nat]
    <3>1. ~NoVisit.active
      BY DEF NoVisit
    <3>2. QED
      BY <2>1, <3>1 DEF Visits
  <2>3. visit.market \in Snapshots
    BY <2>2
  <2>4. QED
    BY <2>1, <2>3 DEF Visiting
<1>2. PICK n \in visit.todo :
         IF LimitIsFillable(orders[n], visit.market)
         THEN LET result == FillOrder(account, orders[n], visit.market, model)
              IN  /\ account' = result.account
                  /\ orders' = [orders EXCEPT ![n] = result.order]
         ELSE UNCHANGED <<account, orders>>
  BY DEF VisitOrder
<1>3. n \in 1..Len(orders) /\ Sound(orders[n]) /\ Open(orders[n])
  BY <1>1 DEF Resting, AllSound
<1>4. CASE ~LimitIsFillable(orders[n], visit.market)
  BY <1>2, <1>4, UnchangedIsBalanced
<1>5. CASE LimitIsFillable(orders[n], visit.market)
  <2> DEFINE order == orders[n]
             result == FillOrder(account, order, visit.market, model)
  <2>1. account' = result.account /\ orders' = [orders EXCEPT ![n] = result.order]
    BY <1>2, <1>5
  <2> HIDE DEF order
  <2>2. Sound(result.order) /\ Settles(account, order, result.account, result.order)
    <3>1. Sound(order) /\ Open(order) /\ LimitIsFillable(order, visit.market)
      BY <1>3, <1>5 DEF order
    <3>2. QED
      BY <1>1, <3>1, FillOrderIsSound, FillOrderSettles
  <2> DEFINE filled == result.order
  <2>3. orders' = [orders EXCEPT ![n] = filled] /\ Sound(filled)
        /\ Settles(account, order, account', filled)
    BY <2>1, <2>2
  <2> HIDE DEF filled, result
  <2>4. ASSUME NEW i \in Instruments
        PROVE  account'.held[i] = account.held[i] + Net(orders', i) - Net(orders, i)
    <3>1. Net(orders', i) = Net(orders, i) - Brought(order, i) + Brought(filled, i)
      <4>1. Net([orders EXCEPT ![n] = filled], i)
              = Net(orders, i) - Brought(orders[n], i) + Brought(filled, i)
        <5>1. AllSound(orders) /\ n \in 1..Len(orders) /\ Sound(filled)
          BY <1>1, <1>3, <2>3
        <5>2. QED
          BY <5>1, NetOfReplace
      <4>2. QED
        BY <2>3, <4>1 DEF order
    <3>2. account'.held[i] = account.held[i] + Brought(filled, i) - Brought(order, i)
      BY <2>3 DEF Settles
    <3>3. /\ Net(orders, i) \in Int /\ account.held[i] \in Int
          /\ Brought(order, i) \in Int /\ Brought(filled, i) \in Int
      BY <1>1, <1>3, <2>3, NetType, BroughtType DEF Accounts, order
    <3>4. QED
      BY <3>1, <3>2, <3>3
  <2>5. QED
    BY <2>3, <2>4 DEF Balanced, Settles
<1>6. QED
  BY <1>4, <1>5

LEMMA NextBalances ==
    ASSUME IInv, [Next]_vars
    PROVE  Balanced
<1>1. CASE \E r \in Requests, market \in Snapshots : Execute(r, market)
  BY <1>1, ExecuteBalances
<1>2. CASE \E n \in 1..Len(orders) : CancelOrder(n)
  BY <1>2, CancelBalances
<1>3. CASE \E market \in Snapshots : OnMarketSnapshot(market)
  BY <1>3, SnapshotBalances
<1>4. CASE VisitOrder
  BY <1>4, VisitBalances
<1>5. CASE VisitEnds
  BY <1>5, UnchangedIsBalanced DEF VisitEnds
<1>6. CASE UNCHANGED vars
  BY <1>6, UnchangedIsBalanced DEF vars
<1>7. QED
  BY <1>1, <1>2, <1>3, <1>4, <1>5, <1>6 DEF Next
--------------------------------------------------------------------------------
(* The theorems *)

LEMMA Invariant == Spec => []IInv
<1>1. IInv /\ [Next]_vars => IInv'
  BY NextIInv
<1>2. QED
  BY InitIInv, <1>1, PTL DEF Spec

\* Cash, fees, holdings and averages are never negative, for any rates and prices
\* (ensure_full_fill_possible before apply_fill).
THEOREM TypeCorrect == Spec => []TypeOK
<1>1. IInv => TypeOK
  BY DEF IInv
<1>2. QED
  BY Invariant, <1>1, PTL

\* What fills and what remains add up, and Filled means that nothing remains.
THEOREM OrdersAlwaysAddUp == Spec => []OrdersAddUp
<1>1. IInv => OrdersAddUp
  BY DEF IInv, AllSound, Sound, AddsUp, OrdersAddUp
<1>2. QED
  BY Invariant, <1>1, PTL

\* No fill, at slipped prices or in parts, is beyond the order's limit.
THEOREM LimitsAlwaysKept == Spec => []LimitsAreKept
<1>1. IInv => LimitsAreKept
  BY DEF IInv, AllSound, Sound, KeepsLimit, LimitsAreKept
<1>2. QED
  BY Invariant, <1>1, PTL

\* A protective exit leaves neither a position nor an order to reopen it.
THEOREM ExitsStayFinal == Spec => []ExitsAreFinal
<1>1. IInv => ExitsAreFinal
  BY DEF IInv
<1>2. QED
  BY Invariant, <1>1, PTL

LEMMA ExplainedInvariant == Spec => [](IInv /\ Explained)
<1>1. Init => IInv /\ Explained
  BY InitIInv, InitExplained
<1>2. IInv /\ Explained /\ [Next]_vars => (IInv /\ Explained)'
  BY NextIInv, NextBalances, BalancedKeepsExplained
<1>3. QED
  BY <1>1, <1>2, PTL DEF Spec

\* For any prices, rates, fill models, exits and failures, a step makes or loses no
\* more money than the rounding of its one fill: the average that is stored is divided
\* from the cost and multiplied back (SimulatedAccount::apply_fill over every path
\* that reaches it).
THEOREM MoneyMovesByRounding == Spec => OnlyRoundingMovesMoney
<1>1. IInv /\ [Next]_vars => [RoundingApart(account, account')]_vars
  BY NextBalances DEF Balanced
<1>2. QED
  BY Invariant, <1>1, PTL DEF Spec, OnlyRoundingMovesMoney

\* The positions are what the orders on record bought and sold, however the calls that
\* made them ended.
THEOREM InventoryAlwaysExplained == Spec => []InventoryIsExplained
<1>1. IInv /\ Explained => InventoryIsExplained
  BY ExplainedIsTheProperty
<1>2. QED
  BY ExplainedInvariant, <1>1, PTL

\* No call changes an order that was filled or cancelled.
THEOREM FinalOrdersNeverChange == Spec => FinalOrdersStay
<1>1. IInv /\ [Next]_vars =>
        [\A n \in 1..Len(orders) : Open(orders[n]) \/ orders'[n] = orders[n]]_vars
  BY NextIInv DEF FinalKept
<1>2. QED
  BY Invariant, <1>1, PTL DEF Spec, FinalOrdersStay
================================================================================
