------------------------- MODULE MathLibrary_proofs -------------------------
(***************************************************************************)
(* The library procedures, for every prime and denominator: what field     *)
(* elements and pools amount to (BasketMath), then the properties of the   *)
(* round trip (RoundTrip) and of a pool's upkeep (Upkeep).                 *)
(***************************************************************************)
EXTENDS RoundTrip, Upkeep, NumberFacts

---------------------------------------------------------------------------
(* Arithmetic of field elements *)

LEMMA ModFacts ==
  ASSUME NEW a \in Nat
  PROVE  (a % Prime) \in FeltSet /\ (a % Prime) <= a
<1>1. (a % Prime) \in 0..(Prime - 1)
  BY PrimeAssumption
<1>2. a = Prime * (a \div Prime) + (a % Prime)
  BY PrimeAssumption
<1>3. a \div Prime \in Nat
  BY PrimeAssumption
<1>4. Prime * (a \div Prime) \in Nat
  BY <1>3, PrimeAssumption
<1>5. \A x, y \in Nat : a = x + y => y <= a
  OBVIOUS
<1>6. (a % Prime) \in Nat
  BY <1>1, PrimeAssumption
<1>7. (a % Prime) <= a
  BY <1>2, <1>4, <1>5, <1>6
<1> QED
  BY <1>1, <1>7 DEF FeltSet

\* A product in the field is a felt, and never more than the integer product.
LEMMA FeltMulFacts ==
  ASSUME NEW a \in Nat, NEW b \in Nat
  PROVE  FeltMul(a, b) \in FeltSet /\ FeltMul(a, b) <= a * b
<1>1. a * b \in Nat
  OBVIOUS
<1> QED
  BY <1>1, ModFacts DEF FeltMul

LEMMA FeltAddFacts ==
  ASSUME NEW a \in Nat, NEW b \in Nat
  PROVE  FeltAdd(a, b) \in FeltSet /\ FeltAdd(a, b) \in Nat /\ FeltAdd(a, b) <= a + b
<1>1. a + b \in Nat
  OBVIOUS
<1>2. FeltAdd(a, b) \in FeltSet /\ FeltAdd(a, b) <= a + b
  BY <1>1, ModFacts DEF FeltAdd
<1> QED
  BY <1>2, PrimeAssumption DEF FeltSet

\* A product that the field holds is exact.
LEMMA FeltMulExact ==
  ASSUME NEW a \in Nat, NEW b \in Nat, a * b < Prime
  PROVE  FeltMul(a, b) = a * b
<1>1. a * b \in 0..(Prime - 1)
  BY PrimeAssumption
<1>2. \A n \in 0..(Prime - 1) : n % Prime = n
  BY PrimeAssumption
<1> QED
  BY <1>1, <1>2 DEF FeltMul

LEMMA FeltSubExact ==
  ASSUME NEW a \in FeltSet, NEW b \in FeltSet
  PROVE  FeltSub(a, b) \in FeltSet /\ (b <= a => FeltSub(a, b) = a - b)
<1>1. (a - b) % Prime \in 0..(Prime - 1)
  BY PrimeAssumption DEF FeltSet
<1>2. \A n \in 0..(Prime - 1) : n % Prime = n
  BY PrimeAssumption
<1>3. b <= a => a - b \in 0..(Prime - 1)
  BY PrimeAssumption DEF FeltSet
<1> QED
  BY <1>1, <1>2, <1>3 DEF FeltSub, FeltSet

\* Felts are natural numbers, and the denominator is one of them.
LEMMA FeltNat ==
  /\ FeltSet \subseteq Nat
  /\ FEE_BPS_DENOMINATOR \in FeltSet
  /\ 0 \in FeltSet
BY PrimeAssumption, DenominatorAssumption DEF FeltSet

LEMMA FeltDivFacts ==
  ASSUME NEW a \in FeltSet, NEW b \in FeltSet, b # 0
  PROVE  felt_div(a, b) \in FeltSet /\ felt_div(a, b) * b <= a
<1>1. a \in Nat /\ b \in Nat /\ b > 0
  BY FeltNat
<1>2. a \div b \in Nat /\ (a \div b) * b <= a /\ a \div b <= a
  BY <1>1, DivFacts
<1> QED
  BY <1>1, <1>2, PrimeAssumption DEF felt_div, FeltSet

---------------------------------------------------------------------------
(* The value of a pool *)

\* Two to four constituents, each with two felts.
IsHeld(h) ==
  /\ Len(h) \in 2..4 /\ DOMAIN h = 1..Len(h)
  /\ \A i \in 1..Len(h) : h[i][1] \in FeltSet /\ h[i][2] \in FeltSet

\* Wrapping can only make a pool look smaller.
LEMMA ValueFacts ==
  ASSUME NEW h, IsHeld(h)
  PROVE  /\ value_of(h) \in FeltSet
         /\ Worth(h) \in Nat
         /\ value_of(h) <= Worth(h)
<1> DEFINE F(i) == FeltMul(h[i][1], h[i][2])
           E(i) == h[i][1] * h[i][2]
<1>1. /\ Len(h) \in 2..4 /\ DOMAIN h = 1..Len(h)
      /\ \A i \in 1..Len(h) : F(i) \in FeltSet /\ F(i) \in Nat /\ E(i) \in Nat /\ F(i) <= E(i)
  <2>1. ASSUME NEW i \in 1..Len(h)
        PROVE  F(i) \in FeltSet /\ F(i) \in Nat /\ E(i) \in Nat /\ F(i) <= E(i)
    <3>1. h[i][1] \in Nat /\ h[i][2] \in Nat
      BY FeltNat DEF IsHeld
    <3>2. F(i) \in FeltSet /\ F(i) <= E(i)
      BY <3>1, FeltMulFacts
    <3>3. E(i) \in Nat
      BY <3>1
    <3> QED
      BY <3>2, <3>3, FeltNat
  <2> QED
    BY <2>1 DEF IsHeld
<1>2. \A i \in 1..4 : Term(h, i) = IF i <= Len(h) THEN E(i) ELSE 0
  BY <1>1 DEF Term
<1>3. Worth(h) = Term(h, 1) + Term(h, 2) + Term(h, 3) + Term(h, 4)
  BY DEF Worth
<1>4. CASE Len(h) = 2
  <2>1. Worth(h) = E(1) + E(2)
    <3>1. Term(h, 1) = E(1) /\ Term(h, 2) = E(2) /\ Term(h, 3) = 0 /\ Term(h, 4) = 0
      BY <1>2, <1>4
    <3> HIDE DEF E
    <3> QED
      BY <1>1, <1>3, <1>4, <3>1
  <2>2. value_of(h) = FeltAdd(F(2), F(1))
    BY <1>4 DEF value_of, weighted_sum_2
  <2> DEFINE x == FeltAdd(F(2), F(1))
  <2> HIDE DEF E, F
  <2>3. F(1) \in Nat /\ F(2) \in Nat
    BY <1>1, <1>4
  <2>4. x \in FeltSet /\ x \in Nat /\ x <= F(2) + F(1)
    BY <2>3, FeltAddFacts
  <2>5. value_of(h) = x
    BY <2>2
  <2> HIDE DEF x
  <2> QED
    BY <1>1, <1>4, <2>1, <2>4, <2>5
<1>5. CASE Len(h) = 3
  <2>0. F(1) \in Nat /\ F(2) \in Nat /\ F(3) \in Nat
    BY <1>1, <1>5
  <2>1. Worth(h) = E(1) + E(2) + E(3)
    <3>1. Term(h, 1) = E(1) /\ Term(h, 2) = E(2) /\ Term(h, 3) = E(3) /\ Term(h, 4) = 0
      BY <1>2, <1>5
    <3> HIDE DEF E
    <3> QED
      BY <1>1, <1>3, <1>5, <3>1
  <2>2. value_of(h) = FeltAdd(FeltAdd(F(3), F(2)), F(1))
    BY <1>5 DEF value_of, weighted_sum_3
  <2> DEFINE x == FeltAdd(F(3), F(2))
             y == FeltAdd(x, F(1))
  <2> HIDE DEF E, F
  <2>3. x \in FeltSet /\ x \in Nat /\ x <= F(3) + F(2)
    BY <2>0, FeltAddFacts
  <2> HIDE DEF x
  <2>4. y \in FeltSet /\ y \in Nat /\ y <= x + F(1)
    BY <2>0, <2>3, FeltAddFacts
  <2>5. value_of(h) = y
    BY <2>2 DEF x
  <2> HIDE DEF y
  <2> QED
    BY <1>1, <1>5, <2>1, <2>3, <2>4, <2>5
<1>6. CASE Len(h) = 4
  <2>0. F(1) \in Nat /\ F(2) \in Nat /\ F(3) \in Nat /\ F(4) \in Nat
    BY <1>1, <1>6
  <2>1. Worth(h) = E(1) + E(2) + E(3) + E(4)
    <3>1. Term(h, 1) = E(1) /\ Term(h, 2) = E(2) /\ Term(h, 3) = E(3) /\ Term(h, 4) = E(4)
      BY <1>2, <1>6
    <3> HIDE DEF E
    <3> QED
      BY <1>1, <1>3, <1>6, <3>1
  <2>2. value_of(h) = FeltAdd(FeltAdd(FeltAdd(F(4), F(3)), F(2)), F(1))
    BY <1>6 DEF value_of, weighted_sum_4
  <2> DEFINE x == FeltAdd(F(4), F(3))
             y == FeltAdd(x, F(2))
             z == FeltAdd(y, F(1))
  <2> HIDE DEF E, F
  <2>3. x \in FeltSet /\ x \in Nat /\ x <= F(4) + F(3)
    BY <2>0, FeltAddFacts
  <2> HIDE DEF x
  <2>4. y \in FeltSet /\ y \in Nat /\ y <= x + F(2)
    BY <2>0, <2>3, FeltAddFacts
  <2> HIDE DEF y
  <2>5. z \in FeltSet /\ z \in Nat /\ z <= y + F(1)
    BY <2>0, <2>4, FeltAddFacts
  <2>6. value_of(h) = z
    BY <2>2 DEF x, y
  <2> HIDE DEF z
  <2> QED
    BY <1>1, <1>6, <2>1, <2>3, <2>4, <2>5, <2>6
<1>7. Len(h) = 2 \/ Len(h) = 3 \/ Len(h) = 4
  BY <1>1
<1> QED
  BY <1>4, <1>5, <1>6, <1>7

LEMMA FeltAddExact ==
  ASSUME NEW a \in Nat, NEW b \in Nat, a + b < Prime
  PROVE  FeltAdd(a, b) = a + b
<1>1. a + b \in 0..(Prime - 1)
  BY PrimeAssumption
<1>2. \A n \in 0..(Prime - 1) : n % Prime = n
  BY PrimeAssumption
<1> QED
  BY <1>1, <1>2 DEF FeltAdd

\* A pool that the field holds is valued exactly, whole and in its parts.
LEMMA ValueExact ==
  ASSUME NEW h, IsHeld(h), Worth(h) < Prime
  PROVE  /\ value_of(h) = Worth(h)
         /\ \A i \in 1..Len(h) : /\ h[i][1] * h[i][2] \in Nat
                                 /\ h[i][1] * h[i][2] <= Worth(h)
                                 /\ FeltMul(h[i][1], h[i][2]) = h[i][1] * h[i][2]
<1> DEFINE F(i) == FeltMul(h[i][1], h[i][2])
           E(i) == h[i][1] * h[i][2]
<1>1. /\ Len(h) \in 2..4 /\ DOMAIN h = 1..Len(h)
      /\ \A i \in 1..Len(h) : h[i][1] \in Nat /\ h[i][2] \in Nat
  BY FeltNat DEF IsHeld
<1>2. \A i \in 1..Len(h) : E(i) \in Nat
  BY <1>1
<1>3. \A i \in 1..4 : Term(h, i) = IF i <= Len(h) THEN E(i) ELSE 0
  BY <1>1 DEF Term
<1>4. Worth(h) = Term(h, 1) + Term(h, 2) + Term(h, 3) + Term(h, 4)
  BY DEF Worth
<1>5. Len(h) = 2 \/ Len(h) = 3 \/ Len(h) = 4
  BY <1>1
<1>6. \A i \in 1..Len(h) : E(i) <= Worth(h)
  <2> HIDE DEF E
  <2>1. \A i \in 1..4 : Term(h, i) \in Nat
    BY <1>1, <1>2, <1>3
  <2>2. ASSUME NEW i \in 1..Len(h)
        PROVE  i \in 1..4 /\ E(i) = Term(h, i)
    <3>1. i \in 1..4 /\ i <= Len(h)
      <4>1. \A n \in 2..4 : \A k \in 1..n : k \in 1..4 /\ k <= n
        OBVIOUS
      <4>2. Len(h) \in 2..4
        BY <1>1
      <4> QED
        BY <4>1, <4>2
    <3> QED
      BY <1>3, <3>1
  <2>3. \A i \in 1..4 : Term(h, i) <= Worth(h)
    BY <1>4, <2>1
  <2> QED
    BY <2>2, <2>3
<1>7. ASSUME NEW i \in 1..Len(h)
      PROVE  F(i) = E(i)
  <2>1. h[i][1] \in Nat /\ h[i][2] \in Nat /\ h[i][1] * h[i][2] < Prime
    <3>1. E(i) <= Worth(h) /\ E(i) \in Nat
      BY <1>2, <1>6
    <3>2. Worth(h) \in Nat
      BY ValueFacts
    <3> QED
      BY <1>1, <3>1, <3>2, PrimeAssumption
  <2> QED
    BY <2>1, FeltMulExact
<1>8. value_of(h) = Worth(h)
  <2>1. CASE Len(h) = 2
    <3>1. value_of(h) = FeltAdd(F(2), F(1))
      BY <2>1 DEF value_of, weighted_sum_2
    <3> HIDE DEF E, F
    <3>2. F(1) = E(1) /\ F(2) = E(2) /\ E(1) \in Nat /\ E(2) \in Nat
      BY <1>2, <1>7, <2>1
    <3>3. Worth(h) = E(2) + E(1)
      BY <1>3, <1>4, <2>1, <3>2
    <3> QED
      BY <3>1, <3>2, <3>3, FeltAddExact
  <2>2. CASE Len(h) = 3
    <3>1. value_of(h) = FeltAdd(FeltAdd(F(3), F(2)), F(1))
      BY <2>2 DEF value_of, weighted_sum_3
    <3> HIDE DEF E, F
    <3>2. /\ F(1) = E(1) /\ F(2) = E(2) /\ F(3) = E(3)
          /\ E(1) \in Nat /\ E(2) \in Nat /\ E(3) \in Nat
      BY <1>2, <1>7, <2>2
    <3>3. Worth(h) = E(3) + E(2) + E(1)
      BY <1>3, <1>4, <2>2, <3>2
    <3>4. FeltAdd(E(3), E(2)) = E(3) + E(2)
      BY <3>2, <3>3, FeltAddExact, PrimeAssumption
    <3> QED
      BY <3>1, <3>2, <3>3, <3>4, FeltAddExact
  <2>3. CASE Len(h) = 4
    <3>1. value_of(h) = FeltAdd(FeltAdd(FeltAdd(F(4), F(3)), F(2)), F(1))
      BY <2>3 DEF value_of, weighted_sum_4
    <3> HIDE DEF E, F
    <3>2. /\ F(1) = E(1) /\ F(2) = E(2) /\ F(3) = E(3) /\ F(4) = E(4)
          /\ E(1) \in Nat /\ E(2) \in Nat /\ E(3) \in Nat /\ E(4) \in Nat
      BY <1>2, <1>7, <2>3
    <3>3. Worth(h) = E(4) + E(3) + E(2) + E(1)
      BY <1>3, <1>4, <2>3, <3>2
    <3>4. FeltAdd(E(4), E(3)) = E(4) + E(3)
      BY <3>2, <3>3, FeltAddExact, PrimeAssumption
    <3>5. FeltAdd(E(4) + E(3), E(2)) = E(4) + E(3) + E(2)
      BY <3>2, <3>3, FeltAddExact, PrimeAssumption
    <3> QED
      BY <3>1, <3>2, <3>3, <3>4, <3>5, FeltAddExact
  <2> QED
    BY <1>5, <2>1, <2>2, <2>3
<1> QED
  BY <1>2, <1>6, <1>7, <1>8
---------------------------------------------------------------------------
(* The procedures that mint and redeem *)

LEMMA AfterFeeFacts ==
  ASSUME NEW v \in FeltSet, NEW f \in FeltSet
  PROVE  /\ AfterFee(v, f) \in FeltSet
         /\ f <= FEE_BPS_DENOMINATOR => AfterFee(v, f) <= v * FEE_BPS_DENOMINATOR
<1> DEFINE rest == FeltSub(FEE_BPS_DENOMINATOR, f)
<1>1. rest \in FeltSet
  BY FeltNat, FeltSubExact
<1>2. FeltMul(rest, v) \in FeltSet /\ FeltMul(rest, v) <= rest * v
  BY <1>1, FeltNat, FeltMulFacts
<1>3. ASSUME f <= FEE_BPS_DENOMINATOR
      PROVE  FeltMul(rest, v) <= v * FEE_BPS_DENOMINATOR
  <2>1. rest = FEE_BPS_DENOMINATOR - f
    BY <1>3, FeltNat, FeltSubExact
  <2>2. rest <= FEE_BPS_DENOMINATOR /\ rest \in Nat /\ FEE_BPS_DENOMINATOR \in Nat /\ v \in Nat
    BY <1>1, <2>1, FeltNat
  <2>3. rest * v <= FEE_BPS_DENOMINATOR * v
    BY <2>2, MulMono
  <2>4. FeltMul(rest, v) \in Nat
    BY <1>2, FeltNat
  <2> HIDE DEF rest
  <2> QED
    BY <1>2, <2>2, <2>3, <2>4
<1> QED
  BY <1>2, <1>3 DEF AfterFee

\* At the NAV used, the minted tokens are worth at most the deposit.
LEMMA StandardFacts ==
  ASSUME NEW d \in FeltSet, NEW f \in FeltSet, NEW s \in FeltSet, NEW n \in FeltSet,
         FeltMul(FEE_BPS_DENOMINATOR, n) # 0
  PROVE  /\ standard(d, f, s, n) \in FeltSet
         /\ f <= FEE_BPS_DENOMINATOR /\ FEE_BPS_DENOMINATOR * n < Prime
              => standard(d, f, s, n) * n <= d * s
<1> DEFINE B   == FEE_BPS_DENOMINATOR
           a   == AfterFee(d, f)
           num == FeltMul(a, s)
           div == FeltMul(B, n)
           m   == standard(d, f, s, n)
<1>1. B \in Nat /\ B > 0 /\ d \in Nat /\ s \in Nat /\ n \in Nat
  BY FeltNat, DenominatorAssumption
<1>2. a \in FeltSet /\ a \in Nat
  BY AfterFeeFacts, FeltNat
<1>3. num \in FeltSet /\ num \in Nat /\ num <= a * s
  BY <1>1, <1>2, FeltMulFacts, FeltNat
<1>4. div \in FeltSet /\ div \in Nat
  BY <1>1, FeltMulFacts, FeltNat
<1>5. m \in FeltSet /\ m \in Nat /\ m * div <= num
  BY <1>3, <1>4, FeltDivFacts, FeltNat DEF standard
<1>6. ASSUME f <= B, B * n < Prime
      PROVE  m * n <= d * s
  <2>1. a <= d * B
    BY <1>6, AfterFeeFacts
  <2>2. div = B * n
    BY <1>1, <1>6, FeltMulExact
  <2> HIDE DEF B, a, num, div, m
  <2>3. d * B \in Nat
    BY <1>1
  <2>4. a * s <= (d * B) * s
    BY <1>1, <1>2, <2>1, <2>3, MulMono
  <2>5. m * (B * n) <= (d * B) * s
    <3>1. m * (B * n) \in Nat /\ a * s \in Nat /\ (d * B) * s \in Nat
      BY <1>1, <1>2, <1>5
    <3> QED
      BY <1>3, <1>5, <2>2, <2>4, <3>1
  <2>6. m * (B * n) = (m * n) * B /\ (d * B) * s = (d * s) * B
    BY <1>1, <1>5
  <2>7. m * n \in Nat /\ d * s \in Nat
    BY <1>1, <1>5
  <2> QED
    BY <1>1, <2>5, <2>6, <2>7, MulCancel
<1> QED
  BY <1>5, <1>6

\* Where the field holds the documented numerator and divisor, so does every
\* step of the computation, and the mint is the documented quotient.
LEMMA StandardExact ==
  ASSUME NEW d \in FeltSet, NEW f \in FeltSet, NEW s \in FeltSet, NEW n \in FeltSet,
         s # 0, f <= FEE_BPS_DENOMINATOR,
         d * (FEE_BPS_DENOMINATOR - f) * s < Prime,
         FEE_BPS_DENOMINATOR * n < Prime
  PROVE  standard(d, f, s, n)
           = (d * (FEE_BPS_DENOMINATOR - f) * s) \div (FEE_BPS_DENOMINATOR * n)
<1> DEFINE B == FEE_BPS_DENOMINATOR
           r == B - f
<1>1. B \in Nat /\ B \in FeltSet /\ f \in Nat /\ d \in Nat /\ s \in Nat /\ s >= 1 /\ n \in Nat
  BY FeltNat
<1>2. r \in Nat /\ FeltSub(B, f) = r
  BY <1>1, FeltSubExact
<1> HIDE DEF r
<1>3. d * r \in Nat /\ r * d = d * r /\ (d * r) * s < Prime
  BY <1>1, <1>2 DEF r
<1>4. d * r <= (d * r) * s
  <2>1. 1 * (d * r) <= s * (d * r)
    BY <1>1, <1>3, MulMono
  <2> QED
    BY <1>1, <1>3, <2>1
<1>5. AfterFee(d, f) = d * r
  <2>1. r * d < Prime
    BY <1>1, <1>3, <1>4, PrimeAssumption
  <2> QED
    BY <1>1, <1>2, <1>3, <2>1, FeltMulExact DEF AfterFee
<1>6. FeltMul(d * r, s) = (d * r) * s
  BY <1>1, <1>3, FeltMulExact
<1>7. FeltMul(B, n) = B * n
  BY <1>1, FeltMulExact
<1> QED
  BY <1>5, <1>6, <1>7 DEF standard, felt_div, r

LEMMA RedeemFacts ==
  ASSUME NEW b \in FeltSet, NEW n \in FeltSet, NEW s \in FeltSet, s # 0
  PROVE  /\ redeem_value_usd(b, n, s) \in FeltSet
         /\ redeem_value_usd(b, n, s) * s <= b * n
<1>1. b \in Nat /\ n \in Nat /\ s \in Nat
  BY FeltNat
<1>2. FeltMul(b, n) \in FeltSet /\ FeltMul(b, n) <= b * n
  BY <1>1, FeltMulFacts
<1>3. /\ felt_div(FeltMul(b, n), s) \in FeltSet
      /\ felt_div(FeltMul(b, n), s) * s <= FeltMul(b, n)
  BY <1>2, FeltDivFacts
<1>4. \A x, y, z \in Nat : x <= y /\ y <= z => x <= z
  OBVIOUS
<1>5. FeltMul(b, n) \in Nat
  BY <1>2, FeltNat
<1>6. b * n \in Nat
  BY <1>1
<1>7. \A q \in Nat : q * s \in Nat
  BY <1>1
<1>8. felt_div(FeltMul(b, n), s) * s \in Nat
  BY <1>3, <1>7, FeltNat
<1> QED
  BY <1>2, <1>3, <1>4, <1>5, <1>6, <1>8 DEF redeem_value_usd

\* The split loses nothing: net value and fee add up to the value.
LEMMA SplitFacts ==
  ASSUME NEW v \in FeltSet, NEW f \in FeltSet
  PROVE  /\ deduct_bps_fee(v, f) \in FeltSet \X FeltSet
         /\ f <= FEE_BPS_DENOMINATOR => deduct_bps_fee(v, f)[1] + deduct_bps_fee(v, f)[2] = v
<1> DEFINE B   == FEE_BPS_DENOMINATOR
           a   == AfterFee(v, f)
           net == felt_div(a, B)
           fee == FeltSub(v, net)
<1>1. a \in FeltSet /\ B \in FeltSet /\ B # 0 /\ B \in Nat
  BY AfterFeeFacts, FeltNat, DenominatorAssumption
<1>2. net \in FeltSet /\ net * B <= a
  BY <1>1, FeltDivFacts
<1>3. fee \in FeltSet /\ (net <= v => fee = v - net)
  BY <1>2, FeltSubExact
<1>4. deduct_bps_fee(v, f) = <<net, fee>>
  BY DEF deduct_bps_fee
<1>5. ASSUME f <= B
      PROVE  net + fee = v
  <2>1. a <= v * B
    BY <1>5, AfterFeeFacts
  <2>2. net \in Nat /\ v \in Nat /\ a \in Nat
    BY <1>1, <1>2, FeltNat
  <2> HIDE DEF B, a, net, fee
  <2>3. net * B <= v * B
    <3>1. net * B \in Nat /\ v * B \in Nat
      BY <1>1, <2>2
    <3> QED
      BY <1>2, <2>1, <2>2, <3>1
  <2>4. net <= v
    BY <1>1, <2>2, <2>3, MulCancel
  <2> QED
    BY <1>3, <2>2, <2>4
<1> QED
  BY <1>2, <1>3, <1>4, <1>5

\* A constituent is released for at most its share of the net value.
LEMMA ReleaseFacts ==
  ASSUME NEW v \in FeltSet, NEW w \in FeltSet, NEW p \in FeltSet,
         FeltMul(FEE_BPS_DENOMINATOR, p) # 0
  PROVE  /\ release_amount(v, w, p) \in FeltSet
         /\ FEE_BPS_DENOMINATOR * p < Prime
              => (p * release_amount(v, w, p)) * FEE_BPS_DENOMINATOR <= v * w
<1> DEFINE B   == FEE_BPS_DENOMINATOR
           num == FeltMul(v, w)
           div == FeltMul(B, p)
           r   == release_amount(v, w, p)
<1>1. B \in Nat /\ v \in Nat /\ w \in Nat /\ p \in Nat
  BY FeltNat
<1>2. num \in FeltSet /\ num \in Nat /\ num <= v * w
  BY <1>1, FeltMulFacts, FeltNat
<1>3. div \in FeltSet /\ div \in Nat
  BY <1>1, FeltMulFacts, FeltNat
<1>4. r \in FeltSet /\ r \in Nat /\ r * div <= num
  BY <1>2, <1>3, FeltDivFacts, FeltNat DEF release_amount
<1>5. ASSUME B * p < Prime
      PROVE  (p * r) * B <= v * w
  <2>1. div = B * p
    BY <1>1, <1>5, FeltMulExact
  <2> HIDE DEF B, num, div, r
  <2>2. r * (B * p) = (p * r) * B
    BY <1>1, <1>4
  <2>3. (p * r) * B \in Nat /\ v * w \in Nat
    BY <1>1, <1>4
  <2> QED
    BY <1>2, <1>4, <2>1, <2>2, <2>3
<1> QED
  BY <1>4, <1>5

---------------------------------------------------------------------------
(* The value of a deposit *)

LEMMA HeldFacts ==
  ASSUME NEW h \in Deposits
  PROVE  /\ Len(h) \in 2..4
         /\ DOMAIN h = 1..Len(h)
         /\ \A i \in 1..Len(h) : h[i][1] \in FeltSet /\ h[i][2] \in FeltSet
         /\ IsHeld(h)
BY RoundTripAssumption DEF IsHeld

---------------------------------------------------------------------------
(* The inductive invariant: what the variables hold is what the procedures *)
(* returned, and no division was by zero.                                  *)

MintedBy ==
  phase # "deposit" /\ pool.supply # 0 =>
    /\ FeltMul(FEE_BPS_DENOMINATOR, pool.nav) # 0
    /\ minted = standard(value_of(pool.held), pool.mint_fee, pool.supply, pool.nav)

ValuedBy ==
  phase \in {"valued", "released"} =>
    /\ pool.supply # 0
    /\ gross = redeem_value_usd(burned, pool.nav, pool.supply)

ReleasedBy ==
  /\ phase # "released" => released = <<>>
  /\ phase = "released" => split = deduct_bps_fee(gross, pool.redeem_fee)
  /\ Len(released) <= Len(pool.held)
  /\ \A i \in 1..Len(released) :
       /\ FeltMul(FEE_BPS_DENOMINATOR, pool.held[i][1]) # 0
       /\ released[i] = release_amount(split[1], pool.weights[i], pool.held[i][1])

IInv ==
  /\ TypeOK
  /\ Len(pool.weights) = Len(pool.held)
  /\ MintedBy
  /\ ValuedBy
  /\ ReleasedBy

LEMMA PoolFacts ==
  ASSUME pool \in Pool
  PROVE  /\ pool.held \in Deposits /\ pool.weights \in Weightings
         /\ pool.supply \in FeltSet /\ pool.nav \in FeltSet
         /\ pool.mint_fee \in FeltSet /\ pool.redeem_fee \in FeltSet
BY RoundTripAssumption DEF Pool

LEMMA WeightFacts ==
  ASSUME NEW w \in Weightings
  PROVE  DOMAIN w = 1..Len(w) /\ Len(w) \in Nat /\ \A i \in 1..Len(w) : w[i] \in FeltSet
BY RoundTripAssumption

LEMMA InitInv == Init => IInv
<1> SUFFICES ASSUME Init PROVE IInv
  OBVIOUS
<1>1. pool \in Pool /\ Len(pool.weights) = Len(pool.held)
  BY DEF Init
<1>2. TypeOK
  BY <1>1, FeltNat DEF Init, TypeOK
<1>3. Len(pool.held) \in 2..4
  BY <1>1, PoolFacts, HeldFacts
<1> QED
  BY <1>1, <1>2, <1>3 DEF Init, IInv, MintedBy, ValuedBy, ReleasedBy

LEMMA NextInv == IInv /\ [Next]_vars => IInv'
<1> SUFFICES ASSUME IInv, [Next]_vars PROVE IInv'
  OBVIOUS
<1>1. /\ pool \in Pool /\ minted \in FeltSet /\ burned \in FeltSet /\ gross \in FeltSet
      /\ split \in FeltSet \X FeltSet /\ released \in Seq(FeltSet)
      /\ Len(pool.weights) = Len(pool.held)
  BY DEF IInv, TypeOK
<1>2. /\ pool.held \in Deposits /\ pool.weights \in Weightings
      /\ pool.supply \in FeltSet /\ pool.nav \in FeltSet
      /\ pool.mint_fee \in FeltSet /\ pool.redeem_fee \in FeltSet
  BY <1>1, PoolFacts
<1>3. value_of(pool.held) \in FeltSet
  BY <1>2, HeldFacts, ValueFacts
<1>4. CASE MintFirst
  <2>1. minted' \in FeltSet
    <3>1. AfterFee(value_of(pool.held), pool.mint_fee) \in FeltSet
      BY <1>2, <1>3, AfterFeeFacts
    <3> QED
      BY <1>4, <3>1, FeltNat, DenominatorAssumption, FeltDivFacts DEF MintFirst, par_value
  <2> QED
    BY <1>1, <1>4, <2>1 DEF MintFirst, IInv, TypeOK, MintedBy, ValuedBy, ReleasedBy
<1>5. CASE Mint
  <2>1. minted' = standard(value_of(pool.held), pool.mint_fee, pool.supply, pool.nav)
    BY <1>5 DEF Mint, mint_amount_for_asset_deposit
  <2>2. minted' \in FeltSet
    <3>1. FeltMul(FEE_BPS_DENOMINATOR, pool.nav) # 0
      BY <1>5 DEF Mint
    <3> QED
      BY <1>2, <1>3, <2>1, <3>1, StandardFacts
  <2> QED
    BY <1>1, <1>5, <2>1, <2>2 DEF Mint, IInv, TypeOK, MintedBy, ValuedBy, ReleasedBy
<1>6. ASSUME NEW k \in Parts, Redeem(minted \div k)
      PROVE  IInv'
  <2>1. burned' = minted \div k
    BY <1>6 DEF Redeem
  <2>2. minted \in Nat /\ k \in Nat /\ k > 0
    BY <1>1, FeltNat, RoundTripAssumption
  <2>3. minted \div k \in Nat /\ minted \div k <= minted
    BY <2>2, DivFacts
  <2>4. burned' \in FeltSet
    BY <1>1, <2>1, <2>3, PrimeAssumption DEF FeltSet
  <2>5. pool.supply # 0 /\ gross' = redeem_value_usd(burned', pool.nav, pool.supply)
    BY <1>6, <2>1 DEF Redeem
  <2>6. gross' \in FeltSet
    BY <1>2, <2>4, <2>5, RedeemFacts
  <2> QED
    BY <1>1, <1>6, <2>4, <2>5, <2>6
       DEF Redeem, IInv, TypeOK, MintedBy, ValuedBy, ReleasedBy
<1>7. CASE AccrueFee
  <2>1. split' = deduct_bps_fee(gross, pool.redeem_fee) /\ split' \in FeltSet \X FeltSet
    BY <1>1, <1>2, <1>7, SplitFacts DEF AccrueFee
  <2> QED
    BY <1>1, <1>7, <2>1 DEF AccrueFee, IInv, TypeOK, MintedBy, ValuedBy, ReleasedBy
<1>8. CASE Release
  <2> DEFINE i == Len(released) + 1
             p == pool.held[i][1]
             r == release_amount(split[1], pool.weights[i], p)
  <2>1. i \in 1..Len(pool.held) /\ FeltMul(FEE_BPS_DENOMINATOR, p) # 0
    BY <1>1, <1>8 DEF Release
  <2>2. split = deduct_bps_fee(gross, pool.redeem_fee)
    BY <1>8 DEF Release, IInv, ReleasedBy
  <2>3. released' = Append(released, r)
    BY <1>8, <2>2 DEF Release, release_amount_for_constituent
  <2>4. p \in FeltSet /\ pool.weights[i] \in FeltSet /\ split[1] \in FeltSet
    BY <1>1, <1>2, <2>1, HeldFacts, WeightFacts
  <2>5. r \in FeltSet
    BY <2>1, <2>4, ReleaseFacts
  <2> HIDE DEF r
  <2>6. /\ released' \in Seq(FeltSet) /\ Len(released') = i
        /\ \A j \in 1..Len(released) : released'[j] = released[j]
        /\ released'[i] = r
    BY <1>1, <2>3, <2>5
  <2>7. UNCHANGED <<pool, phase, minted, burned, gross, split>> /\ phase = "released"
    BY <1>8 DEF Release
  <2>8. TypeOK'
    BY <2>6, <2>7 DEF IInv, TypeOK, Pool
  <2>9. \A j \in 1..Len(released') :
          /\ FeltMul(FEE_BPS_DENOMINATOR, pool.held[j][1]) # 0
          /\ released'[j] = release_amount(split[1], pool.weights[j], pool.held[j][1])
    <3>1. TAKE j \in 1..Len(released')
    <3>2. j \in 1..Len(released) \/ j = i
      BY <1>1, <2>6
    <3>3. CASE j = i
      BY <2>1, <2>6, <3>3 DEF r
    <3>4. CASE j \in 1..Len(released)
      BY <2>6, <3>4 DEF IInv, ReleasedBy
    <3> QED
      BY <3>2, <3>3, <3>4
  <2>10. ReleasedBy'
    BY <2>1, <2>2, <2>6, <2>7, <2>9 DEF ReleasedBy
  <2> QED
    BY <2>7, <2>8, <2>10 DEF IInv, MintedBy, ValuedBy
<1>9. CASE UNCHANGED vars
  BY <1>9 DEF vars, IInv, TypeOK, Pool, MintedBy, ValuedBy, ReleasedBy
<1> QED
  BY <1>4, <1>5, <1>6, <1>7, <1>8, <1>9 DEF Next

\* What the variables hold is always what the procedures returned.
THEOREM TripInvariance == Spec => []IInv
BY InitInv, NextInv, PTL DEF Spec

\* Every amount is a field element, fees above 100 % and wrapped products
\* included.
THEOREM TripTypes == Spec => []TypeOK
<1>1. IInv => TypeOK
  BY DEF IInv
<1> QED
  BY <1>1, TripInvariance, PTL

---------------------------------------------------------------------------
(* What a round trip gains, mints and pays *)

\* (g * m) * s <= (b * n) * m = b * (m * n) <= b * (d * s), then s cancels.
LEMMA GainArithmetic ==
  ASSUME NEW g \in Nat, NEW m \in Nat, NEW s \in Nat, NEW b \in Nat, NEW n \in Nat,
         NEW d \in Nat, NEW w \in Nat,
         s > 0, g * s <= b * n, m * n <= d * s, d <= w
  PROVE  g * m <= w * b
<1>1. (g * s) * m <= (b * n) * m
  <2>1. g * s \in Nat /\ b * n \in Nat
    OBVIOUS
  <2> QED
    BY <2>1, MulMono
<1>2. (m * n) * b <= (d * s) * b
  <2>1. m * n \in Nat /\ d * s \in Nat
    OBVIOUS
  <2> QED
    BY <2>1, MulMono
<1>3. (g * s) * m = (g * m) * s /\ (b * n) * m = (m * n) * b /\ (d * s) * b = (d * b) * s
  OBVIOUS
<1>4. g * m \in Nat /\ d * b \in Nat /\ (m * n) * b \in Nat
  OBVIOUS
<1>5. (g * m) * s \in Nat /\ (d * b) * s \in Nat
  BY <1>4
<1>6. (g * m) * s <= (d * b) * s
  BY <1>1, <1>2, <1>3, <1>4, <1>5
<1>7. g * m <= d * b
  BY <1>4, <1>6, MulCancel
<1>8. d * b <= w * b /\ w * b \in Nat
  BY MulMono
<1> QED
  BY <1>4, <1>7, <1>8

\* Any part of the minted tokens is worth at most the same part of the deposit.
THEOREM TripGainsNothing == Spec => []NoGain
<1>1. IInv => NoGain
  <2> SUFFICES ASSUME IInv, phase \in {"valued", "released"}, MintFits
               PROVE  gross * minted <= Worth(pool.held) * burned
    BY DEF NoGain
  <2>1. /\ pool.held \in Deposits /\ pool.supply \in FeltSet /\ pool.nav \in FeltSet
        /\ pool.mint_fee \in FeltSet
    BY PoolFacts DEF IInv, TypeOK
  <2>2. minted \in FeltSet /\ burned \in FeltSet /\ gross \in FeltSet
    BY DEF IInv, TypeOK
  <2>3. pool.supply # 0 /\ gross = redeem_value_usd(burned, pool.nav, pool.supply)
    BY DEF IInv, ValuedBy
  <2>4. /\ FeltMul(FEE_BPS_DENOMINATOR, pool.nav) # 0
        /\ minted = standard(value_of(pool.held), pool.mint_fee, pool.supply, pool.nav)
    BY <2>3 DEF IInv, MintedBy
  <2>5. /\ value_of(pool.held) \in FeltSet /\ Worth(pool.held) \in Nat
        /\ value_of(pool.held) <= Worth(pool.held)
    BY <2>1, HeldFacts, ValueFacts
  <2>6. gross * pool.supply <= burned * pool.nav
    BY <2>1, <2>2, <2>3, RedeemFacts
  <2>7. minted * pool.nav <= value_of(pool.held) * pool.supply
    BY <2>1, <2>4, <2>5, StandardFacts DEF MintFits
  <2>8. gross \in Nat /\ minted \in Nat /\ burned \in Nat
    BY <2>2, FeltNat
  <2>9. pool.nav \in Nat /\ pool.supply \in Nat /\ pool.supply > 0
    <3>1. pool.nav \in Nat /\ pool.supply \in Nat
      BY <2>1, FeltNat
    <3>2. pool.supply # 0
      BY <2>3
    <3> QED
      BY <3>1, <3>2
  <2>10. value_of(pool.held) \in Nat
    BY <2>5, FeltNat
  <2> QED
    BY <2>5, <2>6, <2>7, <2>8, <2>9, <2>10, GainArithmetic
<1> QED
  BY <1>1, TripInvariance, PTL

\* Unless the whole deposit goes to the fee, it is valued without a wrap.
LEMMA HeldExact ==
  ASSUME IInv, MintHeld, pool.supply # 0, pool.mint_fee # FEE_BPS_DENOMINATOR
  PROVE  value_of(pool.held) = Worth(pool.held)
<1> DEFINE r == FEE_BPS_DENOMINATOR - pool.mint_fee
           w == Worth(pool.held)
           s == pool.supply
<1>1. /\ pool.held \in Deposits /\ pool.supply \in FeltSet /\ pool.mint_fee \in FeltSet
  BY PoolFacts DEF IInv, TypeOK
<1>2. IsHeld(pool.held) /\ w \in Nat
  BY <1>1, HeldFacts, ValueFacts
<1>3. r \in Nat /\ r >= 1 /\ s \in Nat /\ s >= 1 /\ w * r * s < Prime
  <2>1. pool.mint_fee \in Nat /\ FEE_BPS_DENOMINATOR \in Nat /\ s \in Nat
    BY <1>1, FeltNat
  <2>2. pool.mint_fee <= FEE_BPS_DENOMINATOR /\ w * r * s < Prime
    BY DEF MintHeld, MintFits
  <2>3. r \in Nat /\ r >= 1
    BY <2>1, <2>2
  <2> QED
    BY <2>1, <2>2, <2>3
<1> HIDE DEF r, w, s
<1>4. w * r \in Nat /\ w <= w * r
  <2>1. 1 * w <= r * w /\ r * w \in Nat
    BY <1>2, <1>3, MulMono
  <2> QED
    BY <1>2, <1>3, <2>1
<1>5. w * r <= w * r * s
  <2>1. 1 * (w * r) <= s * (w * r) /\ s * (w * r) \in Nat
    BY <1>3, <1>4, MulMono
  <2> QED
    BY <1>3, <1>4, <2>1
<1>6. w < Prime
  <2>1. w * r * s \in Nat
    BY <1>3, <1>4
  <2> QED
    BY <1>2, <1>3, <1>4, <1>5, <2>1, PrimeAssumption
<1> QED
  BY <1>2, <1>6, ValueExact DEF w

LEMMA ValueAfterFee ==
  ASSUME IInv, MintHeld, pool.supply # 0
  PROVE  value_of(pool.held) * (FEE_BPS_DENOMINATOR - pool.mint_fee)
           = Worth(pool.held) * (FEE_BPS_DENOMINATOR - pool.mint_fee)
<1>1. CASE pool.mint_fee = FEE_BPS_DENOMINATOR
  <2>1. FEE_BPS_DENOMINATOR - pool.mint_fee = 0
    BY <1>1, FeltNat
  <2>2. value_of(pool.held) \in Nat /\ Worth(pool.held) \in Nat
    <3>1. pool.held \in Deposits
      BY PoolFacts DEF IInv, TypeOK
    <3> QED
      BY <3>1, HeldFacts, ValueFacts, FeltNat
  <2> QED
    BY <2>1, <2>2
<1>2. CASE pool.mint_fee # FEE_BPS_DENOMINATOR
  BY <1>2, HeldExact
<1> QED
  BY <1>1, <1>2

\* Where MintHeld, the tokens minted are the quotient of the real worth.
LEMMA MintExact ==
  ASSUME IInv, MintHeld, phase # "deposit", pool.supply # 0
  PROVE  minted = (Worth(pool.held) * (FEE_BPS_DENOMINATOR - pool.mint_fee) * pool.supply)
                    \div (FEE_BPS_DENOMINATOR * pool.nav)
<1> DEFINE v == value_of(pool.held)
           w == Worth(pool.held)
           r == FEE_BPS_DENOMINATOR - pool.mint_fee
<1>1. /\ pool.held \in Deposits /\ pool.supply \in FeltSet /\ pool.nav \in FeltSet
      /\ pool.mint_fee \in FeltSet
  BY PoolFacts DEF IInv, TypeOK
<1>2. v \in FeltSet
  BY <1>1, HeldFacts, ValueFacts
<1>3. v * r = w * r
  BY ValueAfterFee
<1>4. v * r * pool.supply < Prime
  BY <1>3 DEF MintHeld, MintFits
<1>5. minted = standard(v, pool.mint_fee, pool.supply, pool.nav)
  BY DEF IInv, MintedBy
<1>6. minted = (v * r * pool.supply) \div (FEE_BPS_DENOMINATOR * pool.nav)
  BY <1>1, <1>2, <1>4, <1>5, StandardExact DEF MintHeld, MintFits
<1> QED
  BY <1>3, <1>6

\* The complement of the counterexample to MintAsDocumented: where the field
\* holds the documented numerator and divisor, the mint is as documented.
THEOREM UnwrappedMintsDocumented == Spec => [](MintHeld => MintAsDocumented)
<1>1. IInv => (MintHeld => MintAsDocumented)
  <2> SUFFICES ASSUME IInv, MintHeld, phase = "minted", pool.supply # 0,
                      pool.mint_fee <= FEE_BPS_DENOMINATOR
               PROVE  minted = (value_of(pool.held) * (FEE_BPS_DENOMINATOR - pool.mint_fee)
                                  * pool.supply) \div (FEE_BPS_DENOMINATOR * pool.nav)
    BY DEF MintAsDocumented
  <2>1. value_of(pool.held) * (FEE_BPS_DENOMINATOR - pool.mint_fee)
          = Worth(pool.held) * (FEE_BPS_DENOMINATOR - pool.mint_fee)
    BY ValueAfterFee
  <2> QED
    BY <2>1, MintExact
<1> QED
  BY <1>1, TripInvariance, PTL

\* What one truncation loses is less than its divisor, so the numerators of mint
\* and redemption are recovered to within B * n and B * s.
LEMMA DustArithmetic ==
  ASSUME NEW N \in Nat, NEW B \in Nat, NEW n \in Nat, NEW s \in Nat, NEW m \in Nat,
         NEW g \in Nat, N < (m + 1) * (B * n), m * n < (g + 1) * s
  PROVE  N < B * ((g + 1) * s + n)
<1>1. m * n \in Nat /\ (g + 1) * s \in Nat
  OBVIOUS
<1> DEFINE a == m * n
           b == (g + 1) * s
<1>2. (m + 1) * (B * n) = B * a + B * n
  OBVIOUS
<1>3. B * (b + n) = B * b + B * n
  BY <1>1
<1>4. a \in Nat /\ b \in Nat /\ a <= b
  BY <1>1
<1> HIDE DEF a, b
<1>5. B * a <= B * b /\ B * a \in Nat /\ B * b \in Nat /\ B * n \in Nat
  <2>1. a * B <= b * B
    BY <1>4, MulMono
  <2> QED
    BY <1>4, <2>1
<1>6. N < B * (b + n)
  BY <1>2, <1>3, <1>5
<1> QED
  BY <1>6 DEF b

\* Going in and out costs the fee, a unit of value and the value of one token
\* at most, as far as the field holds the operands.
THEOREM TripLosesAtMostDust == Spec => []LosesAtMostDust
<1>1. IInv => LosesAtMostDust
  <2> DEFINE B == FEE_BPS_DENOMINATOR
             n == pool.nav
             s == pool.supply
             N == Worth(pool.held) * (B - pool.mint_fee) * s
  <2> SUFFICES ASSUME IInv, phase \in {"valued", "released"}, burned = minted, MintHeld
               PROVE  N < B * ((gross + 1) * s + n)
    BY DEF LosesAtMostDust
  <2>1. /\ pool.held \in Deposits /\ s \in FeltSet /\ n \in FeltSet
        /\ pool.mint_fee \in FeltSet
    BY PoolFacts DEF IInv, TypeOK
  <2>2. minted \in Nat /\ gross \in Nat /\ B \in Nat /\ s \in Nat /\ n \in Nat
    BY <2>1, FeltNat DEF IInv, TypeOK
  <2>3. s # 0 /\ gross = redeem_value_usd(minted, n, s)
    BY DEF IInv, ValuedBy
  <2>4. minted = N \div (B * n)
    BY <2>3, MintExact
  <2>5. N \in Nat /\ N < Prime
    <3>1. Worth(pool.held) \in Nat
      BY <2>1, HeldFacts, ValueFacts
    <3>2. pool.mint_fee \in Nat /\ pool.mint_fee <= B
      BY <2>1, FeltNat DEF MintHeld, MintFits
    <3>3. B - pool.mint_fee \in Nat
      BY <2>2, <3>2
    <3>4. Worth(pool.held) * (B - pool.mint_fee) \in Nat
      BY <3>1, <3>3
    <3>5. N \in Nat
      BY <2>2, <3>4
    <3> QED
      BY <3>5 DEF MintHeld, MintFits
  <2>6. FeltMul(B, n) # 0 /\ B * n < Prime
    BY <2>3 DEF IInv, MintedBy, MintHeld, MintFits
  <2>7. B * n \in Nat /\ B * n > 0
    <3>1. B * n \in Nat /\ FeltMul(B, n) = B * n
      BY <2>2, <2>6, FeltMulExact
    <3> QED
      BY <2>6, <3>1
  <2> HIDE DEF N, B, n, s
  <2>8. minted * (B * n) <= N /\ N < (minted + 1) * (B * n)
    BY <2>4, <2>5, <2>7, DivFacts, DivAbove
  <2>9. minted * n < Prime /\ minted * n \in Nat
    <3>1. B >= 1
      BY <2>2, DenominatorAssumption DEF B
    <3>2. minted * n \in Nat
      BY <2>2
    <3>3. 1 * (minted * n) <= B * (minted * n) /\ B * (minted * n) = minted * (B * n)
      BY <2>2, <3>1, <3>2, MulMono
    <3>4. minted * (B * n) \in Nat
      BY <2>2, <2>7
    <3> QED
      BY <2>5, <2>8, <3>2, <3>3, <3>4, PrimeAssumption
  <2>10. gross = (minted * n) \div s
    BY <2>2, <2>3, <2>9, FeltMulExact DEF redeem_value_usd, felt_div
  <2>11. minted * n < (gross + 1) * s
    BY <2>2, <2>3, <2>9, <2>10, DivAbove
  <2> QED
    BY <2>2, <2>5, <2>8, <2>11, DustArithmetic DEF N
<1> QED
  BY <1>1, TripInvariance, PTL

\* Four shares of a value v, each at most v * w, are together at most v.
LEMMA ShareArithmetic ==
  ASSUME NEW v \in Nat, NEW B \in Nat, B > 0,
         NEW w1 \in Nat, NEW w2 \in Nat, NEW w3 \in Nat, NEW w4 \in Nat,
         NEW t1 \in Nat, NEW t2 \in Nat, NEW t3 \in Nat, NEW t4 \in Nat,
         t1 * B <= v * w1, t2 * B <= v * w2, t3 * B <= v * w3, t4 * B <= v * w4,
         w1 + w2 + w3 + w4 <= B
  PROVE  t1 + t2 + t3 + t4 <= v
<1> DEFINE t == t1 + t2 + t3 + t4
           w == w1 + w2 + w3 + w4
<1>1. t * B = t1 * B + t2 * B + t3 * B + t4 * B /\ t \in Nat
  OBVIOUS
<1>2. v * w = v * w1 + v * w2 + v * w3 + v * w4 /\ w \in Nat
  OBVIOUS
<1>3. t * B <= v * w
  <2>1. /\ t1 * B \in Nat /\ t2 * B \in Nat /\ t3 * B \in Nat /\ t4 * B \in Nat
        /\ v * w1 \in Nat /\ v * w2 \in Nat /\ v * w3 \in Nat /\ v * w4 \in Nat
    OBVIOUS
  <2> HIDE DEF t, w
  <2> QED
    BY <1>1, <1>2, <2>1
<1>4. w * v <= B * v
  BY <1>2, MulMono
<1> HIDE DEF t, w
<1>5. w * v = v * w /\ B * v = v * B /\ t * B \in Nat /\ v * w \in Nat /\ v * B \in Nat
  BY <1>1, <1>2
<1>6. t * B <= v * B
  BY <1>3, <1>4, <1>5
<1>7. t <= v
  BY <1>1, <1>6, MulCancel
<1> QED
  BY <1>7 DEF t

\* The fee and everything released stay within the value of the burned tokens.
THEOREM TripPaysWithinGross == Spec => []PaidWithinGross
<1>1. IInv => PaidWithinGross
  <2> DEFINE out  == [i \in DOMAIN released |-> <<pool.held[i][1], released[i]>>]
             T(i) == Term(out, i)
             B    == FEE_BPS_DENOMINATOR
             net  == split[1]
             fee  == split[2]
  <2> SUFFICES ASSUME IInv, phase = "released", ReleaseFits
               PROVE  fee + Worth(out) <= gross
    BY DEF PaidWithinGross
  <2>1. /\ pool.held \in Deposits /\ pool.weights \in Weightings
        /\ pool.redeem_fee \in FeltSet
    BY PoolFacts DEF IInv, TypeOK
  <2>2. /\ gross \in FeltSet /\ net \in FeltSet /\ fee \in FeltSet
        /\ released \in Seq(FeltSet)
    BY DEF IInv, TypeOK
  <2>3. net + fee = gross
    BY <2>1, <2>2, SplitFacts DEF IInv, ReleasedBy, ReleaseFits
  <2>4. DOMAIN released = 1..Len(released) /\ Len(released) \in Nat
        /\ Len(released) <= Len(pool.held) /\ Len(pool.weights) = Len(pool.held)
    BY <2>2 DEF IInv, ReleasedBy
  <2>5. /\ DOMAIN pool.held = 1..Len(pool.held) /\ Len(pool.held) \in 2..4
        /\ DOMAIN pool.weights = 1..Len(pool.weights)
    BY <2>1, HeldFacts, WeightFacts
  <2>6. ASSUME NEW i \in 1..4
        PROVE  T(i) \in Nat /\ Weight(i) \in Nat /\ T(i) * B <= net * Weight(i)
    <3>1. net \in Nat /\ B \in Nat
      BY <2>2, FeltNat
    <3>2. Weight(i) \in Nat
      BY <2>1, <2>5, WeightFacts, FeltNat DEF Weight
    <3>3. CASE i \in 1..Len(released)
      <4> DEFINE p == pool.held[i][1]
                 r == release_amount(net, pool.weights[i], p)
      <4>1. i \in 1..Len(pool.held) /\ i \in 1..Len(pool.weights)
        BY <2>4, <2>5, <3>3
      <4>2. p \in FeltSet /\ pool.weights[i] \in FeltSet
        BY <2>1, <4>1, HeldFacts, WeightFacts
      <4>3. FeltMul(B, p) # 0 /\ released[i] = r
        BY <3>3 DEF IInv, ReleasedBy
      <4>4. B * p < Prime
        BY <2>5, <4>1 DEF ReleaseFits
      <4>5. r \in FeltSet /\ (p * r) * B <= net * pool.weights[i]
        BY <2>2, <4>2, <4>3, <4>4, ReleaseFacts
      <4>6. T(i) = p * r
        BY <2>4, <3>3, <4>3 DEF Term
      <4>7. Weight(i) = pool.weights[i]
        BY <2>5, <4>1 DEF Weight
      <4>8. p \in Nat /\ r \in Nat
        BY <4>2, <4>5, FeltNat
      <4> HIDE DEF p, r
      <4>9. p * r \in Nat
        BY <4>8
      <4> QED
        BY <3>2, <4>5, <4>6, <4>7, <4>9
    <3>4. CASE i \notin 1..Len(released)
      <4>1. T(i) = 0
        BY <2>4, <3>4 DEF Term
      <4>2. 0 * B <= net * Weight(i)
        BY <3>1, <3>2
      <4> QED
        BY <3>2, <4>1, <4>2
    <3> QED
      BY <3>3, <3>4
  <2>7. Worth(out) = T(1) + T(2) + T(3) + T(4)
    BY DEF Worth
  <2>8. Weight(1) + Weight(2) + Weight(3) + Weight(4) <= B
    BY DEF ReleaseFits
  <2>9. net \in Nat /\ B \in Nat /\ B > 0 /\ fee \in Nat /\ gross \in Nat
    <3>1. B \in Nat /\ B > 0
      BY DenominatorAssumption
    <3>2. gross \in Nat
      BY <2>2, FeltNat
    <3> HIDE DEF B, net, fee
    <3>3. net \in Nat /\ fee \in Nat
      BY <2>2, FeltNat
    <3> QED
      BY <3>1, <3>2, <3>3
  <2>10. T(1) + T(2) + T(3) + T(4) <= net
    <3> HIDE DEF T, B, net
    <3>1. /\ T(1) \in Nat /\ Weight(1) \in Nat /\ T(1) * B <= net * Weight(1)
          /\ T(2) \in Nat /\ Weight(2) \in Nat /\ T(2) * B <= net * Weight(2)
          /\ T(3) \in Nat /\ Weight(3) \in Nat /\ T(3) * B <= net * Weight(3)
          /\ T(4) \in Nat /\ Weight(4) \in Nat /\ T(4) * B <= net * Weight(4)
      BY <2>6
    <3> QED
      BY <2>8, <2>9, <3>1, ShareArithmetic
  <2>11. T(1) \in Nat /\ T(2) \in Nat /\ T(3) \in Nat /\ T(4) \in Nat
    BY <2>6
  <2> HIDE DEF T, B, net, fee, out
  <2> QED
    BY <2>3, <2>7, <2>9, <2>10, <2>11
<1> QED
  BY <1>1, TripInvariance, PTL
---------------------------------------------------------------------------
(* The accrual *)

LEMMA Constants ==
  /\ FEE_BPS_DENOMINATOR \in Nat /\ blocks_per_year \in Nat /\ fee_bps_year \in Nat
  /\ Threshold \in Nat /\ MaxBlock \in Nat /\ Values \subseteq Nat
  /\ FeltMul(blocks_per_year, FEE_BPS_DENOMINATOR) = FEE_BPS_DENOMINATOR * blocks_per_year
  /\ FEE_BPS_DENOMINATOR * blocks_per_year \in Nat
  /\ FEE_BPS_DENOMINATOR * blocks_per_year > 0
<1>1. /\ FEE_BPS_DENOMINATOR \in Nat /\ blocks_per_year \in Nat /\ fee_bps_year \in Nat
      /\ Threshold \in Nat /\ MaxBlock \in Nat /\ Values \subseteq Nat
      /\ FEE_BPS_DENOMINATOR > 0 /\ blocks_per_year > 0
  <2>1. fee_bps_year \in FeltSet /\ Threshold \in FeltSet /\ MaxBlock \in FeltSet
        /\ blocks_per_year \in FeltSet /\ blocks_per_year # 0 /\ Values \subseteq FeltSet
    BY UpkeepAssumption
  <2>2. FEE_BPS_DENOMINATOR \in Nat /\ FEE_BPS_DENOMINATOR > 0
    BY DenominatorAssumption
  <2>3. blocks_per_year \in Nat /\ blocks_per_year > 0
    BY <2>1, FeltNat
  <2> QED
    BY <2>1, <2>2, <2>3, FeltNat
<1>2. blocks_per_year * FEE_BPS_DENOMINATOR = FEE_BPS_DENOMINATOR * blocks_per_year
  BY <1>1
<1>3. FeltMul(blocks_per_year, FEE_BPS_DENOMINATOR) = blocks_per_year * FEE_BPS_DENOMINATOR
  BY <1>1, <1>2, UpkeepAssumption, FeltMulExact
<1>4. FEE_BPS_DENOMINATOR * blocks_per_year > 0
  BY <1>1
<1> QED
  BY <1>1, <1>2, <1>3, <1>4

\* The divisor of every accrual.
Year == FEE_BPS_DENOMINATOR * blocks_per_year

\* One accrual never exceeds what is due, and without a wrap it falls short of
\* it by less than one unit.
LEMMA AccrueFacts ==
  ASSUME NEW b \in Nat, NEW v \in Nat
  PROVE  LET d == accrue_management(b, v, fee_bps_year, blocks_per_year)
         IN /\ d \in Nat
            /\ d * Year <= b * v * fee_bps_year
            /\ b * v * fee_bps_year < Prime => b * v * fee_bps_year <= (d + 1) * Year
<1> DEFINE f == fee_bps_year
           x == FeltMul(b, v)
           n == FeltMul(x, f)
           d == accrue_management(b, v, f, blocks_per_year)
<1>1. f \in Nat /\ Year \in Nat /\ Year > 0
  BY Constants DEF Year
<1>2. x \in Nat /\ x <= b * v /\ b * v \in Nat
  <2>1. x \in FeltSet /\ x <= b * v
    BY FeltMulFacts
  <2>2. b * v \in Nat
    OBVIOUS
  <2> QED
    BY <2>1, <2>2, FeltNat
<1>3. n \in Nat /\ n <= x * f
  BY <1>1, <1>2, FeltMulFacts, FeltNat
<1>4. d = n \div Year
  BY Constants DEF accrue_management, felt_div, Year
<1>5. d \in Nat /\ d * Year <= n /\ n < (d + 1) * Year
  BY <1>1, <1>3, <1>4, DivFacts, DivAbove
<1>6. x * f <= b * v * f
  BY <1>1, <1>2, MulMono
<1>7. x * f \in Nat /\ b * v * f \in Nat
  BY <1>1, <1>2
<1>8. ASSUME b * v * f < Prime
      PROVE  n = b * v * f
  <2>1. CASE f = 0
    <3>1. b * v * f = 0 /\ x * f = 0
      BY <1>2, <2>1
    <3> QED
      BY <1>3, <3>1
  <2>2. CASE f > 0
    <3>1. b * v <= b * v * f
      BY <1>1, <1>2, <2>2
    <3>2. b * v < Prime
      BY <1>2, <1>7, <1>8, <3>1, PrimeAssumption
    <3>3. x = b * v
      BY <3>2, FeltMulExact
    <3> QED
      BY <1>1, <1>2, <1>8, <3>3, FeltMulExact
  <2> QED
    BY <1>1, <2>1, <2>2
<1>9. (d + 1) * Year \in Nat /\ d * Year \in Nat
  BY <1>1, <1>5
<1> HIDE DEF x, n, d, f
<1>10. d * Year <= b * v * f
  BY <1>3, <1>5, <1>6, <1>7, <1>9
<1>11. b * v * f < Prime => b * v * f <= (d + 1) * Year
  BY <1>5, <1>7, <1>8, <1>9
<1> QED
  BY <1>5, <1>10, <1>11 DEF d, f

---------------------------------------------------------------------------
(* The drift *)

\* Between two integers n and w*W that differ by less than W, the distances to
\* t*W and to t on either side of the threshold T agree.
LEMMA Distances ==
  ASSUME NEW n \in Nat, NEW w \in Nat, NEW W \in Nat, NEW t \in Nat, NEW T \in Nat,
         W > 0, w * W <= n, n < (w + 1) * W
  PROVE  /\ t + T < w => n - t * W > T * W
         /\ w + T < t => - (n - t * W) > T * W
         /\ t <= w /\ w <= t + T =>
              - (n - t * W) < (T + 1) * W /\ n - t * W < (T + 1) * W
         /\ w <= t /\ t <= w + T =>
              - (n - t * W) < (T + 1) * W /\ n - t * W < (T + 1) * W
<1>0. /\ w * W \in Nat /\ t * W \in Nat /\ T * W \in Nat
      /\ (w + 1) * W = w * W + W /\ (T + 1) * W = T * W + W
      /\ (t + T) * W = t * W + T * W /\ (w + T) * W = w * W + T * W
  OBVIOUS
<1> DEFINE a == w * W
           b == t * W
           c == T * W
<1>1. ASSUME t + T < w
      PROVE  b + c + W <= a
  <2>1. t + T + 1 <= w
    BY <1>1
  <2>2. (t + T + 1) * W <= w * W
    BY <2>1, MulMono
  <2>3. (t + T + 1) * W = b + c + W
    OBVIOUS
  <2> QED
    BY <2>2, <2>3
<1>2. ASSUME w + T < t
      PROVE  a + c + W <= b
  <2>1. w + T + 1 <= t
    BY <1>2
  <2>2. (w + T + 1) * W <= t * W
    BY <2>1, MulMono
  <2>3. (w + T + 1) * W = a + c + W
    OBVIOUS
  <2> QED
    BY <2>2, <2>3
<1>3. ASSUME t <= w, w <= t + T
      PROVE  b <= a /\ a <= b + c
  <2>1. t * W <= w * W /\ w * W <= (t + T) * W
    BY <1>3, MulMono
  <2> QED
    BY <1>0, <2>1
<1>4. ASSUME w <= t, t <= w + T
      PROVE  a <= b /\ b <= a + c
  <2>1. w * W <= t * W /\ t * W <= (w + T) * W
    BY <1>4, MulMono
  <2> QED
    BY <1>0, <2>1
<1>5. /\ a \in Nat /\ b \in Nat /\ c \in Nat /\ a <= n /\ n < a + W
      /\ t * W = b /\ T * W = c /\ (T + 1) * W = c + W
  BY <1>0
<1> HIDE DEF a, b, c
<1> QED
  BY <1>1, <1>2, <1>3, <1>4, <1>5

LEMMA HoldingsHeld ==
  ASSUME NEW h \in Holdings
  PROVE  IsHeld(h)
<1>1. h \in Seq(FeltSet \X FeltSet) /\ Len(h) \in 2..4
  BY UpkeepAssumption
<1>2. DOMAIN h = 1..Len(h) /\ \A i \in 1..Len(h) : h[i] \in FeltSet \X FeltSet
  BY <1>1
<1> QED
  BY <1>1, <1>2 DEF IsHeld

\* What one check of one constituent says of its exact weight.
LEMMA OneConstituent ==
  ASSUME NEW h \in Holdings, NEW i \in 1..Len(h),
         value_of(h) # 0, Worth(h) * FEE_BPS_DENOMINATOR < Prime
  PROVE  LET off == h[i][1] * h[i][2] * FEE_BPS_DENOMINATOR - Targets[i] * Worth(h)
         IN IF i \in Adrift(h)
            THEN off > Threshold * Worth(h) \/ - off > Threshold * Worth(h)
            ELSE - off < (Threshold + 1) * Worth(h) /\ off < (Threshold + 1) * Worth(h)
<1> DEFINE W == Worth(h)
           D == FEE_BPS_DENOMINATOR
           e == h[i][1] * h[i][2]
           n == e * D
           w == constituent_weight_bps(h[i][1], h[i][2], value_of(h))
           t == Targets[i]
           T == Threshold
           drift == abs_drift_bps(w, t)
<1>1. IsHeld(h) /\ W \in Nat
  BY HoldingsHeld, ValueFacts
<1>2. D \in Nat /\ D > 0 /\ T \in FeltSet /\ T \in Nat /\ t \in FeltSet /\ t \in Nat
  <2>1. i \in 1..4
    BY <1>1 DEF IsHeld
  <2>2. t \in FeltSet /\ T \in FeltSet
    BY <2>1, UpkeepAssumption
  <2>3. D \in Nat /\ D > 0
    BY DenominatorAssumption
  <2>4. t \in Nat /\ T \in Nat
    BY <2>2, FeltNat
  <2> HIDE DEF t, T, D
  <2> QED
    BY <2>2, <2>3, <2>4
<1>3. W * D \in Nat /\ W <= W * D /\ W < Prime
  <2>1. W * 1 <= W * D /\ W * D \in Nat
    BY <1>1, <1>2
  <2> QED
    BY <1>1, <2>1, PrimeAssumption
<1>4. value_of(h) = W /\ e \in Nat /\ e <= W /\ FeltMul(h[i][1], h[i][2]) = e
  BY <1>1, <1>3, ValueExact
<1>5. n \in Nat /\ n < Prime
  <2>1. n <= W * D /\ n \in Nat
    BY <1>1, <1>2, <1>4, MulMono
  <2> QED
    BY <1>3, <2>1, PrimeAssumption
<1>6. w = n \div W /\ W > 0
  <2>1. FeltMul(e, D) = n
    BY <1>2, <1>4, <1>5, FeltMulExact
  <2> QED
    BY <1>1, <1>4, <2>1 DEF constituent_weight_bps, felt_div
<1>7. w \in Nat /\ w <= n /\ w * W <= n /\ n < (w + 1) * W
  BY <1>1, <1>5, <1>6, DivFacts, DivAbove
<1>8. w \in FeltSet
  BY <1>5, <1>7, PrimeAssumption DEF FeltSet
<1>9. drift = IF t < w THEN w - t ELSE t - w
  <2>1. CASE t < w
    <3>1. drift = FeltSub(w, t)
      BY <2>1 DEF abs_drift_bps
    <3> HIDE DEF t, w, drift
    <3> QED
      BY <1>2, <1>7, <1>8, <2>1, <3>1, FeltSubExact
  <2>2. CASE ~ (t < w)
    <3>1. drift = FeltSub(t, w)
      BY <2>2 DEF abs_drift_bps
    <3> HIDE DEF t, w, drift
    <3>2. w <= t
      BY <1>2, <1>7, <2>2
    <3> QED
      BY <1>2, <1>7, <1>8, <2>2, <3>1, <3>2, FeltSubExact
  <2> HIDE DEF t, w, drift
  <2> QED
    BY <2>1, <2>2
<1>10. i \in Adrift(h) <=> T < drift
  BY DEF Adrift, needs_rebalance
<1>11. /\ t + T < w => n - t * W > T * W
       /\ w + T < t => - (n - t * W) > T * W
       /\ t <= w /\ w <= t + T =>
            - (n - t * W) < (T + 1) * W /\ n - t * W < (T + 1) * W
       /\ w <= t /\ t <= w + T =>
            - (n - t * W) < (T + 1) * W /\ n - t * W < (T + 1) * W
  BY <1>1, <1>2, <1>5, <1>6, <1>7, Distances
<1>12. i \in Adrift(h) => (t + T < w \/ w + T < t)
  BY <1>2, <1>7, <1>9, <1>10
<1>13. i \notin Adrift(h) => (t <= w /\ w <= t + T) \/ (w <= t /\ t <= w + T)
  BY <1>2, <1>7, <1>9, <1>10
<1>14. CASE i \in Adrift(h)
  <2>1. n - t * W > T * W \/ - (n - t * W) > T * W
    BY <1>11, <1>12, <1>14
  <2> QED
    BY <1>14, <2>1
<1>15. CASE i \notin Adrift(h)
  <2>1. - (n - t * W) < (T + 1) * W /\ n - t * W < (T + 1) * W
    BY <1>11, <1>13, <1>15
  <2> QED
    BY <1>15, <2>1
<1> QED
  BY <1>14, <1>15

---------------------------------------------------------------------------
(* The specification of the upkeep *)

UpkeepInv ==
  /\ value \in Values
  /\ block \in 0..MaxBlock
  /\ last \in 0..block
  /\ accrued \in Nat
  /\ touches \in Nat
  /\ AccrualFaithful
  /\ \A c \in checked : /\ c.held \in Holdings
                        /\ value_of(c.held) # 0
                        /\ c.adrift = Adrift(c.held)

LEMMA UpkeepInitInv == UpkeepInit => UpkeepInv
<1> SUFFICES ASSUME UpkeepInit PROVE UpkeepInv
  OBVIOUS
<1>1. /\ value \in Nat /\ MaxBlock \in Nat /\ fee_bps_year \in Nat
      /\ FEE_BPS_DENOMINATOR \in Nat /\ blocks_per_year \in Nat
  BY Constants DEF UpkeepInit
<1>2. Due = 0
  BY <1>1 DEF UpkeepInit, Due
<1>3. AccrualFaithful
  BY <1>1, <1>2 DEF UpkeepInit, AccrualFaithful
<1> QED
  BY <1>1, <1>3 DEF UpkeepInit, UpkeepInv

\* A touch adds what one accrual of the blocks since the last one yields.
LEMMA AccrueStep ==
  ASSUME UpkeepInv, Accrue
  PROVE  AccrualFaithful'
<1> DEFINE f == fee_bps_year
           b == block - last
           d == accrue_management(b, value, f, blocks_per_year)
<1>1. /\ value \in Nat /\ MaxBlock \in Nat /\ f \in Nat /\ block \in Nat /\ last \in Nat
      /\ b \in Nat /\ block <= MaxBlock /\ accrued \in Nat /\ touches \in Nat
      /\ FEE_BPS_DENOMINATOR \in Nat /\ blocks_per_year \in Nat
  BY Constants DEF UpkeepInv
<1>2. accrued' = accrued + d /\ last' = block /\ touches' = touches + 1 /\ value' = value
  BY DEF Accrue
<1>3. /\ d \in Nat
      /\ d * Year <= b * value * f
      /\ b * value * f < Prime => b * value * f <= (d + 1) * Year
  BY <1>1, AccrueFacts
<1>4. Year \in Nat
  BY <1>1 DEF Year
<1>5. \A k \in Nat : k * FEE_BPS_DENOMINATOR * blocks_per_year = k * Year
  BY <1>1 DEF Year
<1>6. Due' = Due + b * value * f /\ Due \in Nat /\ b * value * f \in Nat
  <2>1. block * value = last * value + b * value
    BY <1>1
  <2>2. last * value \in Nat /\ b * value \in Nat /\ block * value \in Nat
    BY <1>1
  <2>3. (last * value + b * value) * f = last * value * f + b * value * f
    BY <1>1, <2>2
  <2> QED
    BY <1>1, <1>2, <2>1, <2>2, <2>3 DEF Due
<1> HIDE DEF d
<1>7. accrued * Year <= Due
  BY <1>1, <1>5 DEF UpkeepInv, AccrualFaithful
<1>8. accrued' * Year = accrued * Year + d * Year
  BY <1>1, <1>2, <1>3, <1>4
<1>9. accrued' * Year <= Due'
  <2>1. accrued * Year \in Nat /\ d * Year \in Nat
    BY <1>1, <1>3, <1>4
  <2> QED
    BY <1>3, <1>6, <1>7, <1>8, <2>1
<1>10. ASSUME MaxBlock * value * f < Prime
       PROVE  Due' <= (accrued' + touches') * Year
  <2>1. b * value * f <= MaxBlock * value * f
    <3>1. b <= MaxBlock
      BY <1>1
    <3>2. b * value <= MaxBlock * value /\ b * value \in Nat /\ MaxBlock * value \in Nat
      BY <1>1, <3>1, MulMono
    <3> QED
      BY <1>1, <3>2, MulMono
  <2>2. b * value * f < Prime
    <3>1. MaxBlock * value * f \in Nat
      BY <1>1
    <3> QED
      BY <1>6, <1>10, <2>1, <3>1, PrimeAssumption
  <2>3. b * value * f <= (d + 1) * Year
    BY <1>3, <2>2
  <2>4. Due <= (accrued + touches) * Year
    <3>1. Due <= (accrued + touches) * FEE_BPS_DENOMINATOR * blocks_per_year
      BY <1>10 DEF UpkeepInv, AccrualFaithful
    <3>2. accrued + touches \in Nat
      BY <1>1
    <3> QED
      BY <1>5, <3>1, <3>2
  <2>5. /\ (accrued' + touches') * Year = (accrued + touches) * Year + (d + 1) * Year
        /\ (accrued + touches) * Year \in Nat /\ (d + 1) * Year \in Nat
    BY <1>1, <1>2, <1>3, <1>4
  <2> QED
    BY <1>6, <2>3, <2>4, <2>5
<1>11. accrued' \in Nat /\ accrued' + touches' \in Nat
  BY <1>1, <1>2, <1>3
<1> QED
  BY <1>2, <1>5, <1>9, <1>10, <1>11 DEF AccrualFaithful

LEMMA UpkeepStepInv == UpkeepInv /\ [UpkeepNext]_upkeepVars => UpkeepInv'
<1> SUFFICES ASSUME UpkeepInv, [UpkeepNext]_upkeepVars PROVE UpkeepInv'
  OBVIOUS
<1>0. MaxBlock \in Nat
  BY Constants
<1>1. CASE BlockPasses
  <2>1. AccrualFaithful'
    BY <1>1 DEF BlockPasses, UpkeepInv, AccrualFaithful, Due
  <2>2. block' \in 0..MaxBlock /\ last' \in 0..block'
    BY <1>0, <1>1 DEF BlockPasses, UpkeepInv
  <2> QED
    BY <1>1, <2>1, <2>2 DEF BlockPasses, UpkeepInv
<1>2. CASE Accrue
  <2>1. AccrualFaithful'
    BY <1>2, AccrueStep
  <2>2. accrue_management(block - last, value, fee_bps_year, blocks_per_year) \in Nat
    <3>1. block - last \in Nat /\ value \in Nat
      BY <1>0, Constants DEF UpkeepInv
    <3> QED
      BY <3>1, AccrueFacts
  <2>3. accrued' \in Nat /\ touches' \in Nat /\ last' \in 0..block'
    BY <1>0, <1>2, <2>2 DEF Accrue, UpkeepInv
  <2> QED
    BY <1>2, <2>1, <2>3 DEF Accrue, UpkeepInv
<1>3. ASSUME NEW held \in Holdings, CheckDrift(held)
      PROVE  UpkeepInv'
  <2>1. AccrualFaithful'
    BY <1>3 DEF CheckDrift, UpkeepInv, AccrualFaithful, Due
  <2> QED
    BY <1>3, <2>1 DEF CheckDrift, UpkeepInv
<1>4. CASE UNCHANGED upkeepVars
  <2>1. AccrualFaithful'
    BY <1>4 DEF upkeepVars, UpkeepInv, AccrualFaithful, Due
  <2> QED
    BY <1>4, <2>1 DEF upkeepVars, UpkeepInv
<1> QED
  BY <1>1, <1>2, <1>3, <1>4 DEF UpkeepNext

LEMMA UpkeepAlways == UpkeepSpec => []UpkeepInv
BY UpkeepInitInv, UpkeepStepInv, PTL DEF UpkeepSpec

\* However often a pool is touched, its management fee never exceeds the yearly
\* rate, and each touch loses less than a unit (accrue_management, fees.masm).
THEOREM AccrualIsFaithful == UpkeepSpec => []AccrualFaithful
<1>1. UpkeepInv => AccrualFaithful
  BY DEF UpkeepInv
<1> QED
  BY <1>1, UpkeepAlways, PTL

\* The drift check of drift.masm is right to within a basis point for every
\* pool of 2 to 4 constituents that the field holds in basis points.
THEOREM DriftIsFaithful == UpkeepSpec => []DriftFaithful
<1>1. UpkeepInv => DriftFaithful
  <2> SUFFICES ASSUME UpkeepInv, NEW c \in checked, NEW i \in 1..Len(c.held),
                      Worth(c.held) * FEE_BPS_DENOMINATOR < Prime
               PROVE  LET off == c.held[i][1] * c.held[i][2] * FEE_BPS_DENOMINATOR
                                   - Targets[i] * Worth(c.held)
                      IN IF i \in c.adrift
                         THEN off > Threshold * Worth(c.held) \/ - off > Threshold * Worth(c.held)
                         ELSE /\ - off < (Threshold + 1) * Worth(c.held)
                              /\ off < (Threshold + 1) * Worth(c.held)
    BY DEF DriftFaithful
  <2>1. c.held \in Holdings /\ value_of(c.held) # 0 /\ c.adrift = Adrift(c.held)
    BY DEF UpkeepInv
  <2> QED
    BY <2>1, OneConstituent
<1> QED
  BY <1>1, UpkeepAlways, PTL
=============================================================================
