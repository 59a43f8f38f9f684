-------------------------- MODULE Valuation_proofs --------------------------
(***************************************************************************)
(* The two oracle readers, for every set of prices, feeds, ranges and      *)
(* amounts, however often the oracle moves while they read.                *)
(***************************************************************************)
EXTENDS Valuation, NumberFacts

---------------------------------------------------------------------------
(* The pairs that a program asks for *)

LEMMA PairFacts ==
  /\ PAIRS \in Seq(Pairs) /\ Len(PAIRS) = 4
  /\ \A p \in Pairs : \E i \in 1..4 : PAIRS[i] = p
  /\ \A i, k \in 1..4 : PAIRS[i] = PAIRS[k] => i = k
<1>1. Pairs = {PAIRS[i] : i \in 1..4} /\ Len(PAIRS) = 4
  BY DEF Pairs, ToSet, PAIRS
<1>2. PAIRS \in Seq(Pairs)
  BY <1>1 DEF PAIRS
<1>3. \A i, k \in 1..4 : PAIRS[i] = PAIRS[k] => i = k
  BY DEF PAIRS
<1> QED
  BY <1>1, <1>2, <1>3

\* Every weight is a number of tenths.
Weights == {1000 * k : k \in Nat \ {0}}

LEMMA ConstituentFacts ==
  ASSUME NEW basket \in {"DCC", "DAG", "DCO"}
  PROVE  /\ Len(constituents(basket)) \in Nat
         /\ \A i \in 1..Len(constituents(basket)) :
              /\ constituents(basket)[i][1] \in Pairs
              /\ constituents(basket)[i][2] \in Weights
<1>1. "eth" \in Pairs /\ "wbtc" \in Pairs /\ "usdt" \in Pairs /\ "dai" \in Pairs
  BY DEF Pairs, ToSet, PAIRS
<1>0. 1000 \in Weights /\ 2000 \in Weights /\ 4000 \in Weights /\ 5000 \in Weights
  <2>1. 1000 = 1000 * 1 /\ 2000 = 1000 * 2 /\ 4000 = 1000 * 4 /\ 5000 = 1000 * 5
    OBVIOUS
  <2> QED
    BY <2>1 DEF Weights
<1>2. constituents(basket) \in Seq(Pairs \X Weights)
  <2>1. CASE basket = "DCC"
    <3>1. constituents(basket) = <<<<"wbtc", 4000>>, <<"eth", 4000>>, <<"usdt", 2000>>>>
      BY <2>1 DEF constituents
    <3> QED
      BY <1>0, <1>1, <3>1
  <2>2. CASE basket = "DAG"
    <3>1. constituents(basket) = <<<<"wbtc", 5000>>, <<"eth", 5000>>>>
      BY <2>2 DEF constituents
    <3> QED
      BY <1>0, <1>1, <3>1
  <2>3. CASE basket = "DCO"
    <3>1. constituents(basket)
            = <<<<"wbtc", 1000>>, <<"eth", 1000>>, <<"usdt", 4000>>, <<"dai", 4000>>>>
      BY <2>3 DEF constituents
    <3> QED
      BY <1>0, <1>1, <3>1
  <2> QED
    BY <2>1, <2>2, <2>3
<1>3. /\ Len(constituents(basket)) \in Nat
      /\ \A i \in 1..Len(constituents(basket)) :
           constituents(basket)[i][1] \in Pairs /\ constituents(basket)[i][2] \in Weights
  BY <1>2
<1> QED
  BY <1>3

LEMMA AskedFacts ==
  ASSUME run \in Runs
  PROVE  /\ Asked \in Seq(Pairs) /\ Len(Asked) \in Nat
         /\ \A i \in 1..Len(Asked) : Asked[i] \in Pairs
         /\ run.program = "pragma_prices_json" => Asked = PAIRS
         /\ run.program = "nav_pro_rata" =>
              /\ run.basket \in {"DCC", "DAG", "DCO"} /\ run.burn \in Nat
              /\ Len(Asked) = Len(constituents(run.basket))
<1>1. CASE run.program = "pragma_prices_json"
  <2>1. Asked = PAIRS
    BY <1>1 DEF Asked
  <2> QED
    BY <1>1, <2>1, PairFacts
<1>2. CASE run.program = "nav_pro_rata"
  <2>1. run.basket \in {"DCC", "DAG", "DCO"} /\ run.burn \in Nat
    BY <1>2, ValuationAssumption DEF Runs
  <2> DEFINE c == constituents(run.basket)
  <2>2. Asked = [i \in 1..Len(c) |-> c[i][1]]
    BY <1>2 DEF Asked
  <2>3. Len(c) \in Nat /\ \A i \in 1..Len(c) : c[i][1] \in Pairs
    BY <2>1, ConstituentFacts
  <2> HIDE DEF c
  <2>4. Asked \in Seq(Pairs) /\ Len(Asked) = Len(c)
    BY <2>2, <2>3
  <2> QED
    BY <1>2, <2>1, <2>4 DEF c
<1>3. CASE run.program = "keeper"
  <2>1. Asked = <<>>
    BY <1>3 DEF Asked
  <2> QED
    BY <1>3, <2>1
<1>4. run.program \in {"pragma_prices_json", "nav_pro_rata", "keeper"}
  BY DEF Runs
<1> QED
  BY <1>1, <1>2, <1>3, <1>4

---------------------------------------------------------------------------
(* The invariant: an answer is kept at the place of its pair and was one of *)
(* its medians, and what is printed was computed from all of them.         *)

Medians(p) == Raw[p] \cup {NotFound}

OracleInv ==
  /\ seen \in [Pairs -> SUBSET UNION {Medians(p) : p \in Pairs}]
  /\ oracle \in [Pairs -> UNION {Medians(p) : p \in Pairs}]
  /\ \A p \in Pairs : oracle[p] \in seen[p] /\ seen[p] \subseteq Medians(p)

AnswersInv ==
  /\ asked \in 0..Len(Asked)
  /\ prices \in Seq(UNION {Medians(p) : p \in Pairs})
  /\ Len(prices) = asked
  /\ \A i \in 1..asked : prices[i] \in seen[Asked[i]] \cup {NotFound}

PrintedInv ==
  \A o \in out :
    /\ asked = Len(Asked)
    /\ run.program = "pragma_prices_json" =>
         /\ o.value = [p \in Pairs |-> JsonValue(p)]
         /\ o.warned = {PAIRS[i] : i \in {k \in 1..Len(prices) : OutOfRange(PAIRS[k])}}
    /\ run.program = "nav_pro_rata" => o.base = [i \in 1..Len(prices) |-> UserBase(i)]

ReaderInv == run \in Runs /\ OracleInv /\ AnswersInv /\ PrintedInv

LEMMA ReaderInit == Init => ReaderInv
<1> SUFFICES ASSUME Init PROVE ReaderInv
  OBVIOUS
<1>1. run \in Runs /\ asked = 0 /\ prices = <<>> /\ out = {}
  BY DEF Init, Nothing
<1>2. \A p \in Pairs : oracle[p] \in Raw[p]
  BY DEF Init
<1>3. seen = [p \in Pairs |-> {oracle[p]}]
  BY DEF Init
<1>4. \A p \in Pairs : oracle[p] \in Medians(p)
  BY <1>2 DEF Medians
<1>5. oracle \in [Pairs -> UNION {Medians(p) : p \in Pairs}]
  <2>1. oracle \in [Pairs -> UNION {Raw[p] : p \in Pairs}]
    BY DEF Init
  <2> QED
    BY <1>4, <2>1
<1>6. OracleInv
  BY <1>3, <1>4, <1>5 DEF OracleInv
<1>7. AnswersInv
  <2>1. Len(Asked) \in Nat
    BY <1>1, AskedFacts
  <2>2. prices \in Seq(UNION {Medians(p) : p \in Pairs}) /\ Len(prices) = 0
    BY <1>1
  <2> QED
    BY <1>1, <2>1, <2>2 DEF AnswersInv
<1> QED
  BY <1>1, <1>6, <1>7 DEF ReaderInv, PrintedInv

\* The oracle moves: what was read stays what it was.
LEMMA ReaderOracleMoves ==
  ASSUME ReaderInv, NEW p \in Pairs, OracleMoves(p)
  PROVE  ReaderInv'
<1>1. PICK raw \in (Raw[p] \cup {NotFound}) \ seen[p] :
        /\ oracle' = [oracle EXCEPT ![p] = raw]
        /\ seen' = [seen EXCEPT ![p] = @ \cup {raw}]
  BY DEF OracleMoves
<1>2. /\ run' = run /\ asked' = asked /\ prices' = prices /\ out' = out /\ out = {}
  BY DEF OracleMoves, Nothing
<1>3. raw \in Medians(p) /\ raw \in UNION {Medians(q) : q \in Pairs}
  BY DEF Medians
<1>4. OracleInv'
  <2>1. oracle'[p] = raw /\ seen'[p] = seen[p] \cup {raw}
        /\ \A q \in Pairs \ {p} : oracle'[q] = oracle[q] /\ seen'[q] = seen[q]
    BY <1>1 DEF ReaderInv, OracleInv
  <2>2. oracle' \in [Pairs -> UNION {Medians(q) : q \in Pairs}]
    BY <1>1, <1>3 DEF ReaderInv, OracleInv
  <2>3. seen' \in [Pairs -> SUBSET UNION {Medians(q) : q \in Pairs}]
    BY <1>1, <1>3 DEF ReaderInv, OracleInv
  <2>4. \A q \in Pairs : oracle'[q] \in seen'[q] /\ seen'[q] \subseteq Medians(q)
    BY <1>3, <2>1 DEF ReaderInv, OracleInv
  <2> QED
    BY <2>2, <2>3, <2>4 DEF OracleInv
<1>5. AnswersInv'
  <2>1. Asked' = Asked
    BY <1>2 DEF Asked
  <2>2. \A q \in Pairs : seen[q] \subseteq seen'[q]
    BY <1>1 DEF ReaderInv, OracleInv
  <2>3. \A i \in 1..asked : Asked[i] \in Pairs
    BY AskedFacts DEF ReaderInv, AnswersInv
  <2> QED
    BY <1>2, <2>1, <2>2, <2>3 DEF ReaderInv, AnswersInv
<1> QED
  BY <1>2, <1>4, <1>5 DEF ReaderInv, PrintedInv

\* One more answer, of the pair whose turn it is or none.
LEMMA ReaderQuery ==
  ASSUME ReaderInv, NEW program, Asking(program), asked' = asked + 1,
         NEW answer \in {oracle[Asked[asked + 1]], NotFound}, prices' = Append(prices, answer),
         UNCHANGED <<run, oracle, seen, out>>
  PROVE  ReaderInv'
<1>1. asked < Len(Asked) /\ out = {} /\ asked \in Nat /\ Len(Asked) \in Nat
  BY AskedFacts DEF Asking, Nothing, ReaderInv, AnswersInv
<1>2. Asked' = Asked
  BY DEF Asked
<1>3. asked + 1 \in 1..Len(Asked)
  BY <1>1
<1>4. Asked[asked + 1] \in Pairs
  BY <1>3, AskedFacts DEF ReaderInv
<1>5. answer \in seen[Asked[asked + 1]] \cup {NotFound}
  BY <1>4 DEF ReaderInv, OracleInv
<1> DEFINE All == UNION {Medians(p) : p \in Pairs}
<1>6. answer \in All
  BY <1>4, <1>5 DEF ReaderInv, OracleInv, Medians
<1>7. prices \in Seq(All) /\ Len(prices) = asked
  BY DEF ReaderInv, AnswersInv
<1> HIDE DEF All
<1>8. /\ prices' \in Seq(All) /\ Len(prices') = asked + 1
      /\ prices'[asked + 1] = answer
      /\ \A i \in 1..asked : prices'[i] = prices[i]
  BY <1>6, <1>7
<1>9. \A i \in 1..(asked + 1) : prices'[i] \in seen[Asked[i]] \cup {NotFound}
  <2>1. \A i \in 1..(asked + 1) : i = asked + 1 \/ i \in 1..asked
    BY <1>1
  <2> QED
    BY <1>5, <1>8, <2>1 DEF ReaderInv, AnswersInv
<1>10. AnswersInv'
  <2>1. asked' \in 0..Len(Asked)
    BY <1>1
  <2> QED
    BY <1>2, <1>8, <1>9, <2>1 DEF AnswersInv, All
<1>11. OracleInv'
  BY DEF ReaderInv, OracleInv
<1> QED
  BY <1>1, <1>10, <1>11 DEF ReaderInv, PrintedInv

\* The programs print once, after all answers, and end.
LEMMA ReaderPrint ==
  ASSUME ReaderInv, NEW program, Answered(program),
         UNCHANGED <<run, oracle, seen, asked, prices>>, PrintedInv'
  PROVE  ReaderInv'
<1>1. Asked' = Asked
  BY DEF Asked
<1> QED
  BY <1>1 DEF ReaderInv, OracleInv, AnswersInv

LEMMA ReaderIdle ==
  ASSUME ReaderInv, UNCHANGED <<run, readerVars>>
  PROVE  ReaderInv'
<1>1. /\ run' = run /\ oracle' = oracle /\ seen' = seen /\ asked' = asked
      /\ prices' = prices /\ out' = out
  BY DEF readerVars
<1>2. Asked' = Asked
  BY <1>1 DEF Asked
<1>3. OracleInv' /\ AnswersInv'
  BY <1>1, <1>2 DEF ReaderInv, OracleInv, AnswersInv
<1>4. PrintedInv'
  <2>1. \A p \in Pairs : JsonValue(p)' = JsonValue(p) /\ OutOfRange(p)' = OutOfRange(p)
    BY <1>1 DEF JsonValue, OutOfRange
  <2>2. [p \in Pairs |-> JsonValue(p)]' = [p \in Pairs |-> JsonValue(p)]
    BY <2>1
  <2>3. {PAIRS[i] : i \in {k \in 1..Len(prices) : OutOfRange(PAIRS[k])}}'
          = {PAIRS[i] : i \in {k \in 1..Len(prices) : OutOfRange(PAIRS[k])}}
    BY <1>1 DEF OutOfRange, JsonValue
  <2>4. [i \in 1..Len(prices) |-> UserBase(i)]' = [i \in 1..Len(prices) |-> UserBase(i)]
    BY <1>1, <1>2 DEF UserBase, Share, UserUsd
  <2> QED
    BY <1>1, <1>2, <2>2, <2>3, <2>4 DEF ReaderInv, PrintedInv
<1> QED
  BY <1>1, <1>3, <1>4 DEF ReaderInv

LEMMA ReaderNext == ReaderInv /\ [Next]_vars => ReaderInv'
<1> SUFFICES ASSUME ReaderInv, [Next]_vars PROVE ReaderInv'
  OBVIOUS
<1>1. ASSUME NEW p \in Pairs, OracleMoves(p)
      PROVE  ReaderInv'
  BY <1>1, ReaderOracleMoves
<1>2. CASE JsonQuery
  <2>1. PICK answer \in {oracle[Asked[asked + 1]], NotFound} : prices' = Append(prices, answer)
    BY <1>2 DEF JsonQuery
  <2> QED
    BY <1>2, <2>1, ReaderQuery DEF JsonQuery
<1>3. CASE JsonPrint
  <2>1. /\ Answered("pragma_prices_json")
        /\ UNCHANGED <<run, oracle, seen, asked, prices>>
    BY <1>3 DEF JsonPrint
  <2>2. run.program = "pragma_prices_json" /\ asked = Len(Asked) /\ Asked' = Asked
    BY <2>1 DEF Answered, Asked
  <2>3. PrintedInv'
    <3> SUFFICES ASSUME NEW o \in out'
                 PROVE  /\ o.value = [p \in Pairs |-> JsonValue(p)]'
                        /\ o.warned = {PAIRS[i] : i \in {k \in 1..Len(prices) :
                                                           OutOfRange(PAIRS[k])}}'
      BY <2>1, <2>2 DEF PrintedInv
    <3>1. o = [value  |-> [p \in Pairs |-> JsonValue(p)],
               warned |-> {PAIRS[i] : i \in {k \in 1..Len(prices) : OutOfRange(PAIRS[k])}}]
      BY <1>3 DEF JsonPrint
    <3> QED
      BY <2>1, <3>1 DEF JsonValue, OutOfRange
  <2> QED
    BY <2>1, <2>3, ReaderPrint
<1>4. CASE NavQuery
  BY <1>4, ReaderQuery DEF NavQuery
<1>5. CASE NavPrint
  <2>1. /\ Answered("nav_pro_rata")
        /\ UNCHANGED <<run, oracle, seen, asked, prices>>
    BY <1>5 DEF NavPrint
  <2>2. run.program = "nav_pro_rata" /\ asked = Len(Asked) /\ Asked' = Asked
    BY <2>1 DEF Answered, Asked
  <2>3. PrintedInv'
    <3> SUFFICES ASSUME NEW o \in out'
                 PROVE  o.base = [i \in 1..Len(prices) |-> UserBase(i)]'
      BY <2>1, <2>2 DEF PrintedInv
    <3>1. o = [base |-> [i \in 1..Len(prices) |-> UserBase(i)]]
      BY <1>5 DEF NavPrint
    <3> QED
      BY <2>1, <2>2, <3>1 DEF UserBase, Share, UserUsd
  <2> QED
    BY <2>1, <2>3, ReaderPrint
<1>6. CASE Keep
  BY <1>6, ReaderIdle DEF Keep
<1>7. CASE UNCHANGED vars
  BY <1>7, ReaderIdle DEF vars
<1> QED
  BY <1>1, <1>2, <1>3, <1>4, <1>5, <1>6, <1>7 DEF Next

LEMMA ReaderAlways == Spec => []ReaderInv
BY ReaderInit, ReaderNext, PTL DEF Spec
---------------------------------------------------------------------------
(* What pragma_prices_json prints *)

LEMMA UnwarnedFacts ==
  ASSUME ReaderInv, run.program = "pragma_prices_json", NEW o \in out,
         NEW p \in Pairs, p \notin o.warned
  PROVE  /\ o.value[p] \in seen[p]
         /\ o.value[p] >= Sanity[p][1] /\ o.value[p] <= Sanity[p][2]
<1>1. /\ Len(prices) = 4
      /\ \A i \in 1..4 : prices[i] \in seen[PAIRS[i]] \cup {NotFound}
  <2>1. Asked = PAIRS /\ Len(PAIRS) = 4
    BY AskedFacts, PairFacts DEF ReaderInv
  <2> QED
    BY <2>1 DEF ReaderInv, AnswersInv, PrintedInv
<1>2. o.value[p] = JsonValue(p)
  BY DEF ReaderInv, PrintedInv
<1>3. PICK i \in 1..4 : PAIRS[i] = p
  BY PairFacts
<1>4. ~ OutOfRange(p)
  <2>1. o.warned = {PAIRS[k] : k \in {m \in 1..Len(prices) : OutOfRange(PAIRS[m])}}
    BY DEF ReaderInv, PrintedInv
  <2> QED
    BY <1>1, <1>3, <2>1
<1>5. JsonValue(p) # 0 /\ ~ (JsonValue(p) < Sanity[p][1]) /\ ~ (JsonValue(p) > Sanity[p][2])
  BY <1>4 DEF OutOfRange
<1>6. \E k \in 1..4 : PAIRS[k] = p /\ prices[k] # NotFound
  BY <1>1, <1>5 DEF JsonValue
<1>7. prices[i] # NotFound
  BY <1>3, <1>6, PairFacts
<1>8. (CHOOSE k \in 1..Len(prices) : PAIRS[k] = p) = i
  <2>1. \A k \in 1..Len(prices) : PAIRS[k] = p <=> k = i
    BY <1>1, <1>3, PairFacts
  <2> QED
    BY <1>1, <1>3, <2>1
<1>9. JsonValue(p) = prices[i]
  BY <1>1, <1>6, <1>8 DEF JsonValue
<1>10. JsonValue(p) \in seen[p] /\ JsonValue(p) \in Raw[p]
  <2>1. prices[i] \in seen[p]
    BY <1>1, <1>3, <1>7
  <2>2. seen[p] \subseteq Raw[p] \cup {NotFound}
    BY DEF ReaderInv, OracleInv, Medians
  <2> QED
    BY <1>7, <1>9, <2>1, <2>2
<1>11. JsonValue(p) \in Nat /\ Sanity[p][1] \in Nat /\ Sanity[p][2] \in Nat
  <2>1. Raw[p] \subseteq Nat /\ Sanity[p] \in Nat \X Nat
    BY ValuationAssumption
  <2> QED
    BY <1>10, <2>1
<1> QED
  BY <1>2, <1>5, <1>10, <1>11

\* A value that pragma_prices_json prints without a warning is a median of its
\* own pair within the pair's range, however many executions failed, pairs
\* were not found and medians moved between the calls.
THEOREM UnwarnedValuesAreReal == Spec => []UnwarnedIsReal
<1>1. ReaderInv => UnwarnedIsReal
  BY UnwarnedFacts DEF UnwarnedIsReal
<1> QED
  BY <1>1, ReaderAlways, PTL

---------------------------------------------------------------------------
(* Doubles *)

LEMMA SpacingFacts ==
  ASSUME NEW x \in Nat
  PROVE  /\ Spacing(x) \in Nat \ {0}
         /\ Spacing(x) = 1 \/ Spacing(x) * SIGNIFICAND <= 2 * x
<1> DEFINE U == {u \in Spacings : u * SIGNIFICAND <= 2 * x}
           S == {1} \cup U
<1>1. SIGNIFICAND \in Nat /\ SIGNIFICAND >= 1 /\ Spacings \subseteq Nat \ {0}
  BY ValuationAssumption
<1>2. ASSUME NEW u \in S
      PROVE  u \in Nat \ {0} /\ u <= 2 * x + 1
  <2>1. CASE u = 1
    BY <2>1
  <2>2. CASE u # 1
    <3>1. u \in Nat \ {0} /\ u * SIGNIFICAND <= 2 * x
      BY <1>1, <1>2, <2>2
    <3>2. 1 * u <= SIGNIFICAND * u
      BY <1>1, <3>1, MulMono
    <3> QED
      BY <1>1, <3>1, <3>2
  <2> QED
    BY <2>1, <2>2
<1>3. 1 \in S /\ S \subseteq Nat
  BY <1>2
<1>4. Spacing(x) = Max(S)
  BY DEF Spacing
<1> HIDE DEF S
<1>5. \E n \in S : \A m \in S : n >= m
  <2>1. 2 * x + 1 \in Nat
    OBVIOUS
  <2> QED
    BY <1>2, <1>3, <2>1, Greatest
<1>6. Spacing(x) \in S
  BY <1>4, <1>5 DEF Max
<1> QED
  BY <1>2, <1>6 DEF S

\* A double is a whole number of spacings, the one nearest to the quotient.
LEMMA Nearest ==
  ASSUME NEW a \in Nat, NEW b \in Nat \ {0}
  PROVE  /\ f64(a, b) \in Nat
         /\ 2 * (f64(a, b) * b) <= 2 * a + b * Spacing(a \div b)
         /\ 2 * a <= 2 * (f64(a, b) * b) + b * Spacing(a \div b)
<1> DEFINE u == Spacing(a \div b)
           d == b * u
           m == a \div d
           rest == a % d
<1>1. u \in Nat \ {0}
  <2>1. a \div b \in Nat
    BY DivFacts
  <2> QED
    BY <2>1, SpacingFacts
<1>2. f64(a, b) = IF 2 * rest > d \/ (2 * rest = d /\ m % 2 = 1) THEN (m + 1) * u ELSE m * u
  BY DEF f64
<1> HIDE DEF u
<1>3. d \in Nat \ {0}
  BY <1>1
<1>4. (m * u) * b = d * m /\ ((m + 1) * u) * b = d * m + d /\ m * u \in Nat /\ (m + 1) * u \in Nat
  <2>1. m \in Nat
    <3> HIDE DEF d
    <3> QED
      BY <1>3, DivFacts
  <2> HIDE DEF m
  <2> QED
    BY <1>1, <2>1
<1>5. a = d * m + rest /\ rest \in 0..(d - 1) /\ m \in Nat
  <2> HIDE DEF d
  <2> QED
    BY <1>3, DivFacts
<1> DEFINE dm == d * m
<1>6. dm \in Nat
  <2> HIDE DEF d, m
  <2> QED
    BY <1>3, <1>5
<1>7. CASE 2 * rest > d \/ (2 * rest = d /\ m % 2 = 1)
  <2>0. 2 * rest >= d
    <3> HIDE DEF d, rest, m
    <3> QED
      BY <1>3, <1>5, <1>7
  <2>1. f64(a, b) = (m + 1) * u /\ f64(a, b) * b = dm + d /\ 2 * rest >= d
    BY <1>2, <1>4, <1>7, <2>0
  <2>2. f64(a, b) \in Nat
    BY <1>4, <2>1
  <2> HIDE DEF d, m, rest, dm
  <2>3. a = dm + rest
    BY <1>5 DEF dm
  <2>4. 2 * (f64(a, b) * b) <= 2 * a + d /\ 2 * a <= 2 * (f64(a, b) * b) + d
    BY <1>3, <1>5, <1>6, <2>1, <2>3
  <2> QED
    BY <2>2, <2>4 DEF d, u
<1>8. CASE ~ (2 * rest > d \/ (2 * rest = d /\ m % 2 = 1))
  <2>0. 2 * rest <= d
    <3> HIDE DEF d, rest, m
    <3> QED
      BY <1>3, <1>5, <1>8
  <2>1. f64(a, b) = m * u /\ f64(a, b) * b = dm /\ 2 * rest <= d
    BY <1>2, <1>4, <1>8, <2>0
  <2>2. f64(a, b) \in Nat
    BY <1>4, <2>1
  <2> HIDE DEF d, m, rest, dm
  <2>3. a = dm + rest
    BY <1>5 DEF dm
  <2>4. 2 * (f64(a, b) * b) <= 2 * a + d /\ 2 * a <= 2 * (f64(a, b) * b) + d
    BY <1>3, <1>5, <1>6, <2>1, <2>3
  <2> QED
    BY <2>2, <2>4 DEF d, u
<1> QED
  BY <1>7, <1>8

\* Rounding adds at most one part in SIGNIFICAND to an integer, to a quotient
\* that is large enough for it, and nothing to zero.
LEMMA RoundedUp ==
  ASSUME NEW a \in Nat, NEW b \in Nat \ {0},
         a = 0 \/ b = 1 \/ b * SIGNIFICAND <= 2 * a
  PROVE  f64(a, b) \in Nat /\ (f64(a, b) * b) * SIGNIFICAND <= a * (SIGNIFICAND + 1)
<1> DEFINE P == SIGNIFICAND
           u == Spacing(a \div b)
           R == f64(a, b)
<1>1. P \in Nat /\ P >= 8
  BY ValuationAssumption
<1>2. R \in Nat /\ 2 * (R * b) <= 2 * a + b * u
  BY Nearest
<1>3. /\ a \div b \in Nat /\ (a \div b) * b <= a
      /\ u \in Nat \ {0} /\ (u = 1 \/ u * P <= 2 * (a \div b))
  <2>1. a \div b \in Nat /\ (a \div b) * b <= a
    BY DivFacts
  <2> QED
    BY <2>1, SpacingFacts
<1> DEFINE q == a \div b
<1> HIDE DEF P, u, R, q
<1>4. ASSUME (b * u) * P <= 2 * a
      PROVE  (R * b) * P <= a * (P + 1)
  <2> DEFINE Rb == R * b
             bu == b * u
  <2>1. Rb \in Nat /\ bu \in Nat /\ 2 * Rb <= 2 * a + bu /\ bu * P <= 2 * a
    BY <1>1, <1>2, <1>3, <1>4
  <2> HIDE DEF Rb, bu
  <2>2. (2 * Rb) * P <= (2 * a + bu) * P
    BY <1>1, <2>1, MulMono
  <2>3. (2 * Rb) * P = 2 * (Rb * P) /\ (2 * a + bu) * P = 2 * (a * P) + bu * P
    BY <1>1, <2>1
  <2>4. Rb * P \in Nat /\ a * P \in Nat /\ bu * P \in Nat
    BY <1>1, <2>1
  <2>5. Rb * P <= a * P + a
    BY <2>1, <2>2, <2>3, <2>4
  <2>6. a * (P + 1) = a * P + a
    BY <1>1
  <2> QED
    BY <2>5, <2>6 DEF Rb
<1>5. CASE u # 1
  <2>1. u * P <= 2 * q /\ q \in Nat /\ q * b <= a
    BY <1>3, <1>5 DEF q
  <2>2. (u * P) * b <= (2 * q) * b
    BY <1>1, <1>3, <2>1, MulMono
  <2>3. (u * P) * b = (b * u) * P /\ (2 * q) * b = 2 * (q * b)
    BY <1>1, <1>3, <2>1
  <2>4. q * b \in Nat /\ (b * u) * P \in Nat
    BY <1>1, <1>3, <2>1
  <2>5. (b * u) * P <= 2 * a
    BY <2>1, <2>2, <2>3, <2>4
  <2> QED
    BY <1>2, <1>4, <2>5 DEF P, R
<1>6. CASE u = 1 /\ b * P <= 2 * a
  <2>1. (b * u) * P <= 2 * a
    BY <1>6
  <2> QED
    BY <1>2, <1>4, <2>1 DEF P, R
<1>7. CASE u = 1 /\ b = 1
  <2>1. R <= a
    BY <1>2, <1>7
  <2>2. R * P <= a * P
    BY <1>1, <1>2, <2>1, MulMono
  <2>3. a * (P + 1) = a * P + a /\ a * P \in Nat /\ R * P \in Nat /\ R * b = R
    BY <1>1, <1>2, <1>7
  <2>4. (R * b) * P <= a * (P + 1)
    BY <2>2, <2>3
  <2> QED
    BY <1>2, <2>4 DEF P, R
<1>8. CASE u = 1 /\ a = 0
  <2>1. R * b \in Nat
    BY <1>2
  <2>2. 2 * (R * b) <= b
    BY <1>2, <1>8
  <2>3. R = 0
    <3> SUFFICES ASSUME R >= 1 PROVE FALSE
      BY <1>2
    <3>1. 1 * b <= R * b
      BY <1>2, MulMono
    <3> QED
      BY <2>1, <2>2, <3>1
  <2>4. (R * b) * P <= a * (P + 1)
    BY <1>1, <1>8, <2>3
  <2> QED
    BY <1>2, <2>4 DEF P, R
<1> QED
  BY <1>5, <1>6, <1>7, <1>8 DEF P

\* An integer loses less than a half.
LEMMA RoundedDown ==
  ASSUME NEW a \in Nat
  PROVE  f64(a, 1) \in Nat /\ a <= 2 * f64(a, 1)
<1> DEFINE P == SIGNIFICAND
           u == Spacing(a \div 1)
           R == f64(a, 1)
<1>1. P \in Nat /\ P >= 8
  BY ValuationAssumption
<1>2. R \in Nat /\ 2 * a <= 2 * R + u
  <2>1. f64(a, 1) \in Nat /\ 2 * a <= 2 * (f64(a, 1) * 1) + 1 * Spacing(a \div 1)
    BY Nearest
  <2>2. Spacing(a \div 1) \in Nat
    <3>1. a \div 1 \in Nat
      BY DivFacts
    <3> QED
      BY <3>1, SpacingFacts
  <2> QED
    BY <2>1, <2>2
<1>3. u \in Nat \ {0} /\ (u = 1 \/ u * P <= 2 * a)
  <2>1. a \div 1 = a
    OBVIOUS
  <2> QED
    BY <2>1, SpacingFacts
<1> HIDE DEF P, u, R
<1>4. CASE u = 1
  BY <1>2, <1>4 DEF R
<1>5. CASE u * P <= 2 * a
  <2>1. 8 * u <= P * u
    BY <1>1, <1>3, MulMono
  <2>2. P * u = u * P /\ u * P \in Nat
    BY <1>1, <1>3
  <2>3. a <= 2 * R
    BY <1>2, <1>3, <1>5, <2>1, <2>2
  <2> QED
    BY <1>2, <2>3 DEF R
<1> QED
  BY <1>3, <1>4, <1>5

\* A quotient rounded once more: x was y before, and y is at most H / G.
LEMMA RoundedAgain ==
  ASSUME NEW x \in Nat, NEW y \in Nat, NEW P \in Nat, NEW Q \in Nat,
         NEW G \in Nat, NEW H \in Nat,
         x * P <= y * Q, y * G <= H
  PROVE  x * (P * G) <= H * Q
<1>1. x * P \in Nat /\ y * Q \in Nat /\ y * G \in Nat
  OBVIOUS
<1>2. (x * P) * G <= (y * Q) * G
  BY <1>1, MulMono
<1>3. (y * G) * Q <= H * Q
  BY <1>1, MulMono
<1>4. (x * P) * G = x * (P * G) /\ (y * Q) * G = (y * G) * Q
  OBVIOUS
<1>5. (x * P) * G \in Nat /\ (y * Q) * G \in Nat /\ H * Q \in Nat
  BY <1>1
<1> QED
  BY <1>2, <1>3, <1>4, <1>5

\* Four roundings add less than five parts.
LEMMA FourRoundings ==
  ASSUME NEW P \in Nat, P >= 8
  PROVE  (P + 1) * (P + 1) * (P + 1) * (P + 1) <= (P * P * P) * (P + 5)
<1> DEFINE s == P * P
<1>1. s \in Nat /\ 8 * P <= s
  <2>1. 8 * P <= P * P
    BY MulMono
  <2> QED
    BY <2>1
<1>2. (P + 1) * (P + 1) = s + 2 * P + 1
  OBVIOUS
<1>3. (P + 1) * (P + 1) * (P + 1) * (P + 1) = (s + 2 * P + 1) * (s + 2 * P + 1)
  OBVIOUS
<1>4. (s + 2 * P + 1) * (s + 2 * P + 1) = s * s + 4 * (s * P) + 6 * s + 4 * P + 1
  OBVIOUS
<1>5. (P * P * P) * (P + 5) = s * s + 5 * (s * P)
  OBVIOUS
<1> HIDE DEF s
<1>6. 8 * s <= P * s
  BY <1>1, MulMono
<1> DEFINE c == s * P
           d == s * s
<1>7. P * s = c /\ c \in Nat /\ d \in Nat
  BY <1>1
<1>8. d + 4 * c + 6 * s + 4 * P + 1 <= d + 5 * c
  <2> HIDE DEF c, d
  <2> QED
    BY <1>1, <1>6, <1>7
<1> QED
  BY <1>3, <1>4, <1>5, <1>8

\* The share that nav_pro_rata computes of a burn, for a weight.
RoundedShare(burn, w) ==
  f64(f64(f64(f64(burn, 1) * w, 1) * FINE, 10000) * SCALE, 1) \div FINE

\* The same without rounding.
WholeShare(burn, w) == (burn * w * SCALE) \div 10000

\* Four roundings and a truncation end at most five parts in SIGNIFICAND above.
LEMMA ShareAtMost ==
  ASSUME NEW burn \in Nat, NEW w \in Nat, NEW k \in Nat \ {0}, w = 1000 * k
  PROVE  /\ RoundedShare(burn, w) \in Nat /\ WholeShare(burn, w) \in Nat
         /\ RoundedShare(burn, w)
              <= WholeShare(burn, w) + (5 * WholeShare(burn, w)) \div SIGNIFICAND
<1> DEFINE P == SIGNIFICAND
           Q == P + 1
           t == f64(burn, 1)
           n == f64(t * w, 1)
           usd == f64(n * FINE, 10000)
           z == f64(usd * SCALE, 1)
           share == z \div FINE
           E == WholeShare(burn, w)
<1>1. /\ P \in Nat /\ P >= 8 /\ Q \in Nat
      /\ FINE \in Nat /\ FINE >= 10 * P /\ SCALE \in Nat /\ SCALE % 10 = 0
  BY ValuationAssumption
<1>2. t \in Nat /\ t * P <= burn * Q /\ burn <= 2 * t
  BY RoundedUp, RoundedDown
<1> HIDE DEF t
<1>3. t * w \in Nat
  BY <1>2
<1>4. n \in Nat /\ n * P <= (t * w) * Q /\ t * w <= 2 * n
  BY <1>3, RoundedUp, RoundedDown
<1> HIDE DEF n
<1>5. n * FINE \in Nat /\ (n * FINE = 0 \/ 10000 * P <= 2 * (n * FINE))
  <2>1. CASE burn = 0
    <3>1. t = 0
      <4>1. 1 * t <= P * t
        BY <1>1, <1>2, MulMono
      <4>2. t * P = P * t /\ burn * Q = 0
        BY <1>1, <1>2, <2>1
      <4> DEFINE Pt == P * t
      <4>3. Pt \in Nat /\ t <= Pt /\ Pt <= 0
        BY <1>1, <1>2, <4>1, <4>2
      <4> HIDE DEF Pt
      <4> QED
        BY <1>2, <4>3
    <3>2. n = 0
      <4>1. 1 * n <= P * n
        BY <1>1, <1>4, MulMono
      <4>2. n * P = P * n /\ (t * w) * Q = 0
        BY <1>1, <1>4, <3>1
      <4> DEFINE Pn == P * n
      <4>3. Pn \in Nat /\ n <= Pn /\ Pn <= 0
        BY <1>1, <1>4, <4>1, <4>2
      <4> HIDE DEF Pn
      <4> QED
        BY <1>4, <4>3
    <3> QED
      BY <1>1, <3>2
  <2>2. CASE burn >= 1
    <3>1. t >= 1
      BY <1>2, <2>2
    <3>2. 1 * w <= t * w /\ w >= 1000
      BY <1>2, <3>1, MulMono
    <3>3. n >= 500
      BY <1>3, <1>4, <3>2
    <3>4. 500 * FINE <= n * FINE /\ n * FINE \in Nat
      BY <1>1, <1>4, <3>3, MulMono
    <3> HIDE DEF P
    <3> QED
      BY <1>1, <3>4
  <2> QED
    BY <2>1, <2>2
<1>6. usd \in Nat /\ (usd * 10000) * P <= (n * FINE) * Q
  BY <1>5, RoundedUp
<1> HIDE DEF usd
<1>7. usd * SCALE \in Nat
  BY <1>1, <1>6
<1>8. z \in Nat /\ z * P <= (usd * SCALE) * Q
  <2>1. z \in Nat /\ (z * 1) * P <= (usd * SCALE) * Q
    BY <1>7, RoundedUp
  <2> QED
    BY <2>1
<1> HIDE DEF z
<1>9. share \in Nat /\ share * FINE <= z
  BY <1>1, <1>8, DivFacts
<1> HIDE DEF share, P, Q
<1> DEFINE H1 == burn * Q
           H2 == (H1 * w) * Q
           H3 == (H2 * FINE) * Q
           H4 == (H3 * SCALE) * Q
           G2 == P * P
           G3 == P * G2
           G4 == P * (10000 * G3)
<1>10. n * G2 <= H2 /\ H1 \in Nat /\ H2 \in Nat /\ G2 \in Nat
  <2>1. H1 \in Nat /\ H1 * w \in Nat /\ G2 \in Nat
    BY <1>1
  <2>2. (t * w) * P <= H1 * w
    <3>1. (t * P) * w <= H1 * w
      BY <1>1, <1>2, <2>1, MulMono
    <3>2. (t * P) * w = (t * w) * P
      BY <1>1, <1>2
    <3> QED
      BY <3>1, <3>2
  <2> HIDE DEF H1
  <2>3. n * (P * P) <= (H1 * w) * Q
    BY <1>1, <1>3, <1>4, <2>1, <2>2, RoundedAgain
  <2> QED
    BY <1>1, <2>1, <2>3
<1> HIDE DEF H1, G2
<1>11. (usd * 10000) * G3 <= H3 /\ H3 \in Nat /\ G3 \in Nat
  <2>1. H2 * FINE \in Nat /\ usd * 10000 \in Nat /\ G3 \in Nat /\ (H2 * FINE) * Q \in Nat
    BY <1>1, <1>6, <1>10
  <2> HIDE DEF H2
  <2>2. (n * FINE) * G2 <= H2 * FINE
    <3>1. (n * G2) * FINE <= H2 * FINE
      BY <1>1, <1>4, <1>10, MulMono
    <3>2. (n * G2) * FINE = (n * FINE) * G2
      BY <1>1, <1>4, <1>10
    <3> QED
      BY <3>1, <3>2
  <2>3. (usd * 10000) * (P * G2) <= (H2 * FINE) * Q
    <3> DEFINE x == usd * 10000
               y == n * FINE
               h == H2 * FINE
    <3>1. x \in Nat /\ y \in Nat /\ h \in Nat /\ x * P <= y * Q /\ y * G2 <= h
      BY <1>5, <1>6, <2>1, <2>2
    <3> HIDE DEF x, y, h
    <3>2. x * (P * G2) <= h * Q
      BY <1>1, <1>10, <3>1, RoundedAgain
    <3> QED
      BY <3>2 DEF x, h
  <2> QED
    BY <2>1, <2>3
<1> HIDE DEF G3
<1>12. z * G4 <= H4 /\ H4 \in Nat /\ G4 \in Nat
  <2>1. H3 * SCALE \in Nat /\ 10000 * G3 \in Nat /\ G4 \in Nat /\ (H3 * SCALE) * Q \in Nat
    <3> HIDE DEF H3
    <3> QED
      BY <1>1, <1>11
  <2> HIDE DEF H3
  <2>2. (usd * SCALE) * (10000 * G3) <= H3 * SCALE
    <3> DEFINE m == usd * 10000
    <3>1. m \in Nat /\ m * G3 \in Nat
      BY <1>6, <1>11
    <3>2. (m * G3) * SCALE <= H3 * SCALE
      <4> HIDE DEF m
      <4> QED
        BY <1>1, <1>11, <3>1, MulMono DEF m
    <3>3. (m * G3) * SCALE = (usd * SCALE) * (10000 * G3)
      BY <1>1, <1>6, <1>11
    <3> HIDE DEF m
    <3> QED
      BY <3>2, <3>3
  <2>3. z * (P * (10000 * G3)) <= (H3 * SCALE) * Q
    BY <1>1, <1>7, <1>8, <2>1, <2>2, RoundedAgain
  <2> QED
    BY <2>1, <2>3
<1> HIDE DEF G4
<1>13. share * G4 <= ((burn * w * SCALE) * (Q * Q * Q * Q))
  <2> DEFINE N == (burn * w * SCALE) * (Q * Q * Q * Q)
  <2>1. H4 = N * FINE /\ N \in Nat
    BY <1>1 DEF H1
  <2>2. (share * FINE) * G4 <= z * G4
    BY <1>1, <1>8, <1>9, <1>12, MulMono
  <2>3. (share * FINE) * G4 = (share * G4) * FINE /\ share * G4 \in Nat
    BY <1>1, <1>9, <1>12
  <2> HIDE DEF N, H4
  <2>4. z * G4 \in Nat /\ (share * G4) * FINE \in Nat /\ N * FINE \in Nat
    BY <1>1, <1>8, <1>12, <2>1, <2>3
  <2>5. (share * G4) * FINE <= N * FINE
    BY <1>12, <2>1, <2>2, <2>3, <2>4
  <2>6. FINE > 0
    BY <1>1
  <2> QED
    BY <1>1, <2>1, <2>3, <2>5, <2>6, MulCancel DEF N
<1>14. burn * w * SCALE = 10000 * E /\ E \in Nat
  <2>1. PICK j \in Nat : SCALE = 10 * j
    <3>1. SCALE = 10 * (SCALE \div 10) /\ SCALE \div 10 \in Nat
      BY <1>1
    <3> QED
      BY <3>1
  <2>2. burn * w * SCALE = 10000 * (burn * k * j) /\ burn * k * j \in Nat
    BY <2>1
  <2> DEFINE c == burn * k * j
  <2> HIDE DEF c
  <2>3. E = c
    <3>1. E = (10000 * c) \div 10000 /\ c \in Nat
      BY <2>2 DEF c, WholeShare
    <3> HIDE DEF E
    <3> QED
      BY <3>1
  <2> QED
    BY <2>2, <2>3 DEF c
<1> HIDE DEF E
<1>15. share * P <= E * (P + 5)
  <2> DEFINE p3 == P * P * P
             q4 == Q * Q * Q * Q
  <2>1. p3 \in Nat /\ p3 > 0 /\ q4 \in Nat /\ p3 * (P + 5) \in Nat
    <3>1. P * P \in Nat /\ P * P > 0
      BY <1>1
    <3> QED
      BY <1>1, <3>1
  <2>2. q4 <= p3 * (P + 5)
    BY <1>1, FourRoundings DEF Q
  <2>3. G4 = 10000 * (P * p3) /\ P * p3 \in Nat
    BY <1>1 DEF G4, G3, G2
  <2> HIDE DEF p3, q4
  <2>4. share * (P * p3) <= E * q4
    <3>1. share * (P * p3) \in Nat /\ E * q4 \in Nat
      BY <1>9, <1>14, <2>1, <2>3
    <3>2. share * (10000 * (P * p3)) <= (10000 * E) * q4
      BY <1>13, <1>14, <2>3 DEF q4
    <3>3. share * (10000 * (P * p3)) = 10000 * (share * (P * p3)) /\ (10000 * E) * q4 = 10000 * (E * q4)
      BY <1>9, <1>14, <2>1, <2>3
    <3> QED
      BY <3>1, <3>2, <3>3
  <2>5. q4 * E <= (p3 * (P + 5)) * E
    BY <1>14, <2>1, <2>2, MulMono
  <2>6. (share * P) * p3 <= (E * (P + 5)) * p3
    <3>1. /\ (share * P) * p3 = share * (P * p3)
          /\ (p3 * (P + 5)) * E = (E * (P + 5)) * p3
          /\ q4 * E = E * q4
      BY <1>1, <1>9, <1>14, <2>1
    <3>2. (share * P) * p3 \in Nat /\ E * q4 \in Nat /\ (E * (P + 5)) * p3 \in Nat
      BY <1>1, <1>9, <1>14, <2>1
    <3> QED
      BY <2>4, <2>5, <3>1, <3>2
  <2>7. share * P \in Nat /\ E * (P + 5) \in Nat
    BY <1>1, <1>9, <1>14
  <2> QED
    BY <2>1, <2>6, <2>7, MulCancel
<1>16. share <= E + (5 * E) \div P
  <2> DEFINE q == (5 * E) \div P
  <2>1. q \in Nat /\ 5 * E < (q + 1) * P
    BY <1>1, <1>14, DivFacts, DivAbove
  <2> HIDE DEF q
  <2> SUFFICES ASSUME share >= E + q + 1 PROVE FALSE
    BY <1>9, <1>14, <2>1 DEF q
  <2>2. (E + q + 1) * P <= share * P
    BY <1>1, <1>9, <1>14, <2>1, MulMono
  <2>3. (E + q + 1) * P = E * P + (q + 1) * P /\ E * (P + 5) = E * P + 5 * E
    BY <1>1, <1>14, <2>1
  <2>4. E * P \in Nat /\ (q + 1) * P \in Nat /\ share * P \in Nat
    BY <1>1, <1>9, <1>14, <2>1
  <2> QED
    BY <1>14, <1>15, <2>1, <2>2, <2>3, <2>4
<1>17. share = RoundedShare(burn, w)
  BY DEF share, z, usd, n, t, RoundedShare
<1> QED
  BY <1>9, <1>14, <1>16, <1>17 DEF E, P

---------------------------------------------------------------------------
(* What nav_pro_rata prints *)

\* The arithmetic of one constituent: a share s is paid in u units a token at the
\* rescaled price of raw, where a dollar is d of the pair's own feed; the
\* product may wrap, and s is at most e.
LEMMA PaidAtMost ==
  ASSUME NEW s \in Nat, NEW e \in Nat, s <= e, NEW u \in Nat \ {0},
         NEW raw \in Nat \ {0}, NEW d \in Nat,
         \/ d = SCALE
         \/ d * RESCALE = SCALE /\ raw < SCALE
  PROVE  (((s * u) % WORD) \div Rescaled(raw)) * raw * SCALE <= e * u * d
<1> DEFINE r == Rescaled(raw)
           product == (s * u) % WORD
           base == product \div r
<1>1. SCALE \in Nat \ {0} /\ RESCALE \in Nat \ {0} /\ WORD \in Nat \ {0}
  BY ValuationAssumption
<1>2. product \in Nat /\ product <= e * u /\ e * u \in Nat
  <2>1. s * u <= e * u /\ s * u \in Nat /\ e * u \in Nat
    BY MulMono
  <2> DEFINE su == s * u
  <2>2. su \in Nat /\ su <= e * u
    BY <2>1
  <2> HIDE DEF su
  <2>3. (su % WORD) \in Nat /\ (su % WORD) <= su
    <3>1. su = WORD * (su \div WORD) + (su % WORD) /\ (su % WORD) \in 0..(WORD - 1)
      BY <1>1, <2>2
    <3>2. (su \div WORD) * WORD <= su /\ su \div WORD \in Nat
      BY <1>1, <2>2, DivFacts
    <3>3. WORD * (su \div WORD) \in Nat
      BY <1>1, <3>2
    <3> QED
      BY <2>2, <3>1, <3>3
  <2> QED
    BY <2>1, <2>2, <2>3 DEF su
<1>3. raw * RESCALE \in Nat \ {0} /\ raw <= raw * RESCALE
  <2>1. 1 * raw <= RESCALE * raw /\ RESCALE * raw \in Nat
    BY <1>1, MulMono
  <2>2. RESCALE * raw = raw * RESCALE /\ 1 * raw = raw
    BY <1>1
  <2> QED
    BY <2>1, <2>2
<1>4. r \in Nat \ {0} /\ raw <= r
  BY <1>1, <1>3 DEF Rescaled
<1> HIDE DEF r, product
<1>5. base \in Nat /\ base * r <= product /\ base * r \in Nat
  BY <1>2, <1>4, DivFacts
<1> HIDE DEF base
<1>6. CASE d = SCALE
  <2>1. raw * base <= r * base
    BY <1>4, <1>5, MulMono
  <2>2. raw * base = base * raw /\ r * base = base * r /\ base * raw \in Nat
    BY <1>4, <1>5
  <2>3. base * raw <= e * u
    BY <1>2, <1>5, <2>1, <2>2
  <2>4. (base * raw) * SCALE <= (e * u) * SCALE
    BY <1>1, <1>2, <2>2, <2>3, MulMono
  <2> QED
    BY <1>6, <2>4 DEF r, product, base
<1>7. CASE d * RESCALE = SCALE /\ raw < SCALE
  <2>1. r = raw * RESCALE
    BY <1>7 DEF r, Rescaled
  <2>2. base * r <= e * u
    BY <1>2, <1>5
  <2>3. (base * r) * d <= (e * u) * d
    BY <1>2, <1>5, <2>2, MulMono
  <2>4. (base * r) * d = base * raw * SCALE
    <3>1. (base * (raw * RESCALE)) * d = base * raw * (d * RESCALE)
      BY <1>1, <1>5
    <3> QED
      BY <1>7, <2>1, <3>1
  <2> QED
    BY <2>3, <2>4 DEF r, product, base
<1> QED
  BY <1>6, <1>7

\* An answer that nav_pro_rata kept is a median of the pair it asked for.
LEMMA AnswerFacts ==
  ASSUME ReaderInv, run.program = "nav_pro_rata", NEW o \in out,
         NEW i \in 1..Len(prices), prices[i] # NotFound
  PROVE  /\ o.base = [k \in 1..Len(prices) |-> UserBase(k)]
         /\ Asked[i] \in Pairs /\ run.burn \in Nat
         /\ constituents(run.basket)[i][2] \in Weights
         /\ prices[i] \in Raw[Asked[i]]
<1>1. /\ asked = Len(Asked) /\ Len(prices) = Len(Asked)
      /\ o.base = [k \in 1..Len(prices) |-> UserBase(k)]
  BY DEF ReaderInv, PrintedInv, AnswersInv
<1>2. /\ Asked[i] \in Pairs /\ run.burn \in Nat
      /\ constituents(run.basket)[i][2] \in Weights
  <2>1. /\ run.basket \in {"DCC", "DAG", "DCO"} /\ run.burn \in Nat
        /\ Len(Asked) = Len(constituents(run.basket))
        /\ \A k \in 1..Len(Asked) : Asked[k] \in Pairs
    BY AskedFacts DEF ReaderInv
  <2> QED
    BY <1>1, <2>1, ConstituentFacts
<1>3. prices[i] \in Raw[Asked[i]]
  <2>1. prices[i] \in seen[Asked[i]] \cup {NotFound}
    BY <1>1 DEF ReaderInv, AnswersInv
  <2>2. seen[Asked[i]] \subseteq Raw[Asked[i]] \cup {NotFound}
    BY <1>2 DEF ReaderInv, OracleInv, Medians
  <2> QED
    BY <2>1, <2>2
<1> QED
  BY <1>1, <1>2, <1>3

LEMMA WorthFacts ==
  ASSUME ReaderInv, run.program = "nav_pro_rata", NEW o \in out,
         NEW i \in 1..Len(prices), prices[i] # NotFound,
         Feed[Asked[i]] = SCALE \/ prices[i] < SCALE
  PROVE  o.base[i] * prices[i] * SCALE
           <= (ExactShare(i) + (5 * ExactShare(i)) \div SIGNIFICAND)
                * Unit[Asked[i]] * Feed[Asked[i]]
<1> DEFINE w == constituents(run.basket)[i][2]
           u == Unit[Asked[i]]
           d == Feed[Asked[i]]
           raw == prices[i]
           e == ExactShare(i) + (5 * ExactShare(i)) \div SIGNIFICAND
<1>1. /\ o.base[i] = UserBase(i)
      /\ Asked[i] \in Pairs /\ run.burn \in Nat
      /\ w \in Weights
      /\ raw \in Raw[Asked[i]]
  BY AnswerFacts
<1>2. /\ raw \in Nat /\ u \in Nat \ {0} /\ d \in Nat
      /\ SCALE \in Nat \ {0} /\ SIGNIFICAND \in Nat \ {0}
      /\ d = SCALE \/ (d * RESCALE = SCALE /\ raw < SCALE)
  <2>1. Raw[Asked[i]] \subseteq Nat /\ (d = SCALE \/ d * RESCALE = SCALE)
    BY <1>1, ValuationAssumption
  <2> QED
    BY <1>1, <2>1, ValuationAssumption
<1>3. Share(i) \in Nat /\ ExactShare(i) \in Nat /\ Share(i) <= e
  <2>1. PICK k \in Nat \ {0} : w = 1000 * k
    BY <1>1 DEF Weights
  <2>2. Share(i) = RoundedShare(run.burn, w)
    BY DEF Share, UserUsd, RoundedShare
  <2>3. ExactShare(i) = WholeShare(run.burn, w)
    BY DEF ExactShare, WholeShare
  <2> HIDE DEF w
  <2>4. /\ RoundedShare(run.burn, w) \in Nat /\ WholeShare(run.burn, w) \in Nat
        /\ RoundedShare(run.burn, w)
             <= WholeShare(run.burn, w) + (5 * WholeShare(run.burn, w)) \div SIGNIFICAND
    <3>1. w \in Nat
      BY <2>1
    <3> QED
      BY <1>1, <2>1, <3>1, ShareAtMost
  <2> QED
    BY <2>2, <2>3, <2>4
<1>4. e \in Nat
  <2>1. 5 * ExactShare(i) \in Nat
    BY <1>3
  <2>2. (5 * ExactShare(i)) \div SIGNIFICAND \in Nat
    BY <1>2, <2>1, DivFacts
  <2> QED
    BY <1>3, <2>2
<1> HIDE DEF e
<1>5. CASE raw = 0
  <2>1. UserBase(i) = 0
    BY <1>5 DEF UserBase
  <2>2. o.base[i] * prices[i] * SCALE = 0
    BY <1>1, <1>2, <1>5, <2>1
  <2> HIDE DEF u, d
  <2>3. e * u * d \in Nat
    BY <1>2, <1>4
  <2> QED
    BY <2>2, <2>3 DEF e, u, d
<1>6. CASE raw # 0
  <2>1. o.base[i] = ((Share(i) * u) % WORD) \div Rescaled(raw)
    BY <1>1, <1>6 DEF UserBase
  <2> DEFINE s == Share(i)
  <2>2. s \in Nat /\ s <= e
    BY <1>3
  <2> HIDE DEF s, u, d, raw
  <2>3. (((s * u) % WORD) \div Rescaled(raw)) * raw * SCALE <= e * u * d
    BY <1>2, <1>4, <1>6, <2>2, PaidAtMost
  <2> QED
    BY <2>1, <2>3 DEF s, u, d, raw, e
<1> QED
  BY <1>5, <1>6

\* For any burn, any medians and any moves of the oracle, nav_pro_rata quotes no
\* constituent above its share of the burned value by more than the roundings of
\* the four double operations, five parts in SIGNIFICAND, and not at all while
\* these are less than one.  It needs that a coarse feed stays below SCALE.
THEOREM WorthIsAtMostBurn == Spec => []WorthAtMostBurn
<1>1. ReaderInv => WorthAtMostBurn
  BY WorthFacts DEF WorthAtMostBurn
<1> QED
  BY <1>1, ReaderAlways, PTL

\* The complement of the counterexample to OneFrame: as long as no full-scale
\* feed falls below a dollar and no coarse one reaches SCALE, the price alone
\* tells them apart.
THEOREM OneFrameAboveADollar ==
  ASSUME \A p \in Pairs : \A raw \in Raw[p] : Feed[p] = SCALE <=> raw >= SCALE
  PROVE  Spec => []OneFrame
<1>1. ReaderInv => OneFrame
  <2> SUFFICES ASSUME ReaderInv, run.program = "nav_pro_rata", NEW o \in out,
                      NEW i \in 1..Len(prices), prices[i] # NotFound
               PROVE  Rescaled(prices[i]) * Feed[Asked[i]] = prices[i] * SCALE
    BY DEF OneFrame
  <2> DEFINE d   == Feed[Asked[i]]
             raw == prices[i]
  <2>1. Asked[i] \in Pairs /\ raw \in Raw[Asked[i]]
    BY AnswerFacts
  <2>2. /\ raw \in Nat /\ d \in Nat /\ SCALE \in Nat /\ RESCALE \in Nat
        /\ d = SCALE \/ d * RESCALE = SCALE
    <3>1. Raw[Asked[i]] \subseteq Nat
      BY <2>1, ValuationAssumption
    <3> QED
      BY <2>1, <3>1, ValuationAssumption
  <2>3. d = SCALE <=> raw >= SCALE
    BY <2>1
  <2> HIDE DEF d, raw
  <2>4. CASE d = SCALE
    <3>1. Rescaled(raw) = raw
      BY <2>2, <2>3, <2>4 DEF Rescaled
    <3> QED
      BY <2>4, <3>1 DEF d, raw
  <2>5. CASE d * RESCALE = SCALE /\ raw < SCALE
    <3>1. Rescaled(raw) = raw * RESCALE
      BY <2>2, <2>5 DEF Rescaled
    <3>2. (raw * RESCALE) * d = raw * (d * RESCALE)
      BY <2>2
    <3> QED
      BY <2>5, <3>1, <3>2 DEF d, raw
  <2> QED
    BY <2>2, <2>3, <2>4, <2>5
<1> QED
  BY <1>1, ReaderAlways, PTL

---------------------------------------------------------------------------
(* The keeper *)

\* Whatever the readers do, the pool's side of a run is a run of Upkeep: what
\* is proved of UpkeepSpec holds of Spec.
THEOREM KeeperRunsUpkeep == Spec => UpkeepSpec
<1>1. Init => UpkeepInit
  BY DEF Init
<1>2. [Next]_vars => [UpkeepNext]_upkeepVars
  <2> SUFFICES ASSUME [Next]_vars PROVE UpkeepNext \/ UNCHANGED upkeepVars
    OBVIOUS
  <2> QED
    BY DEF Next, vars, OracleMoves, JsonQuery, JsonPrint, NavQuery, NavPrint, Keep
<1> QED
  BY <1>1, <1>2, PTL DEF Spec, UpkeepSpec
=============================================================================
