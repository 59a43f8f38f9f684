----------------------------- MODULE Valuation -----------------------------
(***************************************************************************)
(* The programs that turn oracle prices into values.  pragma_prices_json   *)
(* prints what it read for the front end; nav_pro_rata computes what       *)
(* burned basket tokens are worth in every constituent; a pool's keeper    *)
(* runs the library procedures of Upkeep.  The first two ask the oracle    *)
(* pair by pair while its medians move.  A price is the oracle's raw       *)
(* integer: no reader is told the scale of a feed.                         *)
(***************************************************************************)
EXTENDS Upkeep, SequencesExt

CONSTANTS Raw,       \* the medians each pair's feed may show
          Feed,      \* the median that means one dollar, per pair
          NotFound,  \* the answer for a pair the oracle does not track
          SCALE,     \* one dollar of a full-scale feed, 1e8 in the code
          RESCALE,   \* what nav_pro_rata multiplies a stable feed by, 100 in the code
          SIGNIFICAND, \* doubles up to this are whole numbers without gaps, 2^53
          FINE,      \* a double below one counts this many parts of one, 2^1074
          Spacings,  \* the distances of neighbouring doubles, the powers of two
          WORD,      \* where a u128 product wraps, 2^128
          Unit,      \* base units in a token of each pair's asset
          Sanity,    \* lowest and highest price without a warning, per pair
          Burns,     \* the amounts nav_pro_rata is asked about
          MaxMoves   \* bound: moves of the oracle during a run

\* The pairs, in the order pragma_prices_json asks for them.
PAIRS == <<"eth", "wbtc", "usdt", "dai">>

Pairs == ToSet(PAIRS)

\* A feed is at SCALE, or coarser by RESCALE.
ASSUME ValuationAssumption ==
  /\ \A p \in Pairs : Raw[p] \subseteq Nat /\ NotFound \notin Raw[p]
  /\ \A p \in Pairs : Unit[p] \in Nat \ {0} /\ Feed[p] \in Nat /\ Sanity[p] \in Nat \X Nat
  /\ SCALE \in Nat \ {0} /\ SCALE % 10 = 0 /\ RESCALE \in Nat \ {0}
  /\ \A p \in Pairs : Feed[p] = SCALE \/ Feed[p] * RESCALE = SCALE
  /\ SIGNIFICAND \in Nat /\ SIGNIFICAND >= 8 /\ FINE \in Nat /\ FINE >= 10 * SIGNIFICAND
  /\ Spacings \subseteq Nat \ {0} /\ WORD \in Nat \ {0}
  /\ Burns \subseteq Nat
  /\ MaxMoves \in Nat

\* nav_pro_rata's own table: pairs and weights in basis points.
constituents(basket) ==
  CASE basket = "DCC" -> <<<<"wbtc", 4000>>, <<"eth", 4000>>, <<"usdt", 2000>>>>
    [] basket = "DAG" -> <<<<"wbtc", 5000>>, <<"eth", 5000>>>>
    [] basket = "DCO" -> <<<<"wbtc", 1000>>, <<"eth", 1000>>, <<"usdt", 4000>>, <<"dai", 4000>>>>

VARIABLES run,     \* the program that runs, and its arguments
          oracle,  \* the median of each pair
          seen,    \* history: the medians each pair had since the program started
          asked,   \* how many pairs the program has asked for
          prices,  \* the answers it kept, in that order
          out      \* what it printed

readerVars == <<oracle, seen, asked, prices, out>>

vars == <<run, readerVars, upkeepVars>>

Nothing == {}

Runs ==
  [program : {"pragma_prices_json"}]
    \cup [program : {"nav_pro_rata"}, basket : {"DCC", "DAG", "DCO"}, burn : Burns]
    \cup [program : {"keeper"}]

Asked ==
  CASE run.program = "pragma_prices_json" -> PAIRS
    [] run.program = "nav_pro_rata" ->
         [i \in 1..Len(constituents(run.basket)) |-> constituents(run.basket)[i][1]]
    [] run.program = "keeper" -> <<>>

\* The programs share nothing: one of them runs, and what it never looks at
\* starts at one value.
Init ==
  /\ run \in Runs
  /\ oracle \in {o \in [Pairs -> UNION {Raw[p] : p \in Pairs}] : \A p \in Pairs : o[p] \in Raw[p]}
  /\ seen = [p \in Pairs |-> {oracle[p]}]
  /\ asked = 0
  /\ prices = <<>>
  /\ out = Nothing
  /\ UpkeepInit
  /\ IF run.program = "keeper" THEN oracle = [p \in Pairs |-> Max(Raw[p])]
                                ELSE value = Max(Values)

Moves == MapThenSumSet(LAMBDA p : Cardinality(seen[p]) - 1, Pairs)

\* Publishers post a price the pair did not have yet, or the pair is dropped.
OracleMoves(p) ==
  /\ run.program # "keeper" /\ out = Nothing
  /\ Moves < MaxMoves
  /\ \E raw \in (Raw[p] \cup {NotFound}) \ seen[p] :
       /\ oracle' = [oracle EXCEPT ![p] = raw]
       /\ seen' = [seen EXCEPT ![p] = @ \cup {raw}]
  /\ UNCHANGED <<run, asked, prices, out, upkeepVars>>

---------------------------------------------------------------------------
(* pragma_prices_json *)

Asking(program) == run.program = program /\ out = Nothing /\ asked < Len(Asked)

Answered(program) == run.program = program /\ out = Nothing /\ asked = Len(Asked)

\* Mutant of JsonQuery: an answer without a price is not kept.
JsonQueryKeepsFound ==
  /\ Asking("pragma_prices_json")
  /\ asked' = asked + 1
  /\ prices' \in {prices} \cup
       IF oracle[Asked[asked + 1]] = NotFound
       THEN {} ELSE {Append(prices, oracle[Asked[asked + 1]])}
  /\ UNCHANGED <<run, oracle, seen, out, upkeepVars>>

\* A failed execution and a pair that is not found both become None.
JsonQuery ==
  /\ Asking("pragma_prices_json")
  /\ asked' = asked + 1
  /\ \E answer \in {oracle[Asked[asked + 1]], NotFound} : prices' = Append(prices, answer)
  /\ UNCHANGED <<run, oracle, seen, out, upkeepVars>>

\* The pairs zipped with the answers; a name beyond them stays 0.
JsonValue(p) ==
  IF \E i \in 1..Len(prices) : PAIRS[i] = p /\ prices[i] # NotFound
  THEN prices[CHOOSE i \in 1..Len(prices) : PAIRS[i] = p]
  ELSE 0

OutOfRange(p) == JsonValue(p) = 0 \/ JsonValue(p) < Sanity[p][1] \/ JsonValue(p) > Sanity[p][2]

JsonPrint ==
  /\ Answered("pragma_prices_json")
  /\ out' = {[value  |-> [p \in Pairs |-> JsonValue(p)],
              warned |-> {PAIRS[i] : i \in {k \in 1..Len(prices) : OutOfRange(PAIRS[k])}}]}
  /\ UNCHANGED <<run, oracle, seen, asked, prices, upkeepVars>>

---------------------------------------------------------------------------
(* nav_pro_rata *)

\* A failed execution ends the program; a pair that is not found is left out.
NavQuery ==
  /\ Asking("nav_pro_rata")
  /\ asked' = asked + 1
  /\ prices' = Append(prices, oracle[Asked[asked + 1]])
  /\ UNCHANGED <<run, oracle, seen, out, upkeepVars>>

\* Mutant of Rescaled: the feeds of stable coins are taken as they are.
RescaledNever(raw) == raw

\* What is below a dollar is taken for a stable feed; 0 stays 0.
Rescaled(raw) == IF raw > 0 /\ raw < SCALE THEN raw * RESCALE ELSE raw

\* The distance between the doubles around x, in the unit that x counts.
Spacing(x) == Max({1} \cup {u \in Spacings : u * SIGNIFICAND <= 2 * x})

\* The double next to a / b, the even one of two as near.
f64(a, b) ==
  LET u    == Spacing(a \div b)
      m    == a \div (b * u)
      rest == a % (b * u)
  IN IF 2 * rest > b * u \/ (2 * rest = b * u /\ m % 2 = 1) THEN (m + 1) * u ELSE m * u

\* A constituent's dollars, counted in parts of FINE.
UserUsd(i) == f64(f64(f64(run.burn, 1) * constituents(run.basket)[i][2], 1) * FINE, 10000)

\* The same at SCALE, truncated to an integer.
Share(i) == f64(UserUsd(i) * SCALE, 1) \div FINE

\* A constituent without a price, or with a price of 0, is paid nothing.  The
\* product wraps in the release build, which the usage line asks for.
UserBase(i) ==
  IF prices[i] \in {NotFound, 0}
  THEN 0 ELSE ((Share(i) * Unit[Asked[i]]) % WORD) \div Rescaled(prices[i])

NavPrint ==
  /\ Answered("nav_pro_rata")
  /\ out' = {[base |-> [i \in 1..Len(prices) |-> UserBase(i)]]}
  /\ UNCHANGED <<run, oracle, seen, asked, prices, upkeepVars>>

---------------------------------------------------------------------------
Keep == run.program = "keeper" /\ UpkeepNext /\ UNCHANGED <<run, readerVars>>

Next ==
  \/ \E p \in Pairs : OracleMoves(p)
  \/ JsonQuery \/ JsonPrint
  \/ NavQuery \/ NavPrint
  \/ Keep

Spec == Init /\ [][Next]_vars

---------------------------------------------------------------------------
(* Properties *)

\* A value printed without a warning is a price its own pair had while the
\* program ran, and within its range: failed or missing answers never shift
\* the prices of the pairs behind them, and never pass as prices.
UnwarnedIsReal ==
  run.program = "pragma_prices_json" =>
    \A o \in out : \A p \in Pairs \ o.warned :
      /\ o.value[p] \in seen[p]
      /\ o.value[p] >= Sanity[p][1] /\ o.value[p] <= Sanity[p][2]

\* The share that nav_pro_rata means to pay, at SCALE and without rounding.
ExactShare(i) == (run.burn * constituents(run.basket)[i][2] * SCALE) \div 10000

\* What the base units quoted for a constituent are worth, at the dollars its
\* feed really meant, is never above its share of the burned value as long as
\* a fifth of SIGNIFICAND is not exceeded (18 million dollars), and never more
\* than five parts in SIGNIFICAND above it beyond, where doubles round up.
\* Prices of 0 and products that wrap only make it less.
WorthAtMostBurn ==
  run.program = "nav_pro_rata" =>
    \A o \in out : \A i \in {k \in 1..Len(prices) : prices[k] # NotFound} :
      (Feed[Asked[i]] = SCALE \/ prices[i] < SCALE) =>
        o.base[i] * prices[i] * SCALE
          <= (ExactShare(i) + (5 * ExactShare(i)) \div SIGNIFICAND)
               * Unit[Asked[i]] * Feed[Asked[i]]

\* nav_pro_rata.rs:154-157: "Detect and rescale so the pro-rata math sees a
\* consistent x1e8 frame".
OneFrame ==
  run.program = "nav_pro_rata" =>
    \A o \in out : \A i \in {k \in 1..Len(prices) : prices[k] # NotFound} :
      Rescaled(prices[i]) * Feed[Asked[i]] = prices[i] * SCALE
===========================================================================
