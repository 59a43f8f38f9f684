---------------------------- MODULE MCRoundTrip ----------------------------
(***************************************************************************)
(* Instances of RoundTrip for TLC, whose integers have 32 bits: the prime  *)
(* and the fee denominator are scaled down together (a fee of 1 is 10 %),  *)
(* so that products of three operands still straddle the prime.            *)
(***************************************************************************)
EXTENDS RoundTrip

McDeposits == {<< <<7, 3>>, <<2, 5>> >>,
               << <<3, 4>>, <<1, 1>>, <<5, 2>> >>,
               << <<2, 2>>, <<3, 1>>, <<4, 2>>, <<1, 3>> >>,
               << <<90, 100>>, <<70, 80>> >>}

McWeightings == {<<6, 4>>, <<3, 3>>, <<4, 3, 3>>, <<2, 3, 4, 1>>}
===========================================================================
