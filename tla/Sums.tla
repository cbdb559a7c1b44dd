-------------------------------- MODULE Sums --------------------------------
(* Sums over finite sets, with the community modules' fold.                  *)
EXTENDS Integers, Folds

\* The sum of count[x] for the x in S.
SumOver(count, S) ==
    MapThenFoldSet(LAMBDA a, b : a + b, 0, LAMBDA x : count[x],
                   LAMBDA s : CHOOSE x \in s : TRUE, S)
=============================================================================
