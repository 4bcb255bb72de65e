------------------------------ MODULE MCScores ------------------------------
EXTENDS Scores
MCOrgs == 1..2
MCYears == 1..2
MCReturns == {<<1, 1>>, <<1, 2>>, <<2, 1>>}
Symmetric == Permutations(Threads) \cup Permutations(Dims) \cup Permutations(Factors)
=============================================================================
