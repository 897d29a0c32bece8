------------------------------ MODULE MCBoard ------------------------------
EXTENDS Board, TLC
CONSTANTS console, locator, m1, m2, t

MacSymmetry == Permutations(Mac)
=============================================================================
