--------------------------- MODULE MCStackCallbacks ---------------------------
EXTENDS StackCallbacks, TLC

CONSTANTS c1, c2, a1, a2

CallbackSymmetry == Permutations({c1, c2}) \union Permutations({a1, a2})
=============================================================================
