---------------------------- MODULE MCPublishing ----------------------------
EXTENDS Publishing, TLC

\* The two runs differ in nothing but their names, token counts are compared for
\* equality only, and the properties, of states and steps alone, treat them alike.
Alike == Permutations(Writers) \cup Permutations(Tokens)
=============================================================================
