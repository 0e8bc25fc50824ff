--------------------------- MODULE MCRateLimiter ---------------------------
EXTENDS RateLimiter, TLC

\* Every action and property treats the clients alike.
ClientSymmetry == Permutations(Clients)

=============================================================================
