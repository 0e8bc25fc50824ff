----------------------------- MODULE MCServing -----------------------------
EXTENDS Serving, TLC
=============================================================================
