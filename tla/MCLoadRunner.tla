---------------------------- MODULE MCLoadRunner ----------------------------
EXTENDS LoadRunner, TLC
=============================================================================
