---------------------------- MODULE MCAdmission ----------------------------
EXTENDS Admission, TLC
=============================================================================
