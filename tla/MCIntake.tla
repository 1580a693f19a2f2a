------------------------------- MODULE MCIntake -------------------------------
EXTENDS InputSubscriptions
=============================================================================
