----------------------------- MODULE MCMembers -----------------------------
\* An instance of Friends for TLC: two names, three accounts.
EXTENDS Friends

MCNames == 1..2
MCNoName == 0
=============================================================================
