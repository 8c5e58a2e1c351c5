---------------------------- MODULE MCMessages ----------------------------
\* An instance of Messages for TLC: two users, of whom one reads.
EXTENDS Messages

MCNames == 1..2
MCNoName == 0
MCReaders == {1}
MCFlags == {0, 1}
===========================================================================
