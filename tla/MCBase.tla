------------------------------- MODULE MCBase -------------------------------
\* An instance of Base for TLC: two users, one of whom has the number of a
\* height.
EXTENDS Base

MCUsers == {1, 9}
MCWidths == {8}
MCHeight == [w \in MCWidths |-> 9]
MCTimes == {20}
=============================================================================
