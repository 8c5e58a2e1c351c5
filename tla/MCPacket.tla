------------------------------ MODULE MCPacket ------------------------------
\* An instance of Packet for TLC: bytes of two bits, a body of nine bytes.
EXTENDS Packet

MCMapSend == [b \in Byte |-> CASE b = 0 -> 2 [] b = 1 -> 0 [] b = 2 -> 3 [] OTHER -> 1]
MCMapRecv == [b \in Byte |-> CASE b = 0 -> 1 [] b = 1 -> 3 [] b = 2 -> 0 [] OTHER -> 2]
MCStrings == {<<>>, <<1>>, <<2, 3>>}
=============================================================================
