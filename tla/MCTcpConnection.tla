-------------------------- MODULE MCTcpConnection --------------------------
(* Instances of TcpConnection for TLC: replies of different lengths, so    *)
(* that two of them fit the limit together and three do not.               *)
EXTENDS TcpConnection

MCSize == <<2, 1, 2, 1, 2>>
MCSizeShort == <<2, 1, 2>>
=============================================================================
