---------------------------- MODULE MCDhcpClient ----------------------------
(* Instances of DhcpClient for TLC. One tick is four seconds: one interval *)
(* before the first retransmission, a budget of eight (30 s), one for the  *)
(* start of the sniffer and one between failed renewals.                   *)
EXTENDS DhcpClient

(* T1 at 3, T2 at 5, end at 6.                                             *)
Ordinary == [lease |-> 6, t1 |-> 3, t2 |-> 5]
(* Values _parse_reply has to repair, and a lease that is over at once.    *)
Disordered == [lease |-> 4, t1 |-> 9, t2 |-> 0]
Shortest == [lease |-> 1, t1 |-> 1, t2 |-> 1]
Refused == [lease |-> 0, t1 |-> 1, t2 |-> 1]

OneTerm == {Ordinary}
OddTerms == {Disordered, Shortest, Refused}
BothModes == {TRUE, FALSE}
=============================================================================
