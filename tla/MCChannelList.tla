--------------------------- MODULE MCChannelList ---------------------------
(* Instances of ChannelList for TLC: a response of seven positions.        *)
EXTENDS ChannelList

Cut(cuts) ==
    {<<a, Min({c \in cuts \cup {Length} : c > a}) - 1>> : a \in cuts \cup {0}}

(* Every way to cut the response into packets that do not overlap.         *)
MCAligned == {Cut(cuts) : cuts \in SUBSET (1..(Length - 1))}
(* Packets of several sizes: sent, and sent again in other pieces.         *)
MCOverlapping == {Cut({2, 4}) \cup Cut({3}) \cup Cut({1, 5}), Cut({4}) \cup Cut({2, 5}) \cup Cut({3, 6})}
MCSegmentations == MCAligned \cup MCOverlapping
=============================================================================
