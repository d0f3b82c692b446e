----------------------------- MODULE MCDisChan -----------------------------
(* Instances of DisChan for TLC: two channels and one array of both.       *)
EXTENDS DisChan

CONSTANTS p1, p2, p3, c1, c2, a1

Two    == [a \in Arrays |-> <<c1, c2>>]
One    == [a \in Arrays |-> <<c1>>]

(* An alt that sends on both channels, one that receives from an array,    *)
(* and one that sends on one channel and receives from the other.          *)
OfArray  == {[s |-> <<>>, r |-> <<a1>>]}
Several  == OfArray \cup {[s |-> <<c1, c2>>, r |-> <<>>], [s |-> <<c1>>, r |-> <<c2>>]}
=============================================================================
