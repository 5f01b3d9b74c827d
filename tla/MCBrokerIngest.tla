---------------------------- MODULE MCBrokerIngest ----------------------------
(* Small instances of BrokerIngest for TLC. *)
EXTENDS BrokerIngest

Call(h, e, n) == [hash |-> h, expiry |-> e, copy |-> n]

CONSTANTS h1, h2

\* One file, with two dates of expiry.
TwoDates == {Call(h1, 2, 1), Call(h1, 3, 1)}

\* Two files that expire on the same day.
SameGroup == {Call(h1, 2, 1), Call(h2, 2, 1)}

Symmetric == Permutations(Worker) \cup Permutations(Slot)
=============================================================================
