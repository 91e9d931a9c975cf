---------------------------- MODULE MCRendezvous ----------------------------
(***************************************************************************)
(* Values for the constants of Rendezvous.                                 *)
(***************************************************************************)
EXTENDS Rendezvous

\* Three ranks on two hosts: the second with a slot left over, the second with more
\* slots than the first, and with too few slots.
ThreeRanks == {<<2, 2>>, <<1, 2>>, <<1, 1>>}
=============================================================================
