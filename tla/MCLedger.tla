------------------------------- MODULE MCLedger -------------------------------
(* Two users at one address of an inbound that may take UDP as well. *)
EXTENDS Ledger, TLC
CONSTANTS u, v
UserV == {u, v}
\* The ledger looks often enough, as RightUser supposes.
InTime == ~outran
Symmetry == Permutations(UserV)
===============================================================================
