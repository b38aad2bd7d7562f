------------------------------- MODULE MCLedger -------------------------------
(* The ledger and chain:verify on small instances. *)
EXTENDS LedgerVerify, TLC

CONSTANTS e0, e1, e2, e3, e4

MCLegacy == <<e0>>
MCNoLegacy == <<>>
Symmetry == Permutations({e1, e2, e3, e4})
===============================================================================
