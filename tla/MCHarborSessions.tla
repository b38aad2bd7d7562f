--------------------------- MODULE MCHarborSessions ---------------------------
(* HarborSessions on small instances. *)
EXTENDS HarborSessions, TLC

CONSTANTS s1, s2, k1, k2, e1, e2

(* Bundles as the SDK makes them, and one with the other key's fingerprint. *)
MCNewBundles == {[key |-> k2, fp |-> k2], [key |-> k1, fp |-> k2]}

(* Both are signed with k1: e1 names it as its author, as the SDK does, and *)
(* e2 names the other identity.                                             *)
MCKeyOf == e1 :> k1 @@ e2 :> k1
MCAuthorOf == e1 :> k1 @@ e2 :> k2
===============================================================================
