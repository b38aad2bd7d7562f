---------------------------- MODULE MCLiveCrossing ----------------------------
(* A pair without a record that asks for a capability of each tier, and a    *)
(* pair the mesh has vouched for, whose grant may lie in the way.            *)
EXTENDS LiveCrossing

CONSTANTS new, known, look, fetch, write, r1, r2, r3

MCPairOf == [q \in {r1, r2, r3} |-> new]
MCCapOf == [q \in {r1, r2, r3} |-> CASE q = r1 -> look [] q = r2 -> fetch [] OTHER -> write]
MCNeeds == [c \in {look, fetch, write} |-> CASE c = look -> 1 [] c = fetch -> 2 [] OTHER -> 3]
MCMesh == [p \in {new, known} |-> IF p = known THEN 2 ELSE 0]

T(p, caps, max, span, rate, life) ==
  [pair |-> p, caps |-> caps, max |-> max, span |-> span, rate |-> rate, life |-> life]

(* A wide grant, a narrow one that lapses early, one for the other pair, and *)
(* one whose rate bound would never bind.                                    *)
MCTerms ==
  { T(new, {look, fetch, write}, 3, 2, 1, 3), T(new, {look}, 1, 1, 1, 1),
    T(known, {fetch}, 1, 2, 1, 1), T(new, {look}, 1, 2, 2, 3) }
===============================================================================
