---------------------------- MODULE MCHarborTrust -----------------------------
(* Small instances of HarborTrust: an operator, a successor key, two          *)
(* members, one action, "*", and the delegation token of one scope.           *)
EXTENDS HarborTrust

CONSTANTS op, op2, b, c, pay, anything, fin, delegateFin, claim, none

F(kind, by, to, token) ==
  [kind |-> kind, by |-> by, to |-> to, token |-> token,
   scope |-> none, root |-> none, depth |-> 0]

Under(f, root, depth) == [f EXCEPT !.root = root, !.depth = depth]
Within(f, scope) == [f EXCEPT !.scope = scope]

MCScopeToken == [s \in {fin} |-> delegateFin]

(* Claims, grants and delegated grants, with and without a source;          *)
(* rotation of the operator's key, and revocations that race with it.       *)
TrustFacts ==
  { F("capability", op2, none, pay),
    F("capability", op, none, anything), F("capability", b, none, pay),
    F("endorsement", op, c, none),
    F("authorization", op, b, pay), F("authorization", op, b, delegateFin),
    F("authorization", op, b, anything), F("authorization", op2, b, pay),
    F("authorization", b, c, pay), Within(F("authorization", b, c, pay), fin),
    Under(F("authorization", b, c, pay), op, 1),
    Under(F("authorization", b, c, pay), op, 3),
    Under(F("authorization", c, b, pay), b, 1),
    F("rotate", op, op2, none), F("rotate", b, c, none),
    F("revocation", b, op, anything), F("revocation", b, op2, anything),
    F("revocation", op, op2, pay), F("revocation", op, b, anything),
    F("revocation", c, b, claim),
    F("agent_action", b, none, pay), F("agent_action", c, none, pay) }
===============================================================================
