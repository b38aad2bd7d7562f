----------------------------- MODULE HarborTrust ------------------------------
(***************************************************************************)
(* Who may hand out authority, use it and take it back: the grant,         *)
(* revocation and action gates of vouch:submit (harbor.js) over            *)
(* protocol/src/core/vh-trust.js under grantPolicy "strict".               *)
(*                                                                         *)
(* The gates are pure functions of the links the ledger has in memory, the *)
(* newest ChainMemory of the log.  What passes a gate joins the append     *)
(* queue and is recorded later: other links may be recorded in between     *)
(* (Ledger, HarborSessions).  The author of a vouch is the fingerprint it  *)
(* is recorded under (HarborSessions, SignerBound).                        *)
(*                                                                         *)
(* "delegate:<scope>" and "admin:<scope>" count alike everywhere, so one   *)
(* token stands for both.  A declaration of several capabilities is the    *)
(* same as one declaration of each.                                        *)
(***************************************************************************)
EXTENDS Naturals, Sequences

CONSTANTS
  Ids,          \* fingerprints
  Authorities,  \* the harbour's root key and those the operator named
  Tokens,       \* actions and capability tokens
  Any,          \* "*"
  Wild,         \* "*", "delegate:*" and "admin:*"
  Claim,        \* "capability", the token whose revocation ends attestation
  Scopes,       \* scopes other than "*"
  ScopeToken,   \* "delegate:<scope>" of each
  None,         \* no scope, no fingerprint, no token
  Facts,        \* the vouches and rotations members submit
  MaxDepth,     \* config.maxDelegationDepth
  ChainMemory,  \* config.chainMemory
  MaxLinks,     \* bound on the log
  MaxPending    \* bound on the append queue

Fact == [kind : {"capability", "endorsement", "authorization", "revocation",
                 "agent_action", "rotate", "other"},
         by : Ids, to : Ids \cup {None}, token : Tokens \cup {None},
         scope : Scopes \cup {None}, root : Ids \cup {None}, depth : Nat]

ASSUME TrustAssumption ==
  /\ Authorities \subseteq Ids
  /\ Any \in Wild /\ Wild \subseteq Tokens
  /\ ScopeToken \in [Scopes -> Tokens \ Wild]
  /\ None \notin Ids \cup Tokens \cup Scopes
  /\ Facts \subseteq Fact
  /\ \A f \in Facts :
       /\ f.kind \in {"authorization", "endorsement", "revocation", "rotate"} => f.to \in Ids
       /\ f.kind \in {"authorization", "capability", "revocation", "agent_action"}
            => f.token \in Tokens
  /\ MaxDepth \in Nat /\ ChainMemory \in Nat \ {0}
  /\ MaxLinks \in Nat /\ MaxPending \in Nat

VARIABLES
  log,      \* every recorded link, oldest first
  pending,  \* what passed the gates and waits in the append queue
  expired   \* positions of the grants whose expiresAt has passed

vars == <<log, pending, expired>>

(* ledger.links *)
Window == {i \in 1..Len(log) : i + ChainMemory > Len(log)}

(* The authorities and their successors, through the rotations at W: the    *)
(* least set that holds the authorities and every key a member rotated to.  *)
DesignatedIn(W) ==
  {k \in Ids : \A S \in SUBSET Ids :
     /\ Authorities \subseteq S
     /\ \A i \in W : log[i].kind = "rotate" /\ log[i].by \in S => log[i].to \in S
     => k \in S}

(* authorityFps *)
Designated == DesignatedIn(Window)

(* Variant: before RULE 6, anyone's revocation of anyone counts. *)
RevokedFor_Anyone(k) ==
  {log[i].token : i \in {w \in Window : log[w].kind = "revocation" /\ log[w].to = k}}

(* _revokedActions *)
RevokedFor(k) ==
  {log[i].token : i \in {w \in Window :
     /\ log[w].kind = "revocation" /\ log[w].to = k
     /\ k \in Designated => log[w].by \in Designated}}

(* Variant: a revocation of everything is not looked for. *)
Withdrawn_NamedOnly(k, token) == token \in RevokedFor(k)

Withdrawn(k, token) == {Any, token} \cap RevokedFor(k) # {}

(* isAttested *)
Attested(k) ==
  \/ k \in Designated
  \/ /\ ~Withdrawn(k, Claim)
     /\ \E i \in Window :
          \/ log[i].kind = "capability" /\ log[i].by = k
          \/ log[i].kind = "endorsement" /\ log[i].to = k

(* A live grant to k, as far as k's own revocations and its expiry go. *)
HoldsGrant(k, i) ==
  /\ log[i].kind = "authorization" /\ log[i].to = k
  /\ i \notin expired
  /\ ~Withdrawn(k, log[i].token)

(* Variant: before RULE 5, whoever declares a token may delegate it. *)
DelegableTokens_Claims(k) ==
  LET given == {log[i].token : i \in {w \in Window : HoldsGrant(k, w)}}
      claimed == {log[i].token : i \in {w \in Window :
                    /\ log[w].kind = "capability" /\ log[w].by = k
                    /\ ~Withdrawn(k, log[w].token)}}
  IN (given \cup claimed) \ (IF k \in Designated THEN {} ELSE Wild)

(* delegableTokens *)
DelegableTokens(k) ==
  LET given == {log[i].token : i \in {w \in Window : HoldsGrant(k, w)}}
      claimed == {log[i].token : i \in {w \in Window :
                    /\ k \in Designated
                    /\ log[w].kind = "capability" /\ log[w].by = k
                    /\ ~Withdrawn(k, log[w].token)}}
  IN (given \cup claimed) \ (IF k \in Designated THEN {} ELSE Wild)

(* The tokens that let their holder delegate token within scope. *)
Covering(token, scope) ==
  IF token = Any THEN Wild
  ELSE Wild \cup {token} \cup (IF scope = None THEN {} ELSE {ScopeToken[scope]})

(* canDelegate *)
CanDelegate(k, token, scope) == DelegableTokens(k) \cap Covering(token, scope) # {}

(* The parent grants of a delegated one. *)
Parents(f) == {i \in Window : HoldsGrant(f.by, i) /\ log[i].by = f.root}

ParentCovers(grant, f) ==
  grant.token = f.token \/ (grant.token = Any /\ grant.by \in Authorities)

(* verifyGrantAuthority *)
GrantAuthority(f) ==
  IF f.root = None
  THEN Attested(f.by) /\ CanDelegate(f.by, f.token, f.scope)
  ELSE /\ f.depth \in 1..MaxDepth
       /\ Attested(f.root)
       /\ Parents(f) # {}
       /\ \/ \E i \in Parents(f) : ParentCovers(log[i], f)
          \/ CanDelegate(f.by, f.token, f.scope)

(* findAuthorization: there is one. *)
FindAuthorization(k, action) ==
  \E i \in Window :
    /\ HoldsGrant(k, i)
    /\ log[i].token \in {action, Any}
    /\ CanDelegate(log[i].by, log[i].token, log[i].scope)

(* The revocation gate of vouch:submit. *)
MayRevoke(f) == f.to \in Designated => f.by \in Designated

(* The gates of vouch:submit; a rotation has its own (HarborSessions). *)
Passes(f) ==
  /\ f.kind = "authorization" => GrantAuthority(f)
  /\ f.kind = "revocation" => MayRevoke(f)
  /\ f.kind = "agent_action" => FindAuthorization(f.by, f.token)

-------------------------------------------------------------------------------
Init ==
  /\ log = <<>>
  /\ pending = <<>>
  /\ expired = {}

(* vouch:submit from the gates to the call of record, one synchronous block *)
Submit(f) ==
  /\ Len(pending) < MaxPending
  /\ Len(log) + Len(pending) < MaxLinks
  /\ Passes(f)
  /\ pending' = Append(pending, f)
  /\ UNCHANGED <<log, expired>>

(* Variant: the link is recorded without its author. *)
Record_NoAuthor ==
  /\ pending # <<>>
  /\ log' = Append(log, [Head(pending) EXCEPT !.by = None])
  /\ pending' = Tail(pending)
  /\ UNCHANGED expired

(* The oldest append in the queue commits. *)
Record ==
  /\ pending # <<>>
  /\ log' = Append(log, Head(pending))
  /\ pending' = Tail(pending)
  /\ UNCHANGED expired

(* The clock passes a grant's expiresAt. *)
Expire(i) ==
  /\ log[i].kind = "authorization"
  /\ i \notin expired
  /\ expired' = expired \cup {i}
  /\ UNCHANGED <<log, pending>>

(* The harbour restarts from its file: the queue is gone. *)
Restart ==
  /\ pending # <<>>
  /\ pending' = <<>>
  /\ UNCHANGED <<log, expired>>

Next ==
  \/ \E f \in Facts : Submit(f)
  \/ Record
  \/ \E i \in 1..Len(log) : Expire(i)
  \/ Restart

Spec == Init /\ [][Next]_vars

-------------------------------------------------------------------------------
(* The types of the state. *)
TypeOK ==
  /\ log \in Seq(Facts)
  /\ pending \in Seq(Facts)
  /\ expired \in SUBSET (1..Len(log))

(* Everyone who was ever an authority or its successor. *)
Lineage == DesignatedIn(1..Len(log))

(* The grant entitles its subject to issue f. *)
SourceOf(f, grant) ==
  /\ grant.kind = "authorization" /\ grant.to = f.by
  /\ \/ grant.token \in Covering(f.token, f.scope) \ Wild
     \/ f.root # None /\ ParentCovers(grant, f)

(* RULES 3 to 5.  Every recorded grant comes from an authority, its         *)
(* successor, or the subject of an EARLIER recorded grant that covers it:   *)
(* followed back, every chain of grants ends at someone the operator named, *)
(* whatever was claimed, revoked, rotated or forgotten meanwhile, and       *)
(* although a grant is recorded later than it is checked.                   *)
GrantsHaveSource ==
  \A i \in 1..Len(log) : log[i].kind = "authorization" =>
    \/ log[i].by \in Lineage
    \/ \E j \in 1..(i - 1) : SourceOf(log[i], log[j])

(* An authority that the harbour remembers has withdrawn t from k.          *)
RevokedByAuthority(k, t) ==
  \E i \in Window :
    /\ log[i].kind = "revocation" /\ log[i].to = k
    /\ log[i].token \in {Any, t} /\ log[i].by \in Lineage

(* The link is k's claim of t, or a grant of t to k.                        *)
Gives(link, k, t) ==
  \/ link.kind = "capability" /\ link.by = k /\ link.token = t
  \/ link.kind = "authorization" /\ link.to = k /\ link.token = t

(* RULE 6.  What an authority may hand out shrinks in three ways only: a    *)
(* grant expires, an authority has revoked the token, or the harbour        *)
(* forgets the link the token, or the designation, came from.  A stranger's *)
(* revocation takes nothing, no matter when it was checked, when it was     *)
(* recorded, which rotation it raced with and what was forgotten between.   *)
AuthorityWithdrawnByAuthority ==
  [][\A k \in Designated : \A t \in DelegableTokens(k) \ DelegableTokens(k)' :
       \/ expired' # expired
       \/ RevokedByAuthority(k, t)'
       \/ \E i \in Window \ Window' :
            \/ Gives(log[i], k, t)
            \/ k \notin Designated' /\ log[i].kind = "rotate"]_vars

(* THREAT-MODEL: a withdrawal "is deliberately sticky".  How sticky it is   *)
(* in a harbour that forgets: when the standing of a member was withdrawn   *)
(* as a whole, what the member still gets recorded was let through before   *)
(* the withdrawal was on record (the queue held both), or long after, by a  *)
(* grant the member received later than the withdrawal, which the harbour   *)
(* has forgotten by then.                                                   *)
WithdrawalReaches ==
  \A p \in 1..Len(log) : \A r \in 1..(p - 1) :
    /\ log[p].kind \in {"authorization", "agent_action"}
    /\ log[r].kind = "revocation" /\ log[r].to = log[p].by /\ log[r].token = Any
    /\ log[p].by \notin Lineage
    => \/ p < r + MaxPending
       \/ /\ r + ChainMemory < p
          /\ \E i \in (r + 1)..(p - 1) :
               log[i].kind = "authorization" /\ log[i].to = log[p].by
===============================================================================
