-------------------------- MODULE HarborTrustProofs ---------------------------
(***************************************************************************)
(* Theorems about HarborTrust, for any number of members, tokens and       *)
(* links, any depth cap and any amount of chain memory: where authority    *)
(* comes from and how it is withdrawn, in a harbour that forgets.          *)
(***************************************************************************)
EXTENDS HarborTrust, SequenceTheorems, TLAPS

LEMMA InitTyped == Init => TypeOK
BY DEF Init, TypeOK

LEMMA TypedStep == TypeOK /\ [Next]_vars => TypeOK'
<1> SUFFICES ASSUME TypeOK, [Next]_vars PROVE TypeOK'
  OBVIOUS
<1>1. ASSUME NEW f \in Facts, Submit(f)
      PROVE  TypeOK'
  BY <1>1 DEF Submit, TypeOK
<1>2. CASE Record
  BY <1>2 DEF Record, TypeOK
<1>3. ASSUME NEW i \in 1..Len(log), Expire(i)
      PROVE  TypeOK'
  BY <1>3 DEF Expire, TypeOK
<1>4. CASE Restart
  BY <1>4 DEF Restart, TypeOK
<1>5. CASE UNCHANGED vars
  BY <1>5 DEF vars, TypeOK
<1>6. QED
  BY <1>1, <1>2, <1>3, <1>4, <1>5 DEF Next

(* The state is well typed. *)
THEOREM TrustTyped == Spec => []TypeOK
BY InitTyped, TypedStep, PTL DEF Spec

-------------------------------------------------------------------------------
(* Whoever the window designates, the whole record does. *)
LEMMA WindowDesignates == Designated \subseteq Lineage
BY DEF Designated, Lineage, DesignatedIn, Window

(* Designation is never lost as the record grows. *)
LEMMA LineageGrows ==
  ASSUME TypeOK, NEW f \in Facts, log' = Append(log, f)
  PROVE  Lineage \subseteq Lineage'
<1>1. 1..Len(log) \subseteq 1..Len(log') /\ \A i \in 1..Len(log) : log'[i] = log[i]
  BY DEF TypeOK
<1>2. QED
  BY <1>1 DEF Lineage, DesignatedIn

HasSource(f) ==
  f.by \in Lineage \/ \E j \in 1..Len(log) : SourceOf(f, log[j])

(* The grant gate lets nothing pass that has no source on record. *)
LEMMA GateFindsSource ==
  ASSUME NEW f \in Facts, f.kind = "authorization", Passes(f)
  PROVE  HasSource(f)
<1>1. CASE f.by \in Designated
  BY <1>1, WindowDesignates DEF HasSource
<1>2. CASE f.by \notin Designated
  <2>1. ASSUME NEW i \in Window, HoldsGrant(f.by, i),
               \/ log[i].token \in Covering(f.token, f.scope) \ Wild
               \/ f.root # None /\ ParentCovers(log[i], f)
        PROVE  HasSource(f)
    BY <2>1 DEF Window, HoldsGrant, SourceOf, HasSource
  <2>2. ASSUME CanDelegate(f.by, f.token, f.scope)
        PROVE  HasSource(f)
    <3>1. PICK t \in DelegableTokens(f.by) : t \in Covering(f.token, f.scope)
      BY <2>2 DEF CanDelegate
    <3>2. t \notin Wild /\ \E i \in Window : HoldsGrant(f.by, i) /\ log[i].token = t
      BY <1>2, <3>1 DEF DelegableTokens
    <3>3. QED
      BY <2>1, <3>1, <3>2
  <2>3. GrantAuthority(f)
    BY DEF Passes
  <2>4. \/ CanDelegate(f.by, f.token, f.scope)
        \/ f.root # None /\ \E i \in Parents(f) : ParentCovers(log[i], f)
    BY <2>3 DEF GrantAuthority
  <2>5. QED
    BY <2>1, <2>2, <2>4 DEF Parents
<1>3. QED
  BY <1>1, <1>2

(* A grant that waits in the queue had its source on record when it was     *)
(* checked, and what is on record stays there.                              *)
SourceInv ==
  /\ GrantsHaveSource
  /\ \A p \in 1..Len(pending) : pending[p].kind = "authorization" => HasSource(pending[p])

(* A step that leaves the record alone. *)
LEMMA SourceKept ==
  ASSUME SourceInv, UNCHANGED log,
         \A p \in 1..Len(pending') :
           pending'[p].kind = "authorization" => HasSource(pending'[p])
  PROVE  SourceInv'
<1>1. GrantsHaveSource'
  BY DEF SourceInv, GrantsHaveSource, Lineage, DesignatedIn
<1>2. \A f : HasSource(f) => (f.by \in Lineage' \/ \E j \in 1..Len(log') : SourceOf(f, log'[j]))
  BY DEF HasSource, Lineage, DesignatedIn
<1>3. QED
  BY <1>1, <1>2 DEF SourceInv, HasSource

LEMMA RecordSource ==
  ASSUME TypeOK, SourceInv, Record
  PROVE  SourceInv'
<1> DEFINE h == Head(pending)
           n == Len(log)
<1>1. h \in Facts /\ n \in Nat /\ log' = Append(log, h) /\ pending' = Tail(pending)
  BY DEF Record, TypeOK
<1>2. Len(log') = n + 1 /\ log'[n + 1] = h /\ \A i \in 1..n : log'[i] = log[i]
  BY <1>1 DEF TypeOK
<1>3. h.kind = "authorization" => HasSource(h)
  BY DEF Record, SourceInv, TypeOK
<1>4. Lineage \subseteq Lineage'
  BY <1>1, LineageGrows
<1> HIDE DEF h, n
<1>5. \A f : HasSource(f) => (f.by \in Lineage' \/ \E j \in 1..n : SourceOf(f, log'[j]))
  BY <1>2, <1>4 DEF HasSource, n
<1>6. ASSUME NEW i \in 1..(n + 1), log'[i].kind = "authorization"
      PROVE  log'[i].by \in Lineage' \/ \E j \in 1..(i - 1) : SourceOf(log'[i], log'[j])
  <2>1. CASE i = n + 1
    <3>1. 1..n = 1..(i - 1)
      BY <1>1, <2>1
    <3>2. QED
      BY <1>2, <1>3, <1>5, <1>6, <2>1, <3>1
  <2>2. CASE i \in 1..n
    <3>1. log[i].by \in Lineage \/ \E j \in 1..(i - 1) : SourceOf(log[i], log[j])
      BY <1>2, <1>6, <2>2 DEF SourceInv, GrantsHaveSource, n
    <3>2. \A j \in 1..(i - 1) : j \in 1..n
      BY <1>1, <2>2
    <3>3. QED
      BY <1>2, <1>4, <2>2, <3>1, <3>2
  <2>3. i = n + 1 \/ i \in 1..n
    BY <1>1
  <2>4. QED
    BY <2>1, <2>2, <2>3
<1>7. GrantsHaveSource'
  BY <1>2, <1>6 DEF GrantsHaveSource
<1>8. \A p \in 1..Len(pending') : p + 1 \in 1..Len(pending) /\ pending'[p] = pending[p + 1]
  BY <1>1 DEF Record, TypeOK
<1>9. ASSUME NEW p \in 1..Len(pending'), pending'[p].kind = "authorization"
      PROVE  HasSource(pending[p])'
  <2>1. HasSource(pending[p + 1])
    <3>1. p + 1 \in 1..Len(pending) /\ pending[p + 1].kind = "authorization"
      BY <1>8, <1>9
    <3>2. \A q \in 1..Len(pending) : pending[q].kind = "authorization" => HasSource(pending[q])
      BY DEF SourceInv
    <3>3. QED
      BY <3>1, <3>2
  <2>2. pending'[p].by \in Lineage' \/ \E j \in 1..n : SourceOf(pending'[p], log'[j])
    BY <1>5, <1>8, <2>1
  <2>3. 1..n \subseteq 1..Len(log')
    BY <1>1, <1>2
  <2>4. QED
    BY <2>2, <2>3 DEF HasSource
<1>10. QED
  BY <1>7, <1>9 DEF SourceInv

LEMMA SourceStep == TypeOK /\ SourceInv /\ [Next]_vars => SourceInv'
<1> SUFFICES ASSUME TypeOK, SourceInv, [Next]_vars PROVE SourceInv'
  OBVIOUS
<1>1. ASSUME NEW f \in Facts, Submit(f)
      PROVE  SourceInv'
  <2>1. f.kind = "authorization" => HasSource(f)
    BY <1>1, GateFindsSource DEF Submit
  <2>2. pending' = Append(pending, f) /\ UNCHANGED log
    BY <1>1 DEF Submit
  <2>3. \A p \in 1..Len(pending') :
          \/ p \in 1..Len(pending) /\ pending'[p] = pending[p]
          \/ pending'[p] = f
    BY <2>2 DEF TypeOK
  <2>4. QED
    BY <2>1, <2>2, <2>3, SourceKept DEF SourceInv
<1>2. CASE Record
  BY <1>2, RecordSource
<1>3. ASSUME NEW i \in 1..Len(log), Expire(i)
      PROVE  SourceInv'
  BY <1>3, SourceKept DEF Expire, SourceInv
<1>4. CASE Restart
  BY <1>4, SourceKept DEF Restart
<1>5. CASE UNCHANGED vars
  BY <1>5, SourceKept DEF vars, SourceInv
<1>6. QED
  BY <1>1, <1>2, <1>3, <1>4, <1>5 DEF Next

(* RULES 3 to 5 for every instance: authority that is handed out was given  *)
(* by the operator or received, never only claimed.  The inductive part is  *)
(* that a grant in the append queue keeps the source it was checked by.     *)
THEOREM AuthorityHasSource == Spec => []GrantsHaveSource
<1>1. Init => SourceInv
  BY DEF Init, SourceInv, GrantsHaveSource
<1>2. SourceInv => GrantsHaveSource
  BY DEF SourceInv
<1>3. QED
  BY <1>1, <1>2, SourceStep, TrustTyped, PTL DEF Spec

-------------------------------------------------------------------------------
(* Whom the authorities, their successors and the grants on record reach:   *)
(* the least set that holds the lineage and, with the issuer of a grant,    *)
(* its subject.                                                             *)
ClosedUnderGrants(S) ==
  /\ Lineage \subseteq S
  /\ \A j \in 1..Len(log) :
       log[j].kind = "authorization" /\ log[j].by \in S => log[j].to \in S

Reached == {k \in Ids : \A S \in SUBSET Ids : ClosedUnderGrants(S) => k \in S}

IssuersReached ==
  \A i \in 1..Len(log) : log[i].kind = "authorization" => log[i].by \in Reached

(* Who was reached stays reached as the record grows, and a grant whose     *)
(* source is on record is issued by someone reached.                        *)
LEMMA ReachedGrows ==
  ASSUME TypeOK, IssuersReached, NEW h \in Facts, log' = Append(log, h)
  PROVE  /\ Reached \subseteq Reached'
         /\ HasSource(h) => h.by \in Reached'
<1>1. /\ 1..Len(log) \subseteq 1..Len(log')
      /\ \A i \in 1..Len(log) : log'[i] = log[i]
  BY DEF TypeOK
<1>2. Lineage \subseteq Lineage'
  BY LineageGrows
<1>3. \A S \in SUBSET Ids : ClosedUnderGrants(S)' => ClosedUnderGrants(S)
  BY <1>1, <1>2 DEF ClosedUnderGrants
<1>4. Reached \subseteq Reached'
  BY <1>3 DEF Reached
<1>5. h.by \in Ids
  BY TrustAssumption DEF Fact
<1>6. CASE h.by \in Lineage
  BY <1>2, <1>5, <1>6 DEF Reached, ClosedUnderGrants
<1>7. ASSUME NEW j \in 1..Len(log), SourceOf(h, log[j])
      PROVE  h.by \in Reached'
  <2>1. log[j].kind = "authorization" /\ log[j].to = h.by /\ log[j].by \in Reached'
    BY <1>4, <1>7 DEF SourceOf, IssuersReached
  <2>2. j \in 1..Len(log') /\ log'[j] = log[j]
    BY <1>1
  <2>3. \A S \in SUBSET Ids : ClosedUnderGrants(S)' => h.by \in S
    BY <2>1, <2>2 DEF Reached, ClosedUnderGrants
  <2>4. QED
    BY <1>5, <2>3 DEF Reached
<1>8. QED
  BY <1>4, <1>6, <1>7 DEF HasSource

LEMMA ReachedStep == TypeOK /\ SourceInv /\ IssuersReached /\ [Next]_vars => IssuersReached'
<1> SUFFICES ASSUME TypeOK, SourceInv, IssuersReached, [Next]_vars PROVE IssuersReached'
  OBVIOUS
<1>1. CASE Record
  <2> DEFINE h == Head(pending)
  <2>1. h \in Facts /\ log' = Append(log, h)
    BY <1>1 DEF Record, TypeOK
  <2>2. h.kind = "authorization" => HasSource(h)
    BY <1>1 DEF Record, SourceInv, TypeOK
  <2> HIDE DEF h
  <2>3. \A i \in 1..Len(log') :
          \/ i \in 1..Len(log) /\ log'[i] = log[i]
          \/ log'[i] = h
    BY <2>1 DEF TypeOK
  <2>4. QED
    BY <2>1, <2>2, <2>3, ReachedGrows DEF IssuersReached
<1>2. CASE UNCHANGED log
  BY <1>2 DEF IssuersReached, Reached, ClosedUnderGrants, Lineage, DesignatedIn
<1>3. QED
  BY <1>1, <1>2 DEF Next, Submit, Expire, Restart, vars

(* RULES 3 to 5, followed all the way back: whoever has issued a recorded   *)
(* grant is an authority, a successor of one, or at the end of a chain of   *)
(* recorded grants that starts at one.  No circle of members who grant to   *)
(* each other gets a first grant on record.                                 *)
THEOREM GrantsReachBack == Spec => []IssuersReached
<1>1. Init => SourceInv /\ IssuersReached
  BY DEF Init, SourceInv, GrantsHaveSource, IssuersReached
<1>2. QED
  BY <1>1, SourceStep, ReachedStep, TrustTyped, PTL DEF Spec

(* Who acts, has acted or waits to.                                          *)
ActorsReached ==
  \A i \in 1..Len(log) : log[i].kind = "agent_action" => log[i].by \in Reached

QueuedActorsReached ==
  \A p \in 1..Len(pending) : pending[p].kind = "agent_action" => pending[p].by \in Reached

LEMMA ActionGateReaches ==
  ASSUME IssuersReached, NEW f \in Facts, f.kind = "agent_action", Passes(f)
  PROVE  f.by \in Reached
<1>1. PICK i \in Window : HoldsGrant(f.by, i)
  BY DEF Passes, FindAuthorization
<1>2. /\ i \in 1..Len(log) /\ log[i].kind = "authorization"
      /\ log[i].to = f.by /\ log[i].by \in Reached
  BY <1>1 DEF Window, HoldsGrant, IssuersReached
<1>3. f.by \in Ids
  BY TrustAssumption DEF Fact
<1>4. QED
  BY <1>2, <1>3 DEF Reached, ClosedUnderGrants

LEMMA ActorStep ==
  TypeOK /\ IssuersReached /\ ActorsReached /\ QueuedActorsReached /\ [Next]_vars
    => ActorsReached' /\ QueuedActorsReached'
<1> SUFFICES ASSUME TypeOK, IssuersReached, ActorsReached, QueuedActorsReached, [Next]_vars
             PROVE  ActorsReached' /\ QueuedActorsReached'
  OBVIOUS
<1>1. ASSUME UNCHANGED log,
             \A p \in 1..Len(pending') :
               \/ \E o \in 1..Len(pending) : pending'[p] = pending[o]
               \/ pending'[p].kind = "agent_action" => pending'[p].by \in Reached
      PROVE  ActorsReached' /\ QueuedActorsReached'
  <2>1. Reached' = Reached
    BY <1>1 DEF Reached, ClosedUnderGrants, Lineage, DesignatedIn
  <2>2. QED
    BY <1>1, <2>1 DEF ActorsReached, QueuedActorsReached
<1>2. ASSUME NEW f \in Facts, Submit(f)
      PROVE  ActorsReached' /\ QueuedActorsReached'
  <2>1. pending' = Append(pending, f) /\ UNCHANGED log /\ Passes(f)
    BY <1>2 DEF Submit
  <2>2. \A p \in 1..Len(pending') :
          (p \in 1..Len(pending) /\ pending'[p] = pending[p]) \/ pending'[p] = f
    BY <2>1 DEF TypeOK
  <2>3. QED
    BY <1>1, <2>1, <2>2, ActionGateReaches
<1>3. CASE Record
  <2>1. Head(pending) \in Facts /\ log' = Append(log, Head(pending)) /\ pending # <<>>
    BY <1>3 DEF Record, TypeOK
  <2>2. Reached \subseteq Reached'
    BY <2>1, ReachedGrows
  <2>3. 1 \in 1..Len(pending) /\ Head(pending) = pending[1]
    BY <2>1 DEF TypeOK
  <2>4. \A i \in 1..Len(log') :
          (i \in 1..Len(log) /\ log'[i] = log[i]) \/ log'[i] = pending[1]
    BY <2>1, <2>3 DEF TypeOK
  <2>5. \A p \in 1..Len(pending') : p + 1 \in 1..Len(pending) /\ pending'[p] = pending[p + 1]
    BY <1>3 DEF Record, TypeOK
  <2>6. QED
    BY <2>2, <2>3, <2>4, <2>5 DEF ActorsReached, QueuedActorsReached
<1>4. ASSUME NEW i \in 1..Len(log), Expire(i)
      PROVE  ActorsReached' /\ QueuedActorsReached'
  BY <1>1, <1>4 DEF Expire
<1>5. CASE Restart
  BY <1>1, <1>5 DEF Restart
<1>6. CASE UNCHANGED vars
  BY <1>1, <1>6 DEF vars
<1>7. QED
  BY <1>2, <1>3, <1>4, <1>5, <1>6 DEF Next

(* The gates together: whoever has a recorded action was reached, through   *)
(* recorded grants, from an authority or its successor.  Claims,            *)
(* endorsements and the order in which links are checked and recorded give  *)
(* nobody a first action, and neither does what the window has forgotten.   *)
THEOREM ActionsReachBack == Spec => []ActorsReached
<1>1. Init => /\ SourceInv /\ IssuersReached
              /\ ActorsReached /\ QueuedActorsReached
  BY DEF Init, SourceInv, GrantsHaveSource, IssuersReached, ActorsReached, QueuedActorsReached
<1>2. QED
  BY <1>1, SourceStep, ReachedStep, ActorStep, TrustTyped, PTL DEF Spec

-------------------------------------------------------------------------------
(* An authority's tokens when a link is recorded, and with it, if the       *)
(* window is full, one is forgotten.                                        *)
LEMMA RecordWithdraws ==
  ASSUME TypeOK, Record, NEW k \in Designated,
         NEW t \in DelegableTokens(k) \ DelegableTokens(k)',
         ~RevokedByAuthority(k, t)'
  PROVE  \E i \in Window \ Window' :
           \/ Gives(log[i], k, t)
           \/ k \notin Designated' /\ log[i].kind = "rotate"
<1> SUFFICES ASSUME \A i \in Window \ Window' :
                      /\ ~Gives(log[i], k, t)
                      /\ k \in Designated' \/ log[i].kind # "rotate"
             PROVE  FALSE
  OBVIOUS
<1> DEFINE h == Head(pending)
<1>1. h \in Facts /\ log' = Append(log, h) /\ expired' = expired
  BY DEF Record, TypeOK
<1>2. /\ Len(log) \in Nat /\ Len(log') = Len(log) + 1
      /\ \A i \in 1..Len(log) : i \in 1..Len(log') /\ log'[i] = log[i]
  BY <1>1 DEF TypeOK
<1>3. \A i \in Window : log'[i] = log[i]
  BY <1>2 DEF Window
<1>4. k \in Designated'
  <2>1. SUFFICES ASSUME k \notin Designated' PROVE FALSE
    OBVIOUS
  <2>2. \A i \in Window : log[i].kind = "rotate" => i \in Window' /\ log'[i] = log[i]
    BY <1>3, <2>1
  <2>3. QED
    BY <2>1, <2>2 DEF Designated, DesignatedIn
<1>5. ~Withdrawn(k, t)'
  <2>1. Designated' \subseteq Lineage'
    BY <1>2 DEF Designated, Lineage, DesignatedIn, Window
  <2>2. QED
    BY <1>4, <2>1 DEF Withdrawn, RevokedFor, RevokedByAuthority
<1>6. \A i \in Window : Gives(log[i], k, t) => i \in Window' /\ log'[i] = log[i]
  BY <1>3
<1>7. CASE \E i \in Window : HoldsGrant(k, i) /\ log[i].token = t
  <2>1. PICK i \in Window : HoldsGrant(k, i) /\ log[i].token = t
    BY <1>7
  <2>2. i \in Window' /\ log'[i] = log[i]
    BY <1>6, <2>1 DEF HoldsGrant, Gives
  <2>3. HoldsGrant(k, i)'
    BY <1>1, <1>5, <2>1, <2>2 DEF HoldsGrant
  <2>4. QED
    BY <1>4, <2>1, <2>2, <2>3 DEF DelegableTokens
<1>8. CASE \E i \in Window : log[i].kind = "capability" /\ log[i].by = k /\ log[i].token = t
  BY <1>4, <1>5, <1>6, <1>8 DEF DelegableTokens, Gives
<1>9. QED
  BY <1>7, <1>8 DEF DelegableTokens

LEMMA AuthorityStep ==
  ASSUME TypeOK, [Next]_vars, NEW k \in Designated,
         NEW t \in DelegableTokens(k) \ DelegableTokens(k)'
  PROVE  \/ expired' # expired
         \/ RevokedByAuthority(k, t)'
         \/ \E i \in Window \ Window' :
              \/ Gives(log[i], k, t)
              \/ k \notin Designated' /\ log[i].kind = "rotate"
<1>1. CASE Record
  BY <1>1, RecordWithdraws
<1>2. ASSUME UNCHANGED <<log, expired>> PROVE FALSE
  <2>1. Window' = Window /\ Designated' = Designated
    BY <1>2 DEF Window, Designated, DesignatedIn
  <2>2. \A token : Withdrawn(k, token)' = Withdrawn(k, token)
    BY <1>2, <2>1 DEF Withdrawn, RevokedFor
  <2>3. \A i : HoldsGrant(k, i)' = HoldsGrant(k, i)
    BY <1>2, <2>2 DEF HoldsGrant
  <2>4. QED
    BY <1>2, <2>1, <2>2, <2>3 DEF DelegableTokens
<1>3. ASSUME NEW i \in 1..Len(log), Expire(i)
      PROVE  expired' # expired
  BY <1>3 DEF Expire
<1>4. QED
  BY <1>1, <1>2, <1>3 DEF Next, Submit, Restart, vars

(* RULE 6, for every amount of memory: a token leaves an authority by       *)
(* expiry, by another authority's revocation, or with the link it came      *)
(* from when the window forgets that; no order in which revocations and     *)
(* rotations are checked, queued and recorded lets a stranger take one.     *)
THEOREM AuthorityKeepsItsTokens == Spec => AuthorityWithdrawnByAuthority
<1>1. TypeOK /\ [Next]_vars =>
        [\A k \in Designated : \A t \in DelegableTokens(k) \ DelegableTokens(k)' :
           \/ expired' # expired
           \/ RevokedByAuthority(k, t)'
           \/ \E i \in Window \ Window' :
                \/ Gives(log[i], k, t)
                \/ k \notin Designated' /\ log[i].kind = "rotate"]_vars
  BY AuthorityStep
<1>2. QED
  BY <1>1, TrustTyped, PTL DEF Spec, AuthorityWithdrawnByAuthority

-------------------------------------------------------------------------------
Gated(f) == f.kind \in {"authorization", "agent_action"} /\ f.by \notin Lineage

WithdrawnAt(k, r) ==
  log[r].kind = "revocation" /\ log[r].to = k /\ log[r].token = Any

(* What k has, or will have, at position p is later than the withdrawal at  *)
(* r only for one of the two reasons WithdrawalReaches names.               *)
Excused(k, p, r, n) ==
  \/ p < r + MaxPending
  \/ /\ r + ChainMemory < p
     /\ \E i \in (r + 1)..n : log[i].kind = "authorization" /\ log[i].to = k

(* A queued link will take the position after the links queued before it,   *)
(* unless a restart drops them all.                                         *)
QueueReaches ==
  \A q \in 1..Len(pending) : Gated(pending[q]) =>
    \A r \in 1..Len(log) : WithdrawnAt(pending[q].by, r) =>
      Excused(pending[q].by, Len(log) + q, r, Len(log))

RecordReaches ==
  \A p \in 1..Len(log) : Gated(log[p]) =>
    \A r \in 1..(p - 1) : WithdrawnAt(log[p].by, r) => Excused(log[p].by, p, r, p - 1)

WithdrawInv == Len(pending) <= MaxPending /\ QueueReaches /\ RecordReaches

(* A gate that lets a withdrawn member pass has forgotten the withdrawal,   *)
(* and has a grant that came after it.                                      *)
LEMMA GateForgets ==
  ASSUME TypeOK, NEW f \in Facts, Passes(f), Gated(f),
         NEW r \in 1..Len(log), WithdrawnAt(f.by, r)
  PROVE  /\ r + ChainMemory <= Len(log)
         /\ \E i \in (r + 1)..Len(log) : log[i].kind = "authorization" /\ log[i].to = f.by
<1>0. Len(log) \in Nat /\ ChainMemory \in Nat
  BY TrustAssumption DEF TypeOK
<1>1. f.by \notin Designated
  BY WindowDesignates DEF Gated
<1>2. \E i \in Window : HoldsGrant(f.by, i)
  <2>1. CASE f.kind = "agent_action"
    BY <2>1 DEF Passes, FindAuthorization
  <2>2. CASE f.kind = "authorization"
    <3>1. \/ CanDelegate(f.by, f.token, f.scope)
          \/ \E i \in Parents(f) : ParentCovers(log[i], f)
      BY <2>2 DEF Passes, GrantAuthority
    <3>2. ASSUME CanDelegate(f.by, f.token, f.scope)
          PROVE  \E i \in Window : HoldsGrant(f.by, i)
      BY <1>1, <3>2 DEF CanDelegate, DelegableTokens
    <3>3. QED
      BY <3>1, <3>2 DEF Parents
  <2>3. QED
    BY <2>1, <2>2 DEF Gated
<1>3. PICK i \in Window : HoldsGrant(f.by, i)
  BY <1>2
<1>4. r \notin Window
  <2>1. SUFFICES ASSUME r \in Window PROVE FALSE
    OBVIOUS
  <2>2. Any \in RevokedFor(f.by)
    BY <1>1, <2>1 DEF RevokedFor, WithdrawnAt
  <2>3. QED
    BY <1>3, <2>2 DEF HoldsGrant, Withdrawn
<1>5. r + ChainMemory <= Len(log)
  BY <1>0, <1>4 DEF Window
<1>6. i \in (r + 1)..Len(log)
  BY <1>0, <1>3, <1>5 DEF Window
<1>7. QED
  BY <1>3, <1>5, <1>6 DEF HoldsGrant

LEMMA SubmitReaches ==
  ASSUME TypeOK, WithdrawInv, NEW f \in Facts, Submit(f)
  PROVE  WithdrawInv'
<1> DEFINE n == Len(log)
           m == Len(pending)
<1>1. n \in Nat /\ m \in Nat /\ MaxPending \in Nat /\ ChainMemory \in Nat
  BY TrustAssumption DEF TypeOK
<1>2. /\ UNCHANGED log /\ m < MaxPending /\ Passes(f)
      /\ Len(pending') = m + 1 /\ pending'[m + 1] = f
      /\ \A q \in 1..m : pending'[q] = pending[q]
  BY DEF Submit, TypeOK
<1>3. /\ \A g : Gated(g)' = Gated(g)
      /\ \A k, r : WithdrawnAt(k, r)' = WithdrawnAt(k, r)
      /\ \A k, p, r, b : Excused(k, p, r, b)' = Excused(k, p, r, b)
  BY <1>2 DEF Gated, WithdrawnAt, Excused, Lineage, DesignatedIn
<1>4. RecordReaches'
  BY <1>2, <1>3 DEF RecordReaches, WithdrawInv
<1>5. ASSUME Gated(f), NEW r \in 1..n, WithdrawnAt(f.by, r)
      PROVE  Excused(f.by, n + m + 1, r, n)
  <2>1. /\ r + ChainMemory <= n
        /\ \E i \in (r + 1)..n : log[i].kind = "authorization" /\ log[i].to = f.by
    BY <1>2, <1>5, GateForgets
  <2>2. r + ChainMemory < n + m + 1
    BY <1>1, <2>1
  <2>3. QED
    BY <2>1, <2>2 DEF Excused
<1>6. \A q \in 1..(m + 1) : q \in 1..m \/ (q = m + 1 /\ n + q = n + m + 1)
  BY <1>1
<1> HIDE DEF n, m
<1>7. ASSUME NEW q \in 1..(m + 1), Gated(pending'[q]),
             NEW r \in 1..n, WithdrawnAt(pending'[q].by, r)
      PROVE  Excused(pending'[q].by, n + q, r, n)
  <2>1. CASE q \in 1..m
    BY <1>2, <1>7, <2>1 DEF WithdrawInv, QueueReaches, n, m
  <2>2. CASE q = m + 1 /\ n + q = n + m + 1
    BY <1>2, <1>5, <1>7, <2>2
  <2>3. QED
    BY <1>6, <2>1, <2>2
<1>8. QueueReaches'
  BY <1>2, <1>3, <1>7 DEF QueueReaches, n, m
<1>9. Len(pending') <= MaxPending
  BY <1>1, <1>2
<1>10. QED
  BY <1>4, <1>8, <1>9 DEF WithdrawInv

LEMMA RecordReachesStep ==
  ASSUME TypeOK, WithdrawInv, Record
  PROVE  WithdrawInv'
<1> DEFINE n == Len(log)
           m == Len(pending)
           h == pending[1]
<1>1. n \in Nat /\ m \in Nat \ {0} /\ MaxPending \in Nat /\ ChainMemory \in Nat
  BY TrustAssumption DEF TypeOK, Record
<1>2. h \in Facts /\ log' = Append(log, h)
  BY <1>1 DEF TypeOK, Record
<1>3. /\ Len(log') = n + 1 /\ log'[n + 1] = h
      /\ \A i \in 1..n : log'[i] = log[i]
  BY <1>2 DEF TypeOK
<1>4. /\ Len(pending') = m - 1
      /\ \A q \in 1..(m - 1) : q + 1 \in 1..m /\ pending'[q] = pending[q + 1]
  BY <1>1 DEF TypeOK, Record
<1>5. m <= MaxPending
  BY DEF WithdrawInv
<1>6. \A g : Gated(g)' => Gated(g)
  BY <1>2, LineageGrows DEF Gated
<1>7. \A k : \A r \in 1..n : WithdrawnAt(k, r)' = WithdrawnAt(k, r)
  BY <1>3 DEF WithdrawnAt
<1>8. ASSUME NEW k, NEW p, NEW r, NEW b \in Nat, NEW c \in Nat, r \in Nat,
             b <= n, b <= c, Excused(k, p, r, b)
      PROVE  Excused(k, p, r, c)'
  <2>1. \A i \in (r + 1)..b : i \in (r + 1)..c /\ log'[i] = log[i]
    BY <1>1, <1>3, <1>8
  <2>2. QED
    BY <1>8, <2>1 DEF Excused
<1> HIDE DEF n, m, h
<1>9. ASSUME NEW p \in 1..(n + 1), Gated(log[p])', NEW r \in 1..(p - 1),
             WithdrawnAt(log[p].by, r)'
      PROVE  Excused(log[p].by, p, r, p - 1)'
  <2>0. /\ r \in 1..n /\ r \in Nat /\ p - 1 \in Nat /\ p - 1 <= n
        /\ p \in 1..n \/ (p = n + 1 /\ p - 1 = n)
    BY <1>1
  <2>1. PICK g : g = log'[p]
    OBVIOUS
  <2>2. PICK k : k = g.by
    OBVIOUS
  <2>3. Gated(g) /\ WithdrawnAt(k, r)
    <3>1. Gated(g)' /\ WithdrawnAt(k, r)'
      BY <1>9, <2>1, <2>2 DEF Gated, WithdrawnAt
    <3>2. QED
      BY <1>6, <1>7, <2>0, <3>1
  <2>4. Excused(k, p, r, p - 1)'
    <3>1. CASE p \in 1..n
      <4>1. log[p] = g
        BY <1>3, <2>1, <3>1
      <4>2. Excused(k, p, r, p - 1)
        BY <2>2, <2>3, <3>1, <4>1 DEF WithdrawInv, RecordReaches, n
      <4>3. QED
        BY <1>8, <2>0, <4>2
    <3>2. CASE p = n + 1 /\ p - 1 = n
      <4>1. pending[1] = g /\ 1 \in 1..m
        BY <1>1, <1>3, <2>1, <3>2 DEF h
      <4>2. Excused(k, n + 1, r, n)
        BY <2>0, <2>2, <2>3, <4>1 DEF WithdrawInv, QueueReaches, n, m
      <4>3. QED
        BY <1>1, <1>8, <2>0, <3>2, <4>2
    <3>3. QED
      BY <2>0, <3>1, <3>2
  <2>5. QED
    BY <2>1, <2>2, <2>4 DEF Excused
<1>10. RecordReaches'
  BY <1>3, <1>9 DEF RecordReaches
<1>11. ASSUME NEW q \in 1..(m - 1), Gated(pending[q])', NEW r \in 1..(n + 1),
              WithdrawnAt(pending[q].by, r)'
       PROVE  Excused(pending[q].by, Len(log) + q, r, Len(log))'
  <2>0. /\ q \in Nat /\ q + 1 \in 1..m /\ r \in Nat
        /\ n + (q + 1) = n + 1 + q /\ n + 1 \in Nat /\ n <= n + 1 /\ n <= n
        /\ r \in 1..n \/ r = n + 1
    BY <1>1
  <2>1. PICK g : g = pending[q + 1]
    OBVIOUS
  <2>2. PICK k : k = g.by
    OBVIOUS
  <2>3. PICK z \in Nat : z = n
    BY <1>1
  <2>4. pending'[q] = g
    BY <1>4, <2>1
  <2>5. Excused(k, z + 1 + q, r, z + 1)'
    <3>1. Gated(g) /\ WithdrawnAt(k, r)'
      <4>1. Gated(g)' /\ WithdrawnAt(k, r)'
        BY <1>11, <2>2, <2>4 DEF Gated, WithdrawnAt
      <4>2. QED
        BY <1>6, <4>1
    <3>2. CASE r \in 1..n
      <4>1. WithdrawnAt(k, r)
        BY <1>7, <3>1, <3>2
      <4>2. Excused(k, n + (q + 1), r, n)
        BY <2>0, <2>1, <2>2, <3>1, <3>2, <4>1 DEF WithdrawInv, QueueReaches, n, m
      <4>3. Excused(k, z + 1 + q, r, z)
        BY <2>0, <2>3, <4>2
      <4>4. z \in Nat /\ z + 1 \in Nat /\ z <= n /\ z <= z + 1
        BY <1>1, <2>3
      <4>5. QED
        BY <1>8, <2>0, <4>3, <4>4
    <3>3. CASE r = n + 1
      <4>1. z + 1 + q < r + MaxPending
        BY <1>1, <1>5, <2>0, <2>3, <3>3
      <4>2. QED
        BY <4>1 DEF Excused
    <3>4. QED
      BY <2>0, <3>2, <3>3
  <2>6. QED
    BY <1>3, <2>2, <2>3, <2>4, <2>5 DEF Excused
<1>12. QueueReaches'
  BY <1>3, <1>4, <1>11 DEF QueueReaches
<1>13. Len(pending') <= MaxPending
  BY <1>1, <1>4, <1>5
<1>14. QED
  BY <1>10, <1>12, <1>13 DEF WithdrawInv

LEMMA WithdrawStep == TypeOK /\ WithdrawInv /\ [Next]_vars => WithdrawInv'
<1> SUFFICES ASSUME TypeOK, WithdrawInv, [Next]_vars PROVE WithdrawInv'
  OBVIOUS
<1>1. ASSUME NEW f \in Facts, Submit(f)
      PROVE  WithdrawInv'
  BY <1>1, SubmitReaches
<1>2. CASE Record
  BY <1>2, RecordReachesStep
<1>3. ASSUME UNCHANGED log, pending' = pending \/ pending' = <<>>
      PROVE  WithdrawInv'
  <2>1. /\ \A g : Gated(g)' = Gated(g)
        /\ \A k, r : WithdrawnAt(k, r)' = WithdrawnAt(k, r)
        /\ \A k, p, r, b : Excused(k, p, r, b)' = Excused(k, p, r, b)
    BY <1>3 DEF Gated, WithdrawnAt, Excused, Lineage, DesignatedIn
  <2>2. RecordReaches'
    BY <1>3, <2>1 DEF RecordReaches, WithdrawInv
  <2>3. CASE pending' = pending
    BY <1>3, <2>1, <2>2, <2>3 DEF WithdrawInv, QueueReaches
  <2>4. CASE pending' = <<>>
    BY <2>2, <2>4, TrustAssumption DEF WithdrawInv, QueueReaches
  <2>5. QED
    BY <1>3, <2>3, <2>4
<1>4. QED
  BY <1>1, <1>2, <1>3 DEF Next, Expire, Restart, vars

(* How far a whole withdrawal reaches, for every window and queue: while    *)
(* the harbour remembers it, nothing the member submits is let through; the *)
(* rest was in the queue before it, or rests on a grant that came after it  *)
(* and has outlived it in memory.  The inductive part says the same of the  *)
(* queue, at the positions its links will have.                             *)
THEOREM WithdrawalHolds == Spec => []WithdrawalReaches
<1>1. Init => WithdrawInv
  BY TrustAssumption DEF Init, WithdrawInv, QueueReaches, RecordReaches
<1>2. WithdrawInv => WithdrawalReaches
  BY DEF WithdrawInv, RecordReaches, Gated, WithdrawnAt, Excused, WithdrawalReaches
<1>3. QED
  BY <1>1, <1>2, WithdrawStep, TrustTyped, PTL DEF Spec
===============================================================================
