-------------------------- MODULE LiveCrossingProofs --------------------------
(***************************************************************************)
(* Proofs about LiveCrossing: its types, the budget and the rate bound of  *)
(* a standing grant under lost writes, and what a pair must have earned,   *)
(* for every table, ladder, set of grants and number of faults.            *)
(***************************************************************************)
EXTENDS LiveCrossing, FiniteSetTheorems, TLAPS

(* The outcomes of a stretch of length d that took budget of g.              *)
Stretch(g, t, d) == {i \in SpentFrom(g, t) : log[i].at < t + d}

(* The clock has passed every outcome; what was spent was issued; what was   *)
(* issued was judged.                                                        *)
PastInv ==
  /\ usage.start <= now
  /\ \A i \in DOMAIN log : log[i].at <= now /\ log[i].spent <= Len(book)
  /\ \A g \in DOMAIN book : book[g].span > 0 /\ book[g].rate > 0

(* The stored counter counts every crossing of the stored grant but those    *)
(* that were lost.                                                           *)
CountInv ==
  \A g \in DOMAIN book : g = grant =>
    IF usage.id = g
      THEN Cardinality(SpentFrom(g, 0)) <= usage.crossings + lost[g]
      ELSE Cardinality(SpentFrom(g, 0)) <= lost[g]

(* From the start of the window on, from its end on, and from any time whose *)
(* stretch reaches into it.                                                  *)
WindowInv ==
  \A g \in DOMAIN book : g = grant /\ usage.id = g =>
    /\ usage.count <= book[g].rate
    /\ \A t \in Nat :
         /\ t >= usage.start => Cardinality(SpentFrom(g, t)) <= usage.count + lost[g]
         /\ t >= usage.start + book[g].span => Cardinality(SpentFrom(g, t)) <= lost[g]
         /\ t + book[g].span > usage.start =>
              Cardinality(SpentFrom(g, t)) <= book[g].rate + usage.count + lost[g]

StretchInv ==
  \A g \in DOMAIN book : \A t, d \in Nat : d = book[g].span =>
    Cardinality(Stretch(g, t, d)) <= 2 * book[g].rate + lost[g]

RateInv == PastInv /\ CountInv /\ BudgetKept /\ WindowInv /\ StretchInv

-------------------------------------------------------------------------------
(* Types.                                                                    *)

(* A handler loses a number of writes.                                       *)
LEMMA LosingNat ==
  ASSUME NEW keys, IsFiniteSet(keys), NEW w \in SUBSET keys
  PROVE  Cardinality(keys \ w) \in Nat
<1>1. keys \ w \in SUBSET keys
  OBVIOUS
<1>2. IsFiniteSet(keys \ w)
  BY <1>1, FS_Subset
<1> QED BY <1>2, FS_CardinalityType

(* The sets of keys the handlers write are finite.                           *)
LEMMA KeysFinite ==
  /\ IsFiniteSet({"grant", "usage"}) /\ IsFiniteSet({"revocations"})
  /\ IsFiniteSet({"initiator", "responder"})
  /\ IsFiniteSet({"initiator", "responder", "usage"})
<1>1. \A x : IsFiniteSet({x})
  <2> SUFFICES ASSUME NEW x PROVE IsFiniteSet({x})
    OBVIOUS
  <2>1. {x} = {} \cup {x}
    OBVIOUS
  <2> QED BY <2>1, FS_EmptySet, FS_AddElement
<1>2. \A x, y : IsFiniteSet({x, y})
  <2> SUFFICES ASSUME NEW x, NEW y PROVE IsFiniteSet({x, y})
    OBVIOUS
  <2>1. IsFiniteSet({x} \cup {y})
    BY <1>1, FS_AddElement
  <2>2. {x, y} = {x} \cup {y}
    OBVIOUS
  <2> QED BY <2>1, <2>2
<1>3. {"initiator", "responder", "usage"} = {"initiator", "responder"} \cup {"usage"}
  OBVIOUS
<1>4. IsFiniteSet({"initiator", "responder", "usage"})
  <2>1. IsFiniteSet({"initiator", "responder"})
    BY <1>2
  <2>2. IsFiniteSet({"initiator", "responder"} \cup {"usage"})
    BY <2>1, FS_AddElement
  <2> QED BY <2>2, <1>3
<1> QED BY <1>1, <1>2, <1>4

(* The handlers keep the types.                                              *)
LEMMA IssueType ==
  ASSUME CrossingAssumption, TypeOK, NEW t \in Terms, Issue(t)
  PROVE  TypeOK'
<1>1. PICK w \in Stored({"grant", "usage"}) :
       /\ grant' = IF "grant" \in w THEN Len(book) + 1 ELSE grant
       /\ usage' = IF "usage" \in w THEN Fresh(Len(book) + 1) ELSE usage
       /\ lost' = IF w = {"usage"} /\ grant # 0
                    THEN [lost EXCEPT ![grant] = @ + Used.crossings] ELSE lost
       /\ faults' = faults + Cardinality({"grant", "usage"} \ w)
  BY DEF Issue, Losing
<1>2. faults' \in Nat
  <2>1. Cardinality({"grant", "usage"} \ w) \in Nat
    BY KeysFinite, LosingNat DEF Stored
  <2>2. faults \in Nat
    BY DEF TypeOK
  <2> QED BY <1>1, <2>1, <2>2
<1>3. book' \in Seq(Grants) /\ Len(book') = Len(book) + 1 /\ Len(book') <= MaxGrants
  <2>1. [pair |-> t.pair, caps |-> t.caps, max |-> t.max, span |-> t.span,
         rate |-> t.rate, expires |-> now + t.life] \in Grants
    BY DEF CrossingAssumption, Grants, TypeOK
  <2> QED BY <2>1 DEF Issue, TypeOK, CrossingAssumption
<1>4. usage' \in [id : 0..Len(book'), crossings : Nat, start : Nat, count : Nat]
  BY <1>1, <1>3 DEF TypeOK, Fresh
<1>5. lost' \in [Ids -> Nat]
  <2>1. grant # 0 => grant \in Ids
    BY DEF TypeOK, Ids, CrossingAssumption
  <2>2. Used.crossings \in Nat
    BY DEF TypeOK, Used, Fresh
  <2>3. lost \in [Ids -> Nat]
    BY DEF TypeOK
  <2>4. ASSUME grant \in Ids
        PROVE  [lost EXCEPT ![grant] = @ + Used.crossings] \in [Ids -> Nat]
    <3>1. lost[grant] + Used.crossings \in Nat
      BY <2>2, <2>3, <2>4
    <3> QED BY <2>3, <3>1
  <2>5. lost' = lost \/ (grant # 0 /\ lost' = [lost EXCEPT ![grant] = @ + Used.crossings])
    BY <1>1
  <2> QED BY <2>1, <2>3, <2>4, <2>5
<1>6. grant' \in 0..Len(book') /\ revoked' \subseteq 1..Len(book')
  BY <1>1, <1>3, SMTT(30) DEF TypeOK, Issue
<1> QED BY <1>2, <1>3, <1>4, <1>5, <1>6 DEF TypeOK, Issue, rows

(* An outcome is filed under the next number, and rows name outcomes.        *)
LEMMA FileType ==
  ASSUME TypeOK, NEW q \in Requests, NEW o \in Outcomes, log' = Append(log, o),
         rowsI' \subseteq rowsI \cup {Len(log) + 1},
         rowsR' \subseteq rowsR \cup {Len(log) + 1}
  PROVE  /\ log' \in Seq(Outcomes)
         /\ rowsI' \subseteq DOMAIN log' /\ rowsR' \subseteq DOMAIN log'
<1>1. log' \in Seq(Outcomes) /\ DOMAIN log' = DOMAIN log \cup {Len(log) + 1}
  BY DEF TypeOK
<1> QED BY <1>1 DEF TypeOK

LEMMA RefuseType ==
  ASSUME CrossingAssumption, TypeOK, NEW q \in Requests, Refuse(q)
  PROVE  TypeOK'
<1>1. PICK w \in Stored({"initiator", "responder"}) :
       File(q, FALSE, 0, w) /\ Losing({"initiator", "responder"}, w)
  BY DEF Refuse
<1>2. faults' \in Nat
  <2>1. Cardinality({"initiator", "responder"} \ w) \in Nat
    BY KeysFinite, LosingNat DEF Stored
  <2>2. faults \in Nat
    BY DEF TypeOK
  <2> QED BY <1>1, <2>1, <2>2 DEF Losing
<1>3. [req |-> q, at |-> now, crossed |-> FALSE, spent |-> 0] \in Outcomes
  BY DEF TypeOK, Outcomes, CrossingAssumption
<1>4. /\ log' \in Seq(Outcomes)
      /\ rowsI' \subseteq DOMAIN log' /\ rowsR' \subseteq DOMAIN log'
  BY <1>1, <1>3, FileType DEF File
<1> QED BY <1>2, <1>4 DEF TypeOK, Refuse, stored

LEMMA RideType ==
  ASSUME CrossingAssumption, TypeOK, NEW q \in Requests, Ride(q)
  PROVE  TypeOK'
<1>1. PICK w \in Stored({"initiator", "responder", "usage"}) :
       /\ File(q, CapOf[q] \notin HumanFirst, grant, w)
       /\ usage' = IF "usage" \in w THEN NextUsage ELSE usage
       /\ lost' = IF "usage" \in w THEN lost ELSE [lost EXCEPT ![grant] = @ + 1]
       /\ Losing({"initiator", "responder", "usage"}, w)
  BY DEF Ride
<1>2. faults' \in Nat
  <2>1. Cardinality({"initiator", "responder", "usage"} \ w) \in Nat
    BY KeysFinite, LosingNat DEF Stored
  <2>2. faults \in Nat
    BY DEF TypeOK
  <2> QED BY <1>1, <2>1, <2>2 DEF Losing
<1>3. [req |-> q, at |-> now, crossed |-> CapOf[q] \notin HumanFirst, spent |-> grant] \in Outcomes
  BY DEF TypeOK, Outcomes, CrossingAssumption
<1>4. /\ log' \in Seq(Outcomes)
      /\ rowsI' \subseteq DOMAIN log' /\ rowsR' \subseteq DOMAIN log'
  BY <1>1, <1>3, FileType DEF File
<1>5. grant \in 1..Len(book) /\ grant \in Ids
  BY DEF Ride, Authorised, Covers, TypeOK, Ids, CrossingAssumption
<1>6. usage' \in [id : 0..Len(book), crossings : Nat, start : Nat, count : Nat]
  BY <1>1, <1>5 DEF TypeOK, NextUsage, Used, Fresh, InWindow
<1>7. lost' \in [Ids -> Nat]
  <2>1. lost \in [Ids -> Nat]
    BY DEF TypeOK
  <2>2. lost[grant] + 1 \in Nat
    BY <1>5, <2>1
  <2> QED BY <1>1, <2>1, <2>2
<1> QED BY <1>2, <1>4, <1>6, <1>7 DEF TypeOK, Ride

LEMMA RevokeType ==
  ASSUME CrossingAssumption, TypeOK, Revoke
  PROVE  TypeOK'
<1>1. PICK w \in Stored({"revocations"}) :
       /\ revoked' = IF w = {} THEN revoked ELSE revoked \cup {grant}
       /\ Losing({"revocations"}, w)
  BY DEF Revoke
<1>2. faults' \in Nat
  <2>1. Cardinality({"revocations"} \ w) \in Nat
    BY KeysFinite, LosingNat DEF Stored
  <2>2. faults \in Nat
    BY DEF TypeOK
  <2> QED BY <1>1, <2>1, <2>2 DEF Losing
<1> QED BY <1>1, <1>2 DEF TypeOK, Revoke, rows

(* Every step keeps the types.                                               *)
LEMMA TypeStep ==
  ASSUME CrossingAssumption, TypeOK, [Next]_vars
  PROVE  TypeOK'
<1>1. CASE \E t \in Terms : Issue(t)
  BY <1>1, IssueType
<1>2. CASE \E q \in Requests : Refuse(q)
  BY <1>2, RefuseType
<1>3. CASE \E q \in Requests : Ride(q)
  BY <1>3, RideType
<1>4. CASE Revoke
  BY <1>4, RevokeType
<1>5. CASE Tick
  BY <1>5 DEF Tick, TypeOK, stored, rows
<1>6. CASE UNCHANGED vars
  BY <1>6 DEF vars, stored, rows, TypeOK
<1> QED BY <1>1, <1>2, <1>3, <1>4, <1>5, <1>6 DEF Next

(* The types at the start.                                                   *)
LEMMA TypeInit == ASSUME CrossingAssumption, Init PROVE TypeOK
BY DEF CrossingAssumption, Init, TypeOK

(* Every reachable state of the crossings is well formed: rows, grants and   *)
(* revocations name what exists.                                             *)
THEOREM TypeCorrect == ASSUME CrossingAssumption PROVE Spec => []TypeOK
<1>1. Init => TypeOK
  BY TypeInit
<1>2. TypeOK /\ [Next]_vars => TypeOK'
  BY TypeStep
<1> QED BY <1>1, <1>2, PTL DEF Spec

-------------------------------------------------------------------------------
(* Counting.                                                                 *)

(* What was spent in a stretch can be counted.                               *)
LEMMA SpentFinite ==
  ASSUME TypeOK, NEW g, NEW t \in Nat, NEW d \in Nat
  PROVE  /\ IsFiniteSet(SpentFrom(g, t)) /\ Cardinality(SpentFrom(g, t)) \in Nat
         /\ IsFiniteSet(Stretch(g, t, d)) /\ Cardinality(Stretch(g, t, d)) \in Nat
         /\ Cardinality(Stretch(g, t, d)) <= Cardinality(SpentFrom(g, t))
<1>1. IsFiniteSet(DOMAIN log)
  <2>1. DOMAIN log = 1..Len(log) /\ Len(log) \in Nat
    BY DEF TypeOK
  <2> QED BY <2>1, FS_Interval
<1>2. SpentFrom(g, t) \in SUBSET DOMAIN log
  BY DEF SpentFrom
<1>3. IsFiniteSet(SpentFrom(g, t))
  BY <1>1, <1>2, FS_Subset
<1>4. Stretch(g, t, d) \in SUBSET SpentFrom(g, t)
  BY DEF Stretch
<1>5. IsFiniteSet(Stretch(g, t, d)) /\ Cardinality(Stretch(g, t, d)) <= Cardinality(SpentFrom(g, t))
  BY <1>3, <1>4, FS_Subset
<1> QED BY <1>3, <1>5, FS_CardinalityType

(* And after a step.                                                         *)
LEMMA SpentFiniteNext ==
  ASSUME TypeOK', NEW g, NEW t \in Nat, NEW d \in Nat
  PROVE  /\ Cardinality(SpentFrom(g, t)') \in Nat /\ Cardinality(Stretch(g, t, d)') \in Nat
         /\ Cardinality(Stretch(g, t, d)') <= Cardinality(SpentFrom(g, t)')
<1>1. IsFiniteSet(DOMAIN log')
  <2>1. DOMAIN log' = 1..Len(log') /\ Len(log') \in Nat
    BY DEF TypeOK
  <2> QED BY <2>1, FS_Interval
<1>2. SpentFrom(g, t)' \in SUBSET DOMAIN log'
  BY DEF SpentFrom
<1>3. IsFiniteSet(SpentFrom(g, t)')
  BY <1>1, <1>2, FS_Subset
<1>4. Stretch(g, t, d)' \in SUBSET SpentFrom(g, t)'
  BY DEF Stretch
<1>5. IsFiniteSet(Stretch(g, t, d)')
      /\ Cardinality(Stretch(g, t, d)') <= Cardinality(SpentFrom(g, t)')
  BY <1>3, <1>4, FS_Subset
<1> QED BY <1>3, <1>5, FS_CardinalityType

(* The later the start, the fewer.                                           *)
LEMMA LaterIsFewer ==
  ASSUME TypeOK, NEW g, NEW t \in Nat, NEW u \in Nat, t <= u
  PROVE  Cardinality(SpentFrom(g, u)) <= Cardinality(SpentFrom(g, t))
<1>1. SpentFrom(g, u) \in SUBSET SpentFrom(g, t)
  <2> SUFFICES ASSUME NEW i \in DOMAIN log, log[i].at >= u PROVE log[i].at >= t
    BY DEF SpentFrom
  <2>1. log[i] \in Outcomes
    BY DEF TypeOK
  <2>2. log[i].at \in Nat
    BY <2>1 DEF Outcomes
  <2> QED BY <2>2
<1>2. IsFiniteSet(SpentFrom(g, t))
  BY SpentFinite
<1> QED BY <1>1, <1>2, FS_Subset

(* One outcome more.                                                         *)
LEMMA Grown ==
  ASSUME TypeOK, NEW o \in Outcomes, log' = Append(log, o),
         NEW g, NEW t \in Nat, NEW d \in Nat
  PROVE  /\ Cardinality(SpentFrom(g, t)') <= Cardinality(SpentFrom(g, t)) + 1
         /\ Cardinality(Stretch(g, t, d)') <= Cardinality(Stretch(g, t, d)) + 1
         /\ ~(o.spent = g /\ o.at >= t) =>
              /\ SpentFrom(g, t)' = SpentFrom(g, t)
              /\ Stretch(g, t, d)' = Stretch(g, t, d)
         /\ ~(o.at < t + d) => Stretch(g, t, d)' = Stretch(g, t, d)
<1> DEFINE n == Len(log) + 1
<1>1. /\ DOMAIN log' = DOMAIN log \cup {n} /\ log'[n] = o /\ n \notin DOMAIN log
      /\ \A i \in DOMAIN log : log'[i] = log[i]
  BY DEF TypeOK
<1>2. SpentFrom(g, t)' = SpentFrom(g, t) \cup (IF o.spent = g /\ o.at >= t THEN {n} ELSE {})
  BY <1>1 DEF SpentFrom
<1>3. Stretch(g, t, d)' = Stretch(g, t, d) \cup
        (IF o.spent = g /\ o.at >= t /\ o.at < t + d THEN {n} ELSE {})
  BY <1>1, <1>2 DEF Stretch, SpentFrom
<1>4. IsFiniteSet(SpentFrom(g, t)) /\ IsFiniteSet(Stretch(g, t, d))
  BY SpentFinite
<1>5. Cardinality(SpentFrom(g, t)) \in Nat /\ Cardinality(Stretch(g, t, d)) \in Nat
  BY SpentFinite
<1>6. Cardinality(SpentFrom(g, t) \cup {n}) <= Cardinality(SpentFrom(g, t)) + 1
  <2>1. Cardinality(SpentFrom(g, t) \cup {n}) =
          IF n \in SpentFrom(g, t) THEN Cardinality(SpentFrom(g, t)) ELSE Cardinality(SpentFrom(g, t)) + 1
    BY <1>4, FS_AddElement
  <2> HIDE DEF n
  <2> QED BY <2>1, <1>5
<1>7. Cardinality(Stretch(g, t, d) \cup {n}) <= Cardinality(Stretch(g, t, d)) + 1
  <2>1. Cardinality(Stretch(g, t, d) \cup {n}) =
          IF n \in Stretch(g, t, d) THEN Cardinality(Stretch(g, t, d)) ELSE Cardinality(Stretch(g, t, d)) + 1
    BY <1>4, FS_AddElement
  <2> HIDE DEF n
  <2> QED BY <2>1, <1>5
<1>8. Cardinality(SpentFrom(g, t)') <= Cardinality(SpentFrom(g, t)) + 1
  <2>1. SpentFrom(g, t)' = SpentFrom(g, t) \/ SpentFrom(g, t)' = SpentFrom(g, t) \cup {n}
    BY <1>2
  <2>2. CASE SpentFrom(g, t)' = SpentFrom(g, t)
    <3>1. Cardinality(SpentFrom(g, t)') = Cardinality(SpentFrom(g, t))
      BY <2>2
    <3> QED BY <3>1, <1>5
  <2>3. CASE SpentFrom(g, t)' = SpentFrom(g, t) \cup {n}
    <3>1. Cardinality(SpentFrom(g, t)') = Cardinality(SpentFrom(g, t) \cup {n})
      BY <2>3
    <3> HIDE DEF n
    <3> QED BY <3>1, <1>6
  <2> QED BY <2>1, <2>2, <2>3
<1>9. Cardinality(Stretch(g, t, d)') <= Cardinality(Stretch(g, t, d)) + 1
  <2>1. Stretch(g, t, d)' = Stretch(g, t, d) \/ Stretch(g, t, d)' = Stretch(g, t, d) \cup {n}
    BY <1>3
  <2>2. CASE Stretch(g, t, d)' = Stretch(g, t, d)
    <3>1. Cardinality(Stretch(g, t, d)') = Cardinality(Stretch(g, t, d))
      BY <2>2
    <3> QED BY <3>1, <1>5
  <2>3. CASE Stretch(g, t, d)' = Stretch(g, t, d) \cup {n}
    <3>1. Cardinality(Stretch(g, t, d)') = Cardinality(Stretch(g, t, d) \cup {n})
      BY <2>3
    <3> HIDE DEF n
    <3> QED BY <3>1, <1>7
  <2> QED BY <2>1, <2>2, <2>3
<1>10. ~(o.spent = g /\ o.at >= t) =>
         SpentFrom(g, t)' = SpentFrom(g, t) /\ Stretch(g, t, d)' = Stretch(g, t, d)
  BY <1>2, <1>3
<1>11. ~(o.at < t + d) => Stretch(g, t, d)' = Stretch(g, t, d)
  BY <1>3
<1> QED BY <1>8, <1>9, <1>10, <1>11

(* Nothing filed, nothing counted.                                           *)
LEMMA SameLog ==
  ASSUME log' = log, NEW g, NEW t, NEW d
  PROVE  SpentFrom(g, t)' = SpentFrom(g, t) /\ Stretch(g, t, d)' = Stretch(g, t, d)
BY DEF SpentFrom, Stretch

(* A grant of the future has not been spent.                                 *)
LEMMA UnspentYet ==
  ASSUME TypeOK, PastInv, NEW t \in Nat, NEW d \in Nat
  PROVE  /\ Cardinality(SpentFrom(Len(book) + 1, t)) = 0
         /\ Cardinality(Stretch(Len(book) + 1, t, d)) = 0
<1>1. SpentFrom(Len(book) + 1, t) = {}
  BY DEF SpentFrom, PastInv, TypeOK, Outcomes
<1>2. Stretch(Len(book) + 1, t, d) = {}
  BY <1>1 DEF Stretch
<1> QED BY <1>1, <1>2, FS_EmptySet

-------------------------------------------------------------------------------
(* What each handler does, as the counting needs it.                         *)

LEMMA IssueEffect ==
  ASSUME CrossingAssumption, TypeOK, NEW t \in Terms, Issue(t)
  PROVE  /\ log' = log /\ now' = now
         /\ Len(book') = Len(book) + 1 /\ Len(book') \in Ids
         /\ \A g \in DOMAIN book : book'[g] = book[g]
         /\ book'[Len(book')].span > 0 /\ book'[Len(book')].rate > 0
         /\ \/ grant' = grant /\ usage' = usage /\ lost' = lost
            \/ grant' = Len(book') /\ usage' = usage /\ lost' = lost
            \/ grant' = Len(book') /\ usage' = Fresh(Len(book')) /\ lost' = lost
            \/ /\ grant' = grant /\ usage' = Fresh(Len(book'))
               /\ lost' = IF grant = 0 THEN lost ELSE [lost EXCEPT ![grant] = @ + Used.crossings]
<1>1. PICK w \in SUBSET {"grant", "usage"} :
       /\ grant' = IF "grant" \in w THEN Len(book) + 1 ELSE grant
       /\ usage' = IF "usage" \in w THEN Fresh(Len(book) + 1) ELSE usage
       /\ lost' = IF w = {"usage"} /\ grant # 0
                    THEN [lost EXCEPT ![grant] = @ + Used.crossings] ELSE lost
  BY DEF Issue, Stored
<1>2. /\ Len(book') = Len(book) + 1 /\ Len(book') \in Ids
      /\ \A g \in DOMAIN book : book'[g] = book[g]
      /\ book'[Len(book')].span = t.span /\ book'[Len(book')].rate = t.rate
  BY SMTT(30) DEF Issue, TypeOK, Ids, CrossingAssumption
<1>3. t.span > 0 /\ t.rate > 0
  BY DEF Issue, Judged, CrossingAssumption
<1>4. w = {} \/ w = {"grant"} \/ w = {"usage"} \/ w = {"grant", "usage"}
  OBVIOUS
<1>5. log' = log /\ now' = now
  BY DEF Issue, rows
<1> QED BY <1>1, <1>2, <1>3, <1>4, <1>5

LEMMA RefuseEffect ==
  ASSUME CrossingAssumption, TypeOK, NEW q \in Requests, Refuse(q)
  PROVE  /\ \E o \in Outcomes : log' = Append(log, o) /\ o.spent = 0 /\ o.at = now /\ ~o.crossed
         /\ UNCHANGED <<now, stored, lost>>
<1>1. [req |-> q, at |-> now, crossed |-> FALSE, spent |-> 0] \in Outcomes
  BY DEF TypeOK, Outcomes, CrossingAssumption
<1> QED BY <1>1 DEF Refuse, File

LEMMA RideEffect ==
  ASSUME CrossingAssumption, TypeOK, NEW q \in Requests, Ride(q)
  PROVE  /\ grant \in DOMAIN book /\ grant \in Ids
         /\ \E o \in Outcomes : log' = Append(log, o) /\ o.spent = grant /\ o.at = now
                                /\ o.req = q
         /\ UNCHANGED <<now, book, grant>>
         /\ Used.crossings < book[grant].max /\ InWindow < book[grant].rate
         /\ \/ usage' = NextUsage /\ lost' = lost
            \/ usage' = usage /\ lost' = [lost EXCEPT ![grant] = @ + 1]
<1>1. grant \in DOMAIN book /\ grant \in Ids
  BY DEF Ride, Authorised, Covers, TypeOK, Ids, CrossingAssumption
<1>2. [req |-> q, at |-> now, crossed |-> CapOf[q] \notin HumanFirst, spent |-> grant] \in Outcomes
  BY DEF TypeOK, Outcomes, CrossingAssumption
<1>3. \E o \in Outcomes : log' = Append(log, o) /\ o.spent = grant /\ o.at = now /\ o.req = q
  BY <1>2 DEF Ride, File
<1>4. Used.crossings < book[grant].max /\ InWindow < book[grant].rate
  BY DEF Ride, Authorised, HasBudget, Held
<1>5. \/ usage' = NextUsage /\ lost' = lost
      \/ usage' = usage /\ lost' = [lost EXCEPT ![grant] = @ + 1]
  BY DEF Ride
<1>6. UNCHANGED <<now, book, grant>>
  BY DEF Ride
<1> QED BY <1>1, <1>3, <1>4, <1>5, <1>6

-------------------------------------------------------------------------------
(* Budget and rate: each handler keeps the invariant.                        *)

(* The fields the counting reads are numbers.                                *)
LEMMA Numbers ==
  ASSUME CrossingAssumption, TypeOK
  PROVE  /\ usage.crossings \in Nat /\ usage.start \in Nat /\ usage.count \in Nat
         /\ usage.id \in 0..Len(book) /\ now \in Nat /\ grant \in 0..Len(book)
         /\ Len(book) \in Nat /\ DOMAIN book = 1..Len(book)
         /\ \A g \in DOMAIN book : /\ g \in Ids /\ g \in Nat /\ lost[g] \in Nat
                                   /\ book[g] \in Grants /\ book[g].max \in Nat
                                   /\ book[g].span \in Nat /\ book[g].rate \in Nat
<1>1. \A g \in DOMAIN book : g \in Ids /\ g \in Nat
  BY DEF TypeOK, Ids, CrossingAssumption
<1>2. \A g \in DOMAIN book : book[g] \in Grants
  BY DEF TypeOK
<1>3. \A g \in DOMAIN book : book[g].max \in Nat /\ book[g].span \in Nat /\ book[g].rate \in Nat
  BY <1>2 DEF Grants
<1>4. \A g \in DOMAIN book : lost[g] \in Nat
  BY <1>1 DEF TypeOK
<1>5. /\ usage.crossings \in Nat /\ usage.start \in Nat /\ usage.count \in Nat
      /\ usage.id \in 0..Len(book) /\ now \in Nat /\ grant \in 0..Len(book)
  BY DEF TypeOK
<1>6. Len(book) \in Nat /\ DOMAIN book = 1..Len(book)
  BY DEF TypeOK
<1> QED BY <1>1, <1>2, <1>3, <1>4, <1>5, <1>6

LEMMA TickRate ==
  ASSUME CrossingAssumption, TypeOK, RateInv, Tick
  PROVE  RateInv'
<1>1. log' = log /\ book' = book /\ grant' = grant /\ usage' = usage /\ lost' = lost /\ now' = now + 1
  BY DEF Tick, stored, rows
<1>2. \A g, t, d : SpentFrom(g, t)' = SpentFrom(g, t) /\ Stretch(g, t, d)' = Stretch(g, t, d)
  BY <1>1, SameLog
<1>3. PastInv'
  <2>1. usage.start <= now /\ \A i \in DOMAIN log : log[i].at <= now /\ log[i].spent <= Len(book)
    BY DEF RateInv, PastInv
  <2>2. \A i \in DOMAIN log : log[i].at \in Nat
    <3>1. \A i \in DOMAIN log : log[i] \in Outcomes
      BY DEF TypeOK
    <3> QED BY <3>1 DEF Outcomes
  <2>3. usage'.start <= now'
    BY <2>1, <1>1, Numbers
  <2>4. \A i \in DOMAIN log : log[i].at <= now + 1
    BY <2>1, <2>2, Numbers
  <2> QED BY <1>1, <2>1, <2>3, <2>4 DEF RateInv, PastInv
<1>4. CountInv' /\ BudgetKept'
  BY <1>1, <1>2 DEF RateInv, CountInv, BudgetKept
<1>5. WindowInv'
  BY <1>1, <1>2 DEF RateInv, WindowInv
<1>6. StretchInv'
  BY <1>1, <1>2 DEF RateInv, StretchInv
<1> QED BY <1>3, <1>4, <1>5, <1>6 DEF RateInv

LEMMA StillRate ==
  ASSUME CrossingAssumption, TypeOK, RateInv, UNCHANGED <<log, book, grant, usage, lost, now>>
  PROVE  RateInv'
<1>1. \A g, t, d : SpentFrom(g, t)' = SpentFrom(g, t) /\ Stretch(g, t, d)' = Stretch(g, t, d)
  BY SameLog
<1>2. PastInv'
  BY DEF RateInv, PastInv
<1>4. CountInv' /\ BudgetKept'
  BY <1>1 DEF RateInv, CountInv, BudgetKept
<1>5. WindowInv'
  BY <1>1 DEF RateInv, WindowInv
<1>6. StretchInv'
  BY <1>1 DEF RateInv, StretchInv
<1> QED BY <1>2, <1>4, <1>5, <1>6 DEF RateInv

LEMMA RefuseRate ==
  ASSUME CrossingAssumption, TypeOK, RateInv, NEW q \in Requests, Refuse(q)
  PROVE  RateInv'
<1>1. PICK o \in Outcomes : log' = Append(log, o) /\ o.spent = 0 /\ o.at = now
  BY RefuseEffect
<1>2. UNCHANGED <<book, grant, usage, lost, now>>
  BY RefuseEffect DEF stored
<1>3. \A g \in DOMAIN book : \A t, d \in Nat :
        SpentFrom(g, t)' = SpentFrom(g, t) /\ Stretch(g, t, d)' = Stretch(g, t, d)
  <2> SUFFICES ASSUME NEW g \in DOMAIN book, NEW t \in Nat, NEW d \in Nat
               PROVE SpentFrom(g, t)' = SpentFrom(g, t) /\ Stretch(g, t, d)' = Stretch(g, t, d)
    OBVIOUS
  <2>1. o.spent # g
    BY <1>1, Numbers
  <2> QED BY <1>1, <2>1, Grown
<1>4. PastInv'
  <2>1. \A i \in DOMAIN log' : log'[i].at <= now /\ log'[i].spent <= Len(book)
    <3> SUFFICES ASSUME NEW i \in DOMAIN log' PROVE log'[i].at <= now /\ log'[i].spent <= Len(book)
      OBVIOUS
    <3>1. CASE i \in DOMAIN log
      BY <3>1, <1>1 DEF RateInv, PastInv, TypeOK
    <3>2. CASE i \notin DOMAIN log
      <4>1. log'[i] = o
        BY <3>2, <1>1 DEF TypeOK
      <4> QED BY <4>1, <1>1, Numbers
    <3> QED BY <3>1, <3>2
  <2> QED BY <2>1, <1>2 DEF RateInv, PastInv
<1>5. CountInv' /\ BudgetKept'
  BY <1>2, <1>3 DEF RateInv, CountInv, BudgetKept
<1>6. WindowInv'
  BY <1>2, <1>3, Numbers DEF RateInv, WindowInv
<1>7. StretchInv'
  BY <1>2, <1>3 DEF RateInv, StretchInv
<1> QED BY <1>4, <1>5, <1>6, <1>7 DEF RateInv

LEMMA IssueRate ==
  ASSUME CrossingAssumption, TypeOK, TypeOK', RateInv, NEW q \in Terms, Issue(q)
  PROVE  RateInv'
<1> DEFINE new == Len(book) + 1
<1>1. /\ log' = log /\ now' = now
      /\ Len(book') = new /\ DOMAIN book' = DOMAIN book \cup {new} /\ new \notin DOMAIN book
      /\ new \in Nat /\ new \in Ids
      /\ \A g \in DOMAIN book : book'[g] = book[g]
      /\ book'[new].span > 0 /\ book'[new].rate > 0
  <2>1. /\ log' = log /\ now' = now
        /\ Len(book') = new /\ new \in Ids
        /\ \A g \in DOMAIN book : book'[g] = book[g]
        /\ book'[new].span > 0 /\ book'[new].rate > 0
    BY IssueEffect
  <2>2. DOMAIN book' = 1..Len(book')
    BY DEF TypeOK
  <2>3. DOMAIN book = 1..Len(book) /\ Len(book) \in Nat
    BY Numbers
  <2>4. DOMAIN book' = DOMAIN book \cup {new} /\ new \notin DOMAIN book /\ new \in Nat
    BY <2>1, <2>2, <2>3
  <2> QED BY <2>1, <2>4
<1>2. \/ grant' = grant /\ usage' = usage /\ lost' = lost
      \/ grant' = new /\ usage' = usage /\ lost' = lost
      \/ grant' = new /\ usage' = Fresh(new) /\ lost' = lost
      \/ /\ grant' = grant /\ usage' = Fresh(new)
         /\ lost' = IF grant = 0 THEN lost ELSE [lost EXCEPT ![grant] = @ + Used.crossings]
  BY IssueEffect
<1>3. \A g, t, d : SpentFrom(g, t)' = SpentFrom(g, t) /\ Stretch(g, t, d)' = Stretch(g, t, d)
  BY <1>1, SameLog
<1>4. \A t, d \in Nat : Cardinality(SpentFrom(new, t)) = 0 /\ Cardinality(Stretch(new, t, d)) = 0
  BY UnspentYet DEF RateInv
<1>5. /\ book'[new].max \in Nat /\ book'[new].rate \in Nat /\ book'[new].span \in Nat
      /\ lost'[new] \in Nat
  <2>1. book'[new] \in Grants
    BY <1>1 DEF TypeOK
  <2> QED BY <2>1, <1>1 DEF TypeOK, Grants
<1>6. \A g \in DOMAIN book : lost'[g] >= lost[g] /\ lost'[g] \in Nat
  <2> SUFFICES ASSUME NEW g \in DOMAIN book PROVE lost'[g] >= lost[g] /\ lost'[g] \in Nat
    OBVIOUS
  <2>1. Used.crossings \in Nat /\ lost[g] \in Nat /\ g \in Ids
    BY Numbers DEF Used, Fresh
  <2>2. lost \in [Ids -> Nat]
    BY DEF TypeOK
  <2> QED BY <2>1, <2>2, <1>2
<1>7. PastInv'
  <2>1. usage'.start <= now
    BY <1>2, Numbers DEF RateInv, PastInv, Fresh
  <2>2. \A i \in DOMAIN log : log[i].at <= now /\ log[i].spent <= new
    <3> SUFFICES ASSUME NEW i \in DOMAIN log PROVE log[i].at <= now /\ log[i].spent <= new
      OBVIOUS
    <3>1. log[i] \in Outcomes
      BY SMTT(30) DEF TypeOK
    <3>2. log[i].spent \in Int
      BY <3>1 DEF Outcomes, CrossingAssumption
    <3> QED BY <3>2, Numbers DEF RateInv, PastInv
  <2> QED BY <2>1, <2>2, <1>1 DEF RateInv, PastInv
<1>8. BudgetKept'
  <2> SUFFICES ASSUME NEW g \in DOMAIN book'
               PROVE Cardinality(SpentFrom(g, 0)) <= book'[g].max + lost'[g]
    BY <1>3 DEF BudgetKept
  <2>1. CASE g = new
    BY <2>1, <1>4, <1>5
  <2>2. CASE g \in DOMAIN book
    <3>1. Cardinality(SpentFrom(g, 0)) <= book[g].max + lost[g]
      BY <2>2 DEF RateInv, BudgetKept
    <3>2. Cardinality(SpentFrom(g, 0)) \in Nat
      BY SpentFinite
    <3>3. book'[g] = book[g] /\ book[g].max \in Nat /\ lost[g] \in Nat
      BY <2>2, <1>1, Numbers
    <3>4. lost'[g] >= lost[g] /\ lost'[g] \in Nat
      BY <2>2, <1>6
    <3> QED BY <3>1, <3>2, <3>3, <3>4
  <2> QED BY <2>1, <2>2, <1>1
<1>9. StretchInv'
  <2> SUFFICES ASSUME NEW g \in DOMAIN book', NEW t \in Nat, NEW d \in Nat, d = book'[g].span
               PROVE Cardinality(Stretch(g, t, d)) <= 2 * book'[g].rate + lost'[g]
    BY <1>3 DEF StretchInv
  <2>1. CASE g = new
    BY <2>1, <1>4, <1>5
  <2>2. CASE g \in DOMAIN book
    <3>1. Cardinality(Stretch(g, t, d)) <= 2 * book[g].rate + lost[g]
      BY <2>2, <1>1 DEF RateInv, StretchInv
    <3>2. Cardinality(Stretch(g, t, d)) \in Nat
      BY SpentFinite
    <3>3. book'[g] = book[g] /\ book[g].rate \in Nat /\ lost[g] \in Nat
      BY <2>2, <1>1, Numbers
    <3>4. lost'[g] >= lost[g] /\ lost'[g] \in Nat
      BY <2>2, <1>6
    <3> QED BY <3>1, <3>2, <3>3, <3>4
  <2> QED BY <2>1, <2>2, <1>1
<1>10. CountInv'
  <2> SUFFICES ASSUME NEW g \in DOMAIN book', g = grant'
               PROVE IF usage'.id = g
                       THEN Cardinality(SpentFrom(g, 0)) <= usage'.crossings + lost'[g]
                       ELSE Cardinality(SpentFrom(g, 0)) <= lost'[g]
    BY <1>3 DEF CountInv
  <2>1. CASE g = new
    <3>1. usage'.crossings \in Nat
      BY DEF TypeOK
    <3>2. Cardinality(SpentFrom(g, 0)) = 0
      BY <2>1, <1>4
    <3> QED BY <3>1, <3>2, <2>1, <1>5
  <2>2. CASE g # new
    <3>1. g \in DOMAIN book /\ g = grant /\ g \in Ids /\ g # 0
      BY <2>2, <1>1, <1>2, Numbers
    <3>2. IF usage.id = g
            THEN Cardinality(SpentFrom(g, 0)) <= usage.crossings + lost[g]
            ELSE Cardinality(SpentFrom(g, 0)) <= lost[g]
      BY <3>1 DEF RateInv, CountInv
    <3>3. CASE usage' = usage /\ lost' = lost
      BY <3>2, <3>3
    <3>4. CASE usage' = Fresh(new) /\ lost' = [lost EXCEPT ![grant] = @ + Used.crossings]
      <4>1. usage'.id # g
        BY <3>4, <2>2 DEF Fresh
      <4>2. lost'[g] = lost[g] + Used.crossings
        BY <3>1, <3>4 DEF TypeOK
      <4>3. CASE usage.id = g
        <5>1. Used.crossings = usage.crossings
          BY <4>3, <3>1 DEF Used
        <5>2. Cardinality(SpentFrom(g, 0)) <= lost'[g]
          <6>1. Cardinality(SpentFrom(g, 0)) <= usage.crossings + lost[g]
            BY <4>3, <3>2
          <6>2. /\ Cardinality(SpentFrom(g, 0)) \in Nat
                /\ usage.crossings \in Nat /\ lost[g] \in Nat
            BY <3>1, SpentFinite, Numbers
          <6>3. lost'[g] = lost[g] + usage.crossings
            BY <4>2, <5>1
          <6> QED BY <6>1, <6>2, <6>3
        <5> QED BY <5>2, <4>1
      <4>4. CASE usage.id # g
        <5>1. Used.crossings = 0
          BY <4>4, <3>1 DEF Used, Fresh
        <5> QED BY <5>1, <4>1, <4>2, <4>4, <3>2, <3>1, Numbers
      <4> QED BY <4>3, <4>4
    <3> QED BY <3>1, <3>3, <3>4, <2>2, <1>2
  <2> QED BY <2>1, <2>2
<1>11. WindowInv'
  <2> SUFFICES ASSUME NEW g \in DOMAIN book', g = grant', usage'.id = g
               PROVE /\ usage'.count <= book'[g].rate
                     /\ \A t \in Nat :
                          /\ t >= usage'.start => Cardinality(SpentFrom(g, t)) <= usage'.count + lost'[g]
                          /\ t >= usage'.start + book'[g].span => Cardinality(SpentFrom(g, t)) <= lost'[g]
                          /\ t + book'[g].span > usage'.start =>
                               Cardinality(SpentFrom(g, t)) <= book'[g].rate + usage'.count + lost'[g]
    BY <1>3 DEF WindowInv
  <2>1. CASE g = new
    <3>1. usage' = Fresh(new)
      BY <2>1, <1>2, Numbers
    <3>2. usage'.count = 0
      BY <3>1 DEF Fresh
    <3> QED BY <2>1, <3>2, <1>1, <1>4, <1>5
  <2>2. CASE g # new
    <3>1. g \in DOMAIN book /\ g = grant /\ usage' = usage /\ lost' = lost
      BY <2>2, <1>1, <1>2, Numbers DEF Fresh
    <3> QED BY <3>1, <1>1 DEF RateInv, WindowInv
  <2> QED BY <2>1, <2>2
<1> QED BY <1>7, <1>8, <1>9, <1>10, <1>11 DEF RateInv

(* The counters of the grant that is spent, as the code reads them.          *)
LEMMA UsedFacts ==
  ASSUME CrossingAssumption, TypeOK, RateInv, NEW g \in DOMAIN book, g = grant
  PROVE  /\ Used.crossings \in Nat /\ Used.start \in Nat /\ Used.count \in Nat
         /\ Used.start <= now
         /\ Cardinality(SpentFrom(g, 0)) <= Used.crossings + lost[g]
         /\ usage.id = g => Used = usage
         /\ usage.id # g => Used.count = 0 /\ ~Rolled
<1>1. CASE usage.id = g
  <2>1. Used = usage
    BY <1>1 DEF Used
  <2> QED BY <1>1, <2>1, Numbers DEF RateInv, PastInv, CountInv
<1>2. CASE usage.id # g
  <2>1. Used.crossings = 0 /\ Used.start = now /\ Used.count = 0
    BY <1>2 DEF Used, Fresh
  <2>2. Cardinality(SpentFrom(g, 0)) <= lost[g]
    BY <1>2 DEF RateInv, CountInv
  <2>3. book[g].span > 0 /\ book[g].span \in Nat
    BY Numbers DEF RateInv, PastInv
  <2>4. ~Rolled
    BY <2>1, <2>3, Numbers DEF Rolled, Held
  <2> QED BY <1>2, <2>1, <2>2, <2>4, Numbers
<1> QED BY <1>1, <1>2

(* What the window holds before a crossing is decided: a fresh counter has   *)
(* an empty window.                                                          *)
LEMMA WindowBefore ==
  ASSUME CrossingAssumption, TypeOK, RateInv, NEW g \in DOMAIN book, g = grant,
         NEW t \in Nat
  PROVE  /\ ~Rolled /\ t >= Used.start => Cardinality(SpentFrom(g, t)) <= Used.count + lost[g]
         /\ ~Rolled /\ t >= Used.start + book[g].span => Cardinality(SpentFrom(g, t)) <= lost[g]
         /\ ~Rolled /\ t + book[g].span > Used.start =>
              Cardinality(SpentFrom(g, t)) <= book[g].rate + Used.count + lost[g]
         /\ Rolled /\ t >= now => Cardinality(SpentFrom(g, t)) <= lost[g]
         /\ Rolled /\ t + book[g].span > now =>
              Cardinality(SpentFrom(g, t)) <= book[g].rate + lost[g]
<1>0. /\ book[g].span \in Nat /\ book[g].rate \in Nat /\ lost[g] \in Nat /\ now \in Nat
      /\ Used.start \in Nat /\ Used.count \in Nat /\ Used.start <= now
  BY Numbers, UsedFacts
<1>1. CASE usage.id = g
  <2>1. Used = usage
    BY <1>1, UsedFacts
  <2>2. /\ Used.count <= book[g].rate
        /\ t >= Used.start => Cardinality(SpentFrom(g, t)) <= Used.count + lost[g]
        /\ t >= Used.start + book[g].span => Cardinality(SpentFrom(g, t)) <= lost[g]
        /\ t + book[g].span > Used.start =>
             Cardinality(SpentFrom(g, t)) <= book[g].rate + Used.count + lost[g]
    BY <1>1, <2>1 DEF RateInv, WindowInv
  <2>3. Rolled => now >= Used.start + book[g].span
    BY <1>0 DEF Rolled, Held
  <2>4. Cardinality(SpentFrom(g, t)) \in Nat
    BY SpentFinite
  <2> QED BY <1>0, <2>2, <2>3, <2>4
<1>2. CASE usage.id # g
  <2>1. ~Rolled /\ Used.count = 0
    BY <1>2, UsedFacts
  <2>2. Cardinality(SpentFrom(g, 0)) <= lost[g]
    BY <1>2 DEF RateInv, CountInv
  <2>3. Cardinality(SpentFrom(g, t)) <= Cardinality(SpentFrom(g, 0))
    BY LaterIsFewer
  <2>4. Cardinality(SpentFrom(g, t)) \in Nat /\ Cardinality(SpentFrom(g, 0)) \in Nat
    BY SpentFinite
  <2> QED BY <1>0, <2>1, <2>2, <2>3, <2>4
<1> QED BY <1>1, <1>2

LEMMA RideRate ==
  ASSUME CrossingAssumption, TypeOK, TypeOK', RateInv, NEW q \in Requests, Ride(q)
  PROVE  RateInv'
<1>1. /\ grant \in DOMAIN book /\ grant \in Ids
      /\ now' = now /\ book' = book /\ grant' = grant
      /\ Used.crossings < book[grant].max /\ InWindow < book[grant].rate
      /\ \/ usage' = NextUsage /\ lost' = lost
         \/ usage' = usage /\ lost' = [lost EXCEPT ![grant] = @ + 1]
  BY RideEffect
<1>2. PICK o \in Outcomes : log' = Append(log, o) /\ o.spent = grant /\ o.at = now
  BY RideEffect
<1>3. \A g \in DOMAIN book : g # grant =>
        /\ lost'[g] = lost[g]
        /\ \A t, d \in Nat : SpentFrom(g, t)' = SpentFrom(g, t) /\ Stretch(g, t, d)' = Stretch(g, t, d)
  <2> SUFFICES ASSUME NEW g \in DOMAIN book, g # grant
               PROVE /\ lost'[g] = lost[g]
                     /\ \A t, d \in Nat : SpentFrom(g, t)' = SpentFrom(g, t)
                                          /\ Stretch(g, t, d)' = Stretch(g, t, d)
    OBVIOUS
  <2>1. lost'[g] = lost[g]
    BY <1>1, Numbers DEF TypeOK
  <2>2. ASSUME NEW t \in Nat, NEW d \in Nat
        PROVE SpentFrom(g, t)' = SpentFrom(g, t) /\ Stretch(g, t, d)' = Stretch(g, t, d)
    BY <1>2, Grown
  <2> QED BY <2>1, <2>2
<1>4. lost'[grant] = IF usage' = NextUsage /\ lost' = lost THEN lost[grant] ELSE lost[grant] + 1
  BY <1>1 DEF TypeOK
<1>5. PastInv'
  <2>1. \A i \in DOMAIN log' : log'[i].at <= now /\ log'[i].spent <= Len(book)
    <3> SUFFICES ASSUME NEW i \in DOMAIN log' PROVE log'[i].at <= now /\ log'[i].spent <= Len(book)
      OBVIOUS
    <3>1. CASE i \in DOMAIN log
      BY <3>1, <1>2, SMTT(30) DEF RateInv, PastInv, TypeOK
    <3>2. CASE i \notin DOMAIN log
      <4>1. log'[i] = o
        <5>1. log \in Seq(Outcomes) /\ log' = Append(log, o)
          BY <1>2 DEF TypeOK
        <5> QED BY <3>2, <5>1
      <4>2. o.at = now /\ o.spent = grant
        BY <1>2
      <4> QED BY <4>1, <4>2, Numbers
    <3> QED BY <3>1, <3>2
  <2>2. usage'.start <= now
    BY <1>1, UsedFacts, Numbers DEF RateInv, PastInv, NextUsage
  <2> QED BY <2>1, <2>2, <1>1 DEF RateInv, PastInv
<1>6. SUFFICES ASSUME NEW g \in DOMAIN book, g = grant
               PROVE /\ IF usage'.id = g
                          THEN Cardinality(SpentFrom(g, 0)') <= usage'.crossings + lost'[g]
                          ELSE Cardinality(SpentFrom(g, 0)') <= lost'[g]
                     /\ Cardinality(SpentFrom(g, 0)') <= book[g].max + lost'[g]
                     /\ usage'.id = g =>
                          /\ usage'.count <= book[g].rate
                          /\ \A t \in Nat :
                               /\ t >= usage'.start =>
                                    Cardinality(SpentFrom(g, t)') <= usage'.count + lost'[g]
                               /\ t >= usage'.start + book[g].span =>
                                    Cardinality(SpentFrom(g, t)') <= lost'[g]
                               /\ t + book[g].span > usage'.start =>
                                    Cardinality(SpentFrom(g, t)') <= book[g].rate + usage'.count + lost'[g]
                     /\ \A t, d \in Nat : d = book[g].span =>
                          Cardinality(Stretch(g, t, d)') <= 2 * book[g].rate + lost'[g]
  <2>1. CountInv'
    BY <1>1, <1>6 DEF CountInv
  <2>2. BudgetKept'
    <3> SUFFICES ASSUME NEW g \in DOMAIN book
                 PROVE Cardinality(SpentFrom(g, 0)') <= book[g].max + lost'[g]
      BY <1>1 DEF BudgetKept
    <3>1. CASE g = grant
      BY <3>1, <1>6
    <3>2. CASE g # grant
      BY <3>2, <1>3 DEF RateInv, BudgetKept
    <3> QED BY <3>1, <3>2
  <2>3. WindowInv'
    BY <1>1, <1>6 DEF WindowInv
  <2>4. StretchInv'
    <3> SUFFICES ASSUME NEW g \in DOMAIN book, NEW t \in Nat, NEW d \in Nat, d = book[g].span
                 PROVE Cardinality(Stretch(g, t, d)') <= 2 * book[g].rate + lost'[g]
      BY <1>1 DEF StretchInv
    <3>1. CASE g = grant
      BY <3>1, <1>6
    <3>2. CASE g # grant
      BY <3>2, <1>3 DEF RateInv, StretchInv
    <3> QED BY <3>1, <3>2
  <2> QED BY <1>5, <2>1, <2>2, <2>3, <2>4 DEF RateInv
<1>7. /\ book[g].span \in Nat /\ book[g].rate \in Nat /\ book[g].max \in Nat
      /\ lost[g] \in Nat /\ now \in Nat /\ book[g].span > 0 /\ book[g].rate > 0
      /\ usage.id \in Nat /\ usage.count \in Nat /\ usage.start \in Nat
  BY Numbers DEF RateInv, PastInv
<1>8. /\ Used.crossings \in Nat /\ Used.start \in Nat /\ Used.count \in Nat /\ Used.start <= now
      /\ Cardinality(SpentFrom(g, 0)) <= Used.crossings + lost[g]
      /\ Used.crossings < book[g].max /\ InWindow < book[g].rate
  BY <1>1, <1>6, UsedFacts
<1>9. \A t, d \in Nat :
        /\ Cardinality(SpentFrom(g, t)') <= Cardinality(SpentFrom(g, t)) + 1
        /\ Cardinality(Stretch(g, t, d)') <= Cardinality(Stretch(g, t, d)) + 1
        /\ t > now => SpentFrom(g, t)' = SpentFrom(g, t)
        /\ t > now \/ now >= t + d => Stretch(g, t, d)' = Stretch(g, t, d)
        /\ Cardinality(SpentFrom(g, t)) \in Nat /\ Cardinality(SpentFrom(g, t)') \in Nat
        /\ Cardinality(Stretch(g, t, d)) \in Nat /\ Cardinality(Stretch(g, t, d)') \in Nat
        /\ Cardinality(Stretch(g, t, d)') <= Cardinality(SpentFrom(g, t)')
  <2> SUFFICES ASSUME NEW t \in Nat, NEW d \in Nat
               PROVE  /\ Cardinality(SpentFrom(g, t)') <= Cardinality(SpentFrom(g, t)) + 1
                      /\ Cardinality(Stretch(g, t, d)') <= Cardinality(Stretch(g, t, d)) + 1
                      /\ t > now => SpentFrom(g, t)' = SpentFrom(g, t)
                      /\ t > now \/ now >= t + d => Stretch(g, t, d)' = Stretch(g, t, d)
                      /\ Cardinality(SpentFrom(g, t)) \in Nat /\ Cardinality(SpentFrom(g, t)') \in Nat
                      /\ Cardinality(Stretch(g, t, d)) \in Nat /\ Cardinality(Stretch(g, t, d)') \in Nat
                      /\ Cardinality(Stretch(g, t, d)') <= Cardinality(SpentFrom(g, t)')
    OBVIOUS
  <2>1. /\ Cardinality(SpentFrom(g, t)') <= Cardinality(SpentFrom(g, t)) + 1
        /\ Cardinality(Stretch(g, t, d)') <= Cardinality(Stretch(g, t, d)) + 1
    BY <1>2, Grown
  <2>2. ~(o.at >= t) => SpentFrom(g, t)' = SpentFrom(g, t) /\ Stretch(g, t, d)' = Stretch(g, t, d)
    BY <1>2, Grown
  <2>3. ~(o.at < t + d) => Stretch(g, t, d)' = Stretch(g, t, d)
    BY <1>2, Grown
  <2>4. Cardinality(SpentFrom(g, t)) \in Nat /\ Cardinality(Stretch(g, t, d)) \in Nat
    BY SpentFinite
  <2>5. /\ Cardinality(SpentFrom(g, t)') \in Nat /\ Cardinality(Stretch(g, t, d)') \in Nat
        /\ Cardinality(Stretch(g, t, d)') <= Cardinality(SpentFrom(g, t)')
    BY SpentFiniteNext
  <2>6. (t > now => ~(o.at >= t)) /\ (now >= t + d => ~(o.at < t + d))
    BY <1>2, <1>7
  <2> QED BY <2>1, <2>2, <2>3, <2>4, <2>5, <2>6
<1>0. /\ Cardinality(SpentFrom(g, 0)') <= Cardinality(SpentFrom(g, 0)) + 1
      /\ Cardinality(SpentFrom(g, 0)) \in Nat /\ Cardinality(SpentFrom(g, 0)') \in Nat
  <2>1. 0 \in Nat
    OBVIOUS
  <2> QED BY <2>1, <1>9
<1>10. CASE usage' = NextUsage /\ lost' = lost
  <2>1. /\ usage'.id = g /\ usage'.crossings = Used.crossings + 1
        /\ usage'.start = (IF Rolled THEN now ELSE Used.start)
        /\ usage'.count = InWindow + 1 /\ lost'[g] = lost[g]
    BY <1>10, <1>6 DEF NextUsage
  <2>2. InWindow = (IF Rolled THEN 0 ELSE Used.count)
    BY DEF InWindow
  <2>3. Cardinality(SpentFrom(g, 0)') <= usage'.crossings + lost'[g]
    BY <2>1, <1>7, <1>8, <1>0
  <2>4. Cardinality(SpentFrom(g, 0)') <= book[g].max + lost'[g]
    BY <2>1, <2>3, <1>7, <1>8, <1>0
  <2>5. usage'.count <= book[g].rate
    BY <2>1, <2>2, <1>7, <1>8
  <2>6. Rolled => now >= Used.start + book[g].span
    BY <1>6, <1>7, <1>8 DEF Rolled, Held
  <2>7. ~Rolled => now < Used.start + book[g].span
    BY <1>6, <1>7, <1>8 DEF Rolled, Held
  <2>8. ASSUME NEW t \in Nat
        PROVE  /\ t >= usage'.start => Cardinality(SpentFrom(g, t)') <= usage'.count + lost'[g]
               /\ t >= usage'.start + book[g].span => Cardinality(SpentFrom(g, t)') <= lost'[g]
               /\ t + book[g].span > usage'.start =>
                    Cardinality(SpentFrom(g, t)') <= book[g].rate + usage'.count + lost'[g]
    <3>1. /\ ~Rolled /\ t >= Used.start => Cardinality(SpentFrom(g, t)) <= Used.count + lost[g]
          /\ ~Rolled /\ t >= Used.start + book[g].span => Cardinality(SpentFrom(g, t)) <= lost[g]
          /\ ~Rolled /\ t + book[g].span > Used.start =>
               Cardinality(SpentFrom(g, t)) <= book[g].rate + Used.count + lost[g]
          /\ Rolled /\ t >= now => Cardinality(SpentFrom(g, t)) <= lost[g]
          /\ Rolled /\ t + book[g].span > now =>
               Cardinality(SpentFrom(g, t)) <= book[g].rate + lost[g]
      BY <1>6, WindowBefore
    <3>2. /\ Cardinality(SpentFrom(g, t)') <= Cardinality(SpentFrom(g, t)) + 1
          /\ t > now => Cardinality(SpentFrom(g, t)') = Cardinality(SpentFrom(g, t))
          /\ Cardinality(SpentFrom(g, t)) \in Nat /\ Cardinality(SpentFrom(g, t)') \in Nat
      BY <1>9
    <3>3. CASE Rolled
      <4>1. usage'.start = now /\ usage'.count = 1
        BY <3>3, <2>1, <2>2
      <4> QED BY <3>1, <3>2, <3>3, <4>1, <2>1, <1>7
    <3>4. CASE ~Rolled
      <4>1. usage'.start = Used.start /\ usage'.count = Used.count + 1
        BY <3>4, <2>1, <2>2
      <4> QED BY <3>1, <3>2, <3>4, <4>1, <2>1, <2>7, <1>7, <1>8
    <3> QED BY <3>3, <3>4
  <2>9. usage'.start \in Nat /\ usage'.start <= now /\ usage'.count \in Nat
    BY <2>1, <2>2, <1>7, <1>8
  <2>10. ASSUME NEW t \in Nat, NEW d \in Nat, d = book[g].span
         PROVE  Cardinality(Stretch(g, t, d)') <= 2 * book[g].rate + lost'[g]
    <3>1. /\ t > now \/ now >= t + d => Cardinality(Stretch(g, t, d)') = Cardinality(Stretch(g, t, d))
          /\ Cardinality(SpentFrom(g, t)') \in Nat /\ Cardinality(Stretch(g, t, d)') \in Nat
          /\ Cardinality(Stretch(g, t, d)') <= Cardinality(SpentFrom(g, t)')
      BY <1>9
    <3>2. Cardinality(Stretch(g, t, d)) <= 2 * book[g].rate + lost[g]
      BY <2>10 DEF RateInv, StretchInv
    <3>3. CASE t > now \/ now >= t + d
      BY <3>1, <3>2, <3>3, <2>1
    <3>4. CASE t + d > now
      <4>1. t + book[g].span > usage'.start
        BY <3>4, <2>9, <2>10, <1>7
      <4>2. Cardinality(SpentFrom(g, t)') <= book[g].rate + usage'.count + lost'[g]
        BY <4>1, <2>8
      <4> QED BY <4>2, <3>1, <2>1, <2>5, <2>9, <1>7
    <3> QED BY <3>3, <3>4, <1>7
  <2> QED BY <2>1, <2>3, <2>4, <2>5, <2>8, <2>10
<1>11. CASE usage' = usage /\ lost' = [lost EXCEPT ![grant] = @ + 1]
  <2>1. lost'[g] = lost[g] + 1
    BY <1>11, <1>1, <1>6 DEF TypeOK
  <2>2. IF usage'.id = g
          THEN Cardinality(SpentFrom(g, 0)') <= usage'.crossings + lost'[g]
          ELSE Cardinality(SpentFrom(g, 0)') <= lost'[g]
    <3>1. IF usage.id = g
            THEN Cardinality(SpentFrom(g, 0)) <= usage.crossings + lost[g]
            ELSE Cardinality(SpentFrom(g, 0)) <= lost[g]
      BY <1>6 DEF RateInv, CountInv
    <3>2. usage.crossings \in Nat
      BY Numbers
    <3>3. usage' = usage
      BY <1>11
    <3> QED BY <3>1, <3>2, <3>3, <2>1, <1>7, <1>0
  <2>3. Cardinality(SpentFrom(g, 0)') <= book[g].max + lost'[g]
    BY <2>1, <1>7, <1>8, <1>0
  <2>4. ASSUME usage.id = g, NEW t \in Nat
        PROVE  /\ usage.count <= book[g].rate
               /\ t >= usage.start => Cardinality(SpentFrom(g, t)') <= usage.count + lost'[g]
               /\ t >= usage.start + book[g].span => Cardinality(SpentFrom(g, t)') <= lost'[g]
               /\ t + book[g].span > usage.start =>
                    Cardinality(SpentFrom(g, t)') <= book[g].rate + usage.count + lost'[g]
    <3>1. /\ usage.count <= book[g].rate
          /\ t >= usage.start => Cardinality(SpentFrom(g, t)) <= usage.count + lost[g]
          /\ t >= usage.start + book[g].span => Cardinality(SpentFrom(g, t)) <= lost[g]
          /\ t + book[g].span > usage.start =>
               Cardinality(SpentFrom(g, t)) <= book[g].rate + usage.count + lost[g]
      BY <1>6, <2>4 DEF RateInv, WindowInv
    <3>2. /\ Cardinality(SpentFrom(g, t)') <= Cardinality(SpentFrom(g, t)) + 1
          /\ Cardinality(SpentFrom(g, t)) \in Nat /\ Cardinality(SpentFrom(g, t)') \in Nat
      BY <1>9
    <3> QED BY <3>1, <3>2, <2>1, <1>7
  <2>5. ASSUME NEW t \in Nat, NEW d \in Nat, d = book[g].span
        PROVE  Cardinality(Stretch(g, t, d)') <= 2 * book[g].rate + lost'[g]
    <3>1. Cardinality(Stretch(g, t, d)) <= 2 * book[g].rate + lost[g]
      BY <2>5 DEF RateInv, StretchInv
    <3>2. /\ Cardinality(Stretch(g, t, d)') <= Cardinality(Stretch(g, t, d)) + 1
          /\ Cardinality(Stretch(g, t, d)) \in Nat /\ Cardinality(Stretch(g, t, d)') \in Nat
      BY <1>9
    <3> QED BY <3>1, <3>2, <2>1, <1>7
  <2>6. \E t \in Nat : TRUE
    BY <1>7
  <2> QED BY <1>11, <2>2, <2>3, <2>4, <2>5, <2>6
<1> QED BY <1>1, <1>6, <1>10, <1>11

LEMMA RevokeRate ==
  ASSUME CrossingAssumption, TypeOK, RateInv, Revoke
  PROVE  RateInv'
BY StillRate DEF Revoke, rows

(* Every step keeps the budget and the rate.                                 *)
LEMMA RateStep ==
  ASSUME CrossingAssumption, TypeOK, TypeOK', RateInv, [Next]_vars
  PROVE  RateInv'
<1>1. CASE \E t \in Terms : Issue(t)
  BY <1>1, IssueRate
<1>2. CASE \E q \in Requests : Refuse(q)
  BY <1>2, RefuseRate
<1>3. CASE \E q \in Requests : Ride(q)
  BY <1>3, RideRate
<1>4. CASE Revoke
  BY <1>4, RevokeRate
<1>5. CASE Tick
  BY <1>5, TickRate
<1>6. CASE UNCHANGED vars
  BY <1>6, StillRate DEF vars, stored, rows
<1> QED BY <1>1, <1>2, <1>3, <1>4, <1>5, <1>6 DEF Next

(* Nothing is issued or spent at the start.                                  *)
LEMMA RateInit == ASSUME CrossingAssumption, Init PROVE RateInv
<1>1. book = <<>> /\ log = <<>> /\ usage.start = 0 /\ now = 0
  BY DEF Init
<1>2. DOMAIN book = {} /\ DOMAIN log = {}
  BY <1>1
<1> QED BY <1>1, <1>2 DEF RateInv, PastInv, CountInv, BudgetKept, WindowInv, StretchInv

(* However issues, revocations, lost writes and the crossings of other       *)
(* grants interleave, a grant is spent at most maxCrossings times, plus the  *)
(* crossings whose count the storage lost.                                   *)
THEOREM BudgetIsKept == ASSUME CrossingAssumption PROVE Spec => []BudgetKept
<1>1. Init => TypeOK /\ RateInv
  BY TypeInit, RateInit
<1>2. TypeOK /\ RateInv /\ [Next]_vars => TypeOK' /\ RateInv'
  BY TypeStep, RateStep
<1>3. RateInv => BudgetKept
  BY DEF RateInv
<1> QED BY <1>1, <1>2, <1>3, PTL DEF Spec

(* No stretch of windowMs holds more than twice windowMax crossings of a     *)
(* grant, plus the crossings whose count the storage lost.                   *)
THEOREM RateIsBounded == ASSUME CrossingAssumption PROVE Spec => []TwoWindows
<1>1. Init => TypeOK /\ RateInv
  BY TypeInit, RateInit
<1>2. TypeOK /\ RateInv /\ [Next]_vars => TypeOK' /\ RateInv'
  BY TypeStep, RateStep
<1>3. TypeOK /\ RateInv => TwoWindows
  <2> SUFFICES ASSUME TypeOK, RateInv, NEW g \in DOMAIN book, NEW t \in 0..now
               PROVE Cardinality({i \in SpentFrom(g, t) : log[i].at < t + book[g].span})
                       <= 2 * book[g].rate + lost[g]
    BY DEF TwoWindows
  <2>1. t \in Nat /\ book[g].span \in Nat
    BY Numbers
  <2>2. Cardinality(Stretch(g, t, book[g].span)) <= 2 * book[g].rate + lost[g]
    BY <2>1 DEF RateInv, StretchInv
  <2> QED BY <2>2 DEF Stretch
<1> QED BY <1>1, <1>2, <1>3, PTL DEF Spec

-------------------------------------------------------------------------------
(* What a pair has earned.                                                   *)

(* The crossings of p before the i-th outcome that both stores show.         *)
Shown(p, i) == {j \in rowsI \cap rowsR : j < i /\ log[j].crossed /\ PairOf[log[j].req] = p}

LEMMA ShownFinite ==
  ASSUME TypeOK, NEW p, NEW i
  PROVE  IsFiniteSet(Shown(p, i)) /\ Cardinality(Shown(p, i)) \in Nat
<1>1. IsFiniteSet(DOMAIN log)
  <2>1. DOMAIN log = 1..Len(log) /\ Len(log) \in Nat
    BY DEF TypeOK
  <2> QED BY <2>1, FS_Interval
<1>2. Shown(p, i) \in SUBSET DOMAIN log
  BY DEF Shown, TypeOK
<1> QED BY <1>1, <1>2, FS_Subset, FS_CardinalityType

(* What is lent has been earned: the count of the ladder is what both stores *)
(* show, and one more for a grant that stands.                               *)
LEMMA LentIsEarned ==
  ASSUME CrossingAssumption, TypeOK, NEW q \in Requests, Lent(q)
  PROVE  LET p == PairOf[q]
             n == Needs[CapOf[q]]
         IN  n <= Mesh[p] \/ Cardinality(Shown(p, Len(log) + 1)) >= Rung(n) - 1
<1> DEFINE p == PairOf[q]
           n == Needs[CapOf[q]]
           c == Cardinality(Shown(p, Len(log) + 1))
<1>1. n \in 1..3 /\ Vouched \in Nat /\ Proven \in Nat /\ 1 <= Vouched /\ Vouched <= Proven
  BY DEF CrossingAssumption
<1>2. Shown(p, Len(log) + 1) = {j \in rowsI \cap rowsR : log[j].crossed /\ PairOf[log[j].req] = p}
  <2>1. \A j \in rowsI \cap rowsR : j < Len(log) + 1
    BY DEF TypeOK
  <2> QED BY <2>1 DEF Shown
<1>3. c \in Nat
  BY ShownFinite
<1>4. Units(p) = c + IF LiveGrant(p) THEN 1 ELSE 0
  BY <1>2 DEF Units
<1>5. Standing(p) >= n
  BY DEF Lent
<1> HIDE DEF p, n, c
<1>6. Units(p) \in Nat /\ Units(p) <= c + 1
  BY <1>3, <1>4
<1>7. CASE Units(p) = 0
  BY <1>5, <1>7 DEF Standing, p, n
<1>8. CASE Units(p) # 0
  <2>1. Ladder(Units(p)) >= n
    BY <1>5, <1>8 DEF Standing
  <2>2. Units(p) >= Rung(n)
    BY <2>1, <1>1, <1>6, <1>8 DEF Ladder, Rung
  <2>3. Rung(n) \in Nat
    BY <1>1 DEF Rung
  <2>4. c >= Rung(n) - 1
    BY <2>2, <2>3, <1>3, <1>6
  <2> QED BY <2>4 DEF p, n, c
<1> QED BY <1>7, <1>8 DEF p, n

LEMMA EarnedFiled ==
  ASSUME CrossingAssumption, TypeOK, TypeOK', EarnedFirst, NEW q \in Requests,
         Refuse(q) \/ Ride(q)
  PROVE  EarnedFirst'
<1> DEFINE m == Len(log) + 1
<1>1. PICK o \in Outcomes : /\ log' = Append(log, o) /\ o.req = q
                            /\ o.crossed => Lent(q)
  <2>1. CASE Refuse(q)
    <3>1. [req |-> q, at |-> now, crossed |-> FALSE, spent |-> 0] \in Outcomes
      BY DEF TypeOK, Outcomes, CrossingAssumption
    <3> QED BY <2>1, <3>1 DEF Refuse, File
  <2>2. CASE Ride(q)
    <3>1. [req |-> q, at |-> now, crossed |-> CapOf[q] \notin HumanFirst, spent |-> grant] \in Outcomes
      BY SMTT(30) DEF TypeOK, Outcomes, CrossingAssumption
    <3> QED BY <2>2, <3>1 DEF Ride, File
  <2> QED BY <2>1, <2>2
<1>2. /\ rowsI \subseteq rowsI' /\ rowsI' \subseteq rowsI \cup {m}
      /\ rowsR \subseteq rowsR' /\ rowsR' \subseteq rowsR \cup {m}
  BY DEF Refuse, Ride, File
<1>3. /\ DOMAIN log' = DOMAIN log \cup {m} /\ m \notin DOMAIN log
      /\ \A i \in DOMAIN log : log'[i] = log[i] /\ i < m /\ i \in Nat
      /\ log'[m] = o /\ m \in Nat
  <2>1. log \in Seq(Outcomes) /\ log' = Append(log, o)
    BY <1>1 DEF TypeOK
  <2>2. DOMAIN log = 1..Len(log) /\ Len(log) \in Nat /\ DOMAIN log' = 1..m /\ log'[m] = o
    BY <2>1
  <2>3. \A i \in DOMAIN log : log'[i] = log[i]
    BY <2>1
  <2> QED BY <2>2, <2>3
<1>4. \A p, i : i <= m /\ i \in Nat => Shown(p, i)' = Shown(p, i)
  <2> SUFFICES ASSUME NEW p, NEW i \in Nat, i <= m PROVE Shown(p, i)' = Shown(p, i)
    OBVIOUS
  <2>1. \A j \in DOMAIN log : log'[j] = log[j]
    BY <1>3
  <2>2. ~(m < i)
    BY <1>3
  <2>3. rowsI \subseteq DOMAIN log /\ rowsR \subseteq DOMAIN log
    BY DEF TypeOK
  <2> HIDE DEF m
  <2> QED BY <1>2, <2>1, <2>2, <2>3 DEF Shown
<1>5. \A i \in DOMAIN log' : \A p, n :
        log'[i].crossed /\ p = PairOf[log'[i].req] /\ n = Needs[CapOf[log'[i].req]] =>
          n <= Mesh[p] \/ Cardinality(Shown(p, i)') >= Rung(n) - 1
  <2> SUFFICES ASSUME NEW i \in DOMAIN log', NEW p, NEW n, log'[i].crossed,
                      p = PairOf[log'[i].req], n = Needs[CapOf[log'[i].req]]
               PROVE  n <= Mesh[p] \/ Cardinality(Shown(p, i)') >= Rung(n) - 1
    OBVIOUS
  <2>1. CASE i \in DOMAIN log
    <3>1. log'[i] = log[i] /\ i <= m /\ i \in Nat
      BY <1>3, <2>1
    <3>2. Shown(p, i)' = Shown(p, i)
      BY <1>4, <3>1
    <3>3. n <= Mesh[p] \/ Cardinality(Shown(p, i)) >= Rung(n) - 1
      BY <2>1, <3>1 DEF EarnedFirst, Shown
    <3> QED BY <3>2, <3>3
  <2>2. CASE i = m
    <3>1. log'[i] = o /\ o.req = q /\ Lent(q)
      BY <1>1, <1>3, <2>2
    <3>2. Shown(p, i)' = Shown(p, i)
      BY <1>3, <1>4, <2>2
    <3>3. n <= Mesh[p] \/ Cardinality(Shown(p, i)) >= Rung(n) - 1
      BY <3>1, <2>2, LentIsEarned
    <3> QED BY <3>2, <3>3
  <2> QED BY <1>3, <2>1, <2>2
<1>6. \A p, i : Shown(p, i)' = {j \in rowsI' \cap rowsR' :
                               j < i /\ log'[j].crossed /\ PairOf[log'[j].req] = p}
  BY DEF Shown
<1> QED BY <1>5, <1>6 DEF EarnedFirst

LEMMA EarnedStep ==
  ASSUME CrossingAssumption, TypeOK, TypeOK', EarnedFirst, [Next]_vars
  PROVE  EarnedFirst'
<1>1. CASE \E q \in Requests : Refuse(q) \/ Ride(q)
  BY <1>1, EarnedFiled
<1>2. CASE UNCHANGED rows
  BY <1>2 DEF rows, EarnedFirst
<1> QED BY <1>1, <1>2 DEF Next, Issue, Revoke, Tick, vars

(* A capability crosses only when the mesh had lent its tier, or both stores *)
(* show the crossings that earn it: a grant never makes up for more than one.*)
THEOREM Earned == ASSUME CrossingAssumption PROVE Spec => []EarnedFirst
<1>1. Init => TypeOK /\ EarnedFirst
  BY TypeInit DEF Init, EarnedFirst
<1>2. TypeOK /\ EarnedFirst /\ [Next]_vars => TypeOK' /\ EarnedFirst'
  BY TypeStep, EarnedStep
<1> QED BY <1>1, <1>2, PTL DEF Spec
===============================================================================
