----------------------------- MODULE LiveCrossing -----------------------------
(***************************************************************************)
(* The federation crossing the console runs (src/vh19/federation/live.ts)  *)
(* under a standing grant (standing.ts), with the order of checks of       *)
(* crossFederation (bridge.ts), the lending table (reach/delegationGrant.ts)*)
(* and the tier ladder of the mesh (vouchMesh.ts).                         *)
(*                                                                         *)
(* runLiveCrossing waits for the owner's keys first, and reads everything  *)
(* it decides by after that wait; it then decides and persists in one turn,*)
(* so a call is one step, Refuse or Ride, and a call whose keys fail is    *)
(* none.  The replay guard before the wait tells calls apart by the words  *)
(* of the task: a Request stands for every wording of it, so the guard     *)
(* never keeps a step out and is left out.                                 *)
(*                                                                         *)
(* What the two harbours of one machine know is kept under five local      *)
(* storage keys, each written on its own by a write that swallows its      *)
(* error: any write may be lost (MaxFaults of them).  The two halves of    *)
(* the usage counter are written together and advance alike, so they are   *)
(* one record here; approvals are always absent on this path, so a         *)
(* crossing needs a grant.  The clock does not run backwards.  Nothing of  *)
(* this is kept in memory, so a reload of the app changes nothing.         *)
(***************************************************************************)
EXTENDS Integers, Sequences, FiniteSets

CONSTANTS
  Requests, Pairs, Caps,   \* crossings that can be asked for; their pair and capability
  PairOf, CapOf,
  Needs,                   \* the lowest tier a capability is lent at: 1..3
  HumanFirst,              \* capabilities a human must name at every tier
  Mesh,                    \* the tier the mesh's own ledger gives a pair: 0..3
  Vouched, Proven,         \* trust units of the ladder's rungs: 3 and 10
  Terms,                   \* grant bodies an owner asks for
  MaxTime, MaxLog, MaxGrants, MaxFaults   \* bounds of the instance

ASSUME CrossingAssumption ==
  /\ PairOf \in [Requests -> Pairs] /\ CapOf \in [Requests -> Caps]
  /\ Needs \in [Caps -> 1..3] /\ HumanFirst \subseteq Caps
  /\ Mesh \in [Pairs -> 0..3]
  /\ Vouched \in Nat /\ Proven \in Nat /\ 1 <= Vouched /\ Vouched <= Proven
  /\ Terms \subseteq [pair : Pairs, caps : SUBSET Caps, max : Nat, span : Nat,
                      rate : Nat, life : Nat]
  /\ MaxTime \in Nat /\ MaxLog \in Nat /\ MaxGrants \in Nat /\ MaxFaults \in Nat

VARIABLES
  now,
  book,         \* every grant issued; a grant is named by its place in the book
  grant,        \* the grant in storage, 0 for none
  usage,        \* the counters in storage
  revoked,      \* the revocations in storage
  log,          \* every outcome, in order, with the grant whose budget it took
  rowsI, rowsR, \* the outcomes each store holds a row of
  faults,       \* writes the storage lost
  lost          \* crossings of a grant that no stored counter counts any more

stored == <<book, grant, usage, revoked>>
rows == <<log, rowsI, rowsR>>
vars == <<now, stored, rows, faults, lost>>

Ids == 1..MaxGrants

Init ==
  /\ now = 0 /\ faults = 0
  /\ book = <<>> /\ grant = 0 /\ revoked = {}
  /\ usage = [id |-> 0, crossings |-> 0, start |-> 0, count |-> 0]
  /\ log = <<>> /\ rowsI = {} /\ rowsR = {}
  /\ lost = [g \in Ids |-> 0]

(* Of the keys a handler writes, those whose write is stored.                *)
Stored(keys) == {w \in SUBSET keys : faults + Cardinality(keys \ w) <= MaxFaults}
Losing(keys, w) == faults' = faults + Cardinality(keys \ w)

-------------------------------------------------------------------------------
(* Standing grants: issued, revoked, spent.                                  *)

Judged(t) ==
  /\ t.caps # {} /\ t.max >= 1 /\ t.rate >= 1
  /\ t.span > 0 /\ t.rate <= t.max /\ t.life > 0

Fresh(g) == [id |-> g, crossings |-> 0, start |-> now, count |-> 0]

(* The counters of another grant count for nothing.                          *)
Used == IF usage.id = grant THEN usage ELSE Fresh(grant)

(* The grant and its fresh counters are two writes.  Counters of a grant     *)
(* that was stored for an older one that stays are gone.                     *)
Issue(t) ==
  /\ Len(book) < MaxGrants /\ Judged(t)
  /\ book' = Append(book, [pair |-> t.pair, caps |-> t.caps, max |-> t.max,
                           span |-> t.span, rate |-> t.rate, expires |-> now + t.life])
  /\ \E w \in Stored({"grant", "usage"}) :
       /\ grant' = IF "grant" \in w THEN Len(book) + 1 ELSE grant
       /\ usage' = IF "usage" \in w THEN Fresh(Len(book) + 1) ELSE usage
       /\ lost' = IF w = {"usage"} /\ grant # 0
                    THEN [lost EXCEPT ![grant] = @ + Used.crossings] ELSE lost
       /\ Losing({"grant", "usage"}, w)
  /\ UNCHANGED <<now, revoked, rows>>

Revoke ==
  /\ grant # 0
  /\ \E w \in Stored({"revocations"}) :
       /\ revoked' = IF w = {} THEN revoked ELSE revoked \cup {grant}
       /\ Losing({"revocations"}, w)
  /\ UNCHANGED <<now, book, grant, usage, rows, lost>>

Held == book[grant]

(* authoriseUnderGrant, in the order of its refusals.                        *)
Covers(q) ==
  /\ grant # 0 /\ Held.pair = PairOf[q] /\ grant \notin revoked
  /\ now <= Held.expires /\ CapOf[q] \in Held.caps

HasBudget_OneMore == Used.crossings <= Held.max
HasBudget == Used.crossings < Held.max

Rolled == now - Used.start >= Held.span
InWindow == IF Rolled THEN 0 ELSE Used.count

Authorised(q) == Covers(q) /\ HasBudget /\ InWindow < Held.rate

NextUsage_KeepStart ==
  [id |-> grant, crossings |-> Used.crossings + 1, start |-> Used.start,
   count |-> InWindow + 1]
NextUsage ==
  [id |-> grant, crossings |-> Used.crossings + 1,
   start |-> IF Rolled THEN now ELSE Used.start, count |-> InWindow + 1]

-------------------------------------------------------------------------------
(* The tier of a pair: what both stores hold of its crossings, and a grant   *)
(* that stands, climb the mesh's ladder; without any, the mesh's own ledger. *)

LiveGrant(p) ==
  grant # 0 /\ Held.pair = p /\ now < Held.expires /\ grant \notin revoked

Units_OneStore(p) ==
  Cardinality({i \in rowsI \cup rowsR : log[i].crossed /\ PairOf[log[i].req] = p})
    + IF LiveGrant(p) THEN 1 ELSE 0
Units(p) ==
  Cardinality({i \in rowsI \cap rowsR : log[i].crossed /\ PairOf[log[i].req] = p})
    + IF LiveGrant(p) THEN 1 ELSE 0

Ladder(n) == IF n < Vouched THEN 1 ELSE IF n < Proven THEN 2 ELSE 3

Standing(p) == IF Units(p) = 0 THEN Mesh[p] ELSE Ladder(Units(p))

Lent(q) == Standing(PairOf[q]) >= Needs[CapOf[q]]

-------------------------------------------------------------------------------
(* runLiveCrossing.                                                          *)

(* Both stores are asked to hold the row of the outcome.                     *)
File(q, crossed, spent, w) ==
  /\ Len(log) < MaxLog
  /\ log' = Append(log, [req |-> q, at |-> now, crossed |-> crossed, spent |-> spent])
  /\ rowsI' = IF "initiator" \in w THEN rowsI \cup {Len(log) + 1} ELSE rowsI
  /\ rowsR' = IF "responder" \in w THEN rowsR \cup {Len(log) + 1} ELSE rowsR

Refuse(q) ==
  /\ ~(Lent(q) /\ Authorised(q))
  /\ \E w \in Stored({"initiator", "responder"}) :
       File(q, FALSE, 0, w) /\ Losing({"initiator", "responder"}, w)
  /\ UNCHANGED <<now, stored, lost>>

(* The grant authorises.  If the lending table asks for a human all the      *)
(* same, the crossing is refused, and the counters are stored nevertheless.  *)
Ride(q) ==
  /\ Lent(q) /\ Authorised(q)
  /\ \E w \in Stored({"initiator", "responder", "usage"}) :
       /\ File(q, CapOf[q] \notin HumanFirst, grant, w)
       /\ usage' = IF "usage" \in w THEN NextUsage ELSE usage
       /\ lost' = IF "usage" \in w THEN lost ELSE [lost EXCEPT ![grant] = @ + 1]
       /\ Losing({"initiator", "responder", "usage"}, w)
  /\ UNCHANGED <<now, book, grant, revoked>>

-------------------------------------------------------------------------------
Tick == now < MaxTime /\ now' = now + 1 /\ UNCHANGED <<stored, rows, faults, lost>>

Next ==
  \/ \E t \in Terms : Issue(t)
  \/ \E q \in Requests : Refuse(q) \/ Ride(q)
  \/ Revoke \/ Tick

Spec == Init /\ [][Next]_vars

-------------------------------------------------------------------------------
(* Properties.                                                               *)

Outcomes == [req : Requests, at : Nat, crossed : BOOLEAN, spent : 0..MaxGrants]

Grants == [pair : Pairs, caps : SUBSET Caps, max : Nat, span : Nat, rate : Nat,
           expires : Nat]

(* The ranges of the variables; rows, grants and revocations name outcomes   *)
(* and grants that exist.                                                    *)
TypeOK ==
  /\ now \in Nat /\ faults \in Nat
  /\ book \in Seq(Grants) /\ Len(book) <= MaxGrants
  /\ grant \in 0..Len(book) /\ revoked \subseteq 1..Len(book)
  /\ usage \in [id : 0..Len(book), crossings : Nat, start : Nat, count : Nat]
  /\ log \in Seq(Outcomes)
  /\ rowsI \subseteq DOMAIN log /\ rowsR \subseteq DOMAIN log
  /\ lost \in [Ids -> Nat]

(* The outcomes that took budget of a grant at or after a time.              *)
SpentFrom(g, t) == {i \in DOMAIN log : log[i].spent = g /\ log[i].at >= t}

(* A grant is spent at most maxCrossings times, however issues, revocations  *)
(* and the crossings of other grants fall between its own; only a count that *)
(* the storage lost can be spent again.                                      *)
BudgetKept ==
  \A g \in DOMAIN book : Cardinality(SpentFrom(g, 0)) <= book[g].max + lost[g]

(* In no stretch of windowMs is a grant spent more than twice windowMax      *)
(* times: the window tumbles, so the end of one and the start of the next    *)
(* may fall into one stretch, but never more than these two.                 *)
TwoWindows ==
  \A g \in DOMAIN book : \A t \in 0..now :
    Cardinality({i \in SpentFrom(g, t) : log[i].at < t + book[g].span})
      <= 2 * book[g].rate + lost[g]

Rung(n) == IF n = 1 THEN 1 ELSE IF n = 2 THEN Vouched ELSE Proven

(* A capability crosses only if the mesh had the pair at its tier or the     *)
(* pair had crossed before often enough to earn it, with a row in both       *)
(* stores to show for it: the grant itself stands for one unit and no more.  *)
EarnedFirst ==
  \A i \in DOMAIN log : log[i].crossed =>
    LET p == PairOf[log[i].req]
        n == Needs[CapOf[log[i].req]]
    IN  \/ n <= Mesh[p]
        \/ Cardinality({j \in rowsI \cap rowsR :
                         j < i /\ log[j].crossed /\ PairOf[log[j].req] = p}) >= Rung(n) - 1

(* What a test and a comment say: an escalated, that is refused, crossing    *)
(* takes no budget of the grant.                                             *)
EscalationSpendsNothing == \A i \in DOMAIN log : ~log[i].crossed => log[i].spent = 0
===============================================================================
