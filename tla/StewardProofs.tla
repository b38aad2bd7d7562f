----------------------------- MODULE StewardProofs -----------------------------
(***************************************************************************)
(* Theorems about Steward: for any number of heartbeat runs, any limits    *)
(* and whatever writes to storage are lost, the state is well typed, the   *)
(* gate shows an open question, a typed run is not sent back, acts are     *)
(* recorded before they are executed, and no hour holds more than three    *)
(* recorded acts over the cap.                                             *)
(***************************************************************************)
EXTENDS Steward, FiniteSetTheorems, SequenceTheorems, TLAPS

(* A heartbeat run that is routed, asks or works does so for an act.        *)
HasAct ==
  \A b \in Beats :
    run[b].at \in {"start", "asking", "working", "denied"} => run[b].acts # <<>>

LEMMA WindowOf == \A t \in Nat : t \div Window \in Nat
BY StewardAssumption

LEMMA SameWindow ==
  ASSUME NEW s \in Nat, NEW t \in Nat, s \div Window = t \div Window
  PROVE  t < s + Window
BY StewardAssumption

(* An act decided on now, if there is one.                                  *)
LEMMA OneAct ==
  ASSUME TypeOK, NEW kind \in {"verify", "resume", "brief", "proposal"},
         NEW base \in Bases, NEW checks \in Nat, NEW s,
         s = <<>> \/ s = <<NewAct(kind, base, checks)>>
  PROVE  s \in Seq(Act) /\ Len(s) <= 1 /\ \A i \in 1..Len(s) : s[i].at = now
<1> DEFINE a == NewAct(kind, base, checks)
<1>1. a \in Act /\ a.at = now
  BY DEF TypeOK, NewAct, Act
<1> HIDE DEF a
<1>2. CASE s = <<>>
  BY <1>2
<1>3. CASE s = <<a>>
  BY <1>1, <1>3
<1>4. QED
  BY <1>2, <1>3 DEF a

LEMMA FourAtMost ==
  ASSUME NEW a, NEW b, NEW c, NEW d, NEW S, S \subseteq {a, b, c, d}
  PROVE  IsFiniteSet(S) /\ Cardinality(S) \in Nat /\ Cardinality(S) <= 4
<1>1. IsFiniteSet({a}) /\ Cardinality({a}) = 1
  BY FS_Singleton
<1>2. IsFiniteSet({a} \cup {b}) /\ Cardinality({a} \cup {b}) <= 2
  BY <1>1, FS_AddElement
<1>3. IsFiniteSet({a} \cup {b} \cup {c}) /\ Cardinality({a} \cup {b} \cup {c}) <= 3
  <2>1. Cardinality({a} \cup {b}) \in Nat
    BY <1>2, FS_CardinalityType
  <2>2. QED
    BY <2>1, <1>2, FS_AddElement
<1>4. /\ IsFiniteSet({a} \cup {b} \cup {c} \cup {d})
      /\ Cardinality({a} \cup {b} \cup {c} \cup {d}) <= 4
  <2>1. Cardinality({a} \cup {b} \cup {c}) \in Nat
    BY <1>3, FS_CardinalityType
  <2>2. QED
    BY <2>1, <1>3, FS_AddElement
<1>5. S \in SUBSET ({a} \cup {b} \cup {c} \cup {d})
  OBVIOUS
<1>6. IsFiniteSet(S) /\ Cardinality(S) <= Cardinality({a} \cup {b} \cup {c} \cup {d})
  BY <1>4, <1>5, FS_Subset
<1>7. Cardinality(S) \in Nat /\ Cardinality({a} \cup {b} \cup {c} \cup {d}) \in Nat
  BY <1>4, <1>6, FS_CardinalityType
<1>8. QED
  BY <1>4, <1>6, <1>7

(* Concatenation of sequences of acts decided on now.                       *)
LEMMA JoinActs ==
  ASSUME TypeOK,
         NEW s \in Seq(Act), \A i \in 1..Len(s) : s[i].at = now,
         NEW t \in Seq(Act), \A i \in 1..Len(t) : t[i].at = now
  PROVE  /\ s \o t \in Seq(Act)
         /\ Len(s \o t) = Len(s) + Len(t)
         /\ \A i \in 1..Len(s \o t) : (s \o t)[i].at = now
<1>1. Len(s) \in Nat /\ Len(t) \in Nat
  BY LenProperties
<1>2. /\ s \o t \in Seq(Act)
      /\ Len(s \o t) = Len(s) + Len(t)
      /\ \A i \in 1..Len(s) + Len(t) :
           (s \o t)[i] = IF i <= Len(s) THEN s[i] ELSE t[i - Len(s)]
  BY ConcatProperties
<1>3. ASSUME NEW i \in 1..Len(s \o t) PROVE (s \o t)[i].at = now
  <2>1. CASE i <= Len(s)
    BY <1>1, <1>2, <2>1
  <2>2. CASE ~(i <= Len(s))
    <3>1. i - Len(s) \in 1..Len(t)
      BY <1>1, <1>2, <2>2
    <3>2. (s \o t)[i] = t[i - Len(s)]
      BY <1>1, <1>2, <2>2
    <3>3. QED
      BY <3>1, <3>2
  <2>3. QED
    BY <2>1, <2>2
<1>4. QED
  BY <1>2, <1>3

(* What a wake decides on: up to four acts, none while the engine is parked *)
(* or the caps are exhausted.                                               *)
LEMMA WakeActs ==
  ASSUME TypeOK, NEW due \in SUBSET followUps,
         NEW goal \in BOOLEAN, NEW drift \in BOOLEAN, NEW unsealed \in BOOLEAN
  PROVE  LET work == WorkOf(due, goal, drift)
             acts == work \o ProposalOf(unsealed)
         IN  /\ work \in Seq(Act) /\ acts \in Seq(Act)
             /\ Len(acts) \in 0..4
             /\ \A i \in 1..Len(work) : work[i].at = now
             /\ \A i \in 1..Len(work) : i \in 1..Len(acts) /\ acts[i] = work[i]
             /\ \A i \in 1..Len(acts) : acts[i].at = now
             /\ CapsExhausted => acts = <<>>
<1> DEFINE idle == Parked \/ level = 0 \/ CapsExhausted
           f == CHOOSE g \in due : TRUE
           v == IF level >= 2 /\ due # {}
                THEN <<NewAct("verify", f.base, f.checks)>> ELSE <<>>
           g == IF goal THEN <<NewAct("resume", "goal", 0)>> ELSE <<>>
           d == IF drift /\ BriefAllowed THEN <<NewAct("brief", "facts", 0)>> ELSE <<>>
           p == ProposalOf(unsealed)
           work == WorkOf(due, goal, drift)
<1>2. /\ v \in Seq(Act) /\ Len(v) <= 1 /\ \A i \in 1..Len(v) : v[i].at = now
  <2>1. CASE level >= 2 /\ due # {}
    <3>1. f.base \in Bases /\ f.checks \in Nat
      BY <2>1 DEF TypeOK, FollowUp
    <3>2. v = <<NewAct("verify", f.base, f.checks)>>
      BY <2>1
    <3> HIDE DEF v, f
    <3>3. QED
      BY <3>1, <3>2, OneAct
  <2>2. CASE ~(level >= 2 /\ due # {})
    BY <2>2
  <2>3. QED
    BY <2>1, <2>2
<1>3. /\ g \in Seq(Act) /\ Len(g) <= 1 /\ \A i \in 1..Len(g) : g[i].at = now
  <2>1. g = <<>> \/ g = <<NewAct("resume", "goal", 0)>>
    OBVIOUS
  <2> HIDE DEF g
  <2>2. QED
    BY <2>1, OneAct DEF Bases
<1>4. /\ d \in Seq(Act) /\ Len(d) <= 1 /\ \A i \in 1..Len(d) : d[i].at = now
  <2>1. d = <<>> \/ d = <<NewAct("brief", "facts", 0)>>
    OBVIOUS
  <2> HIDE DEF d
  <2>2. QED
    BY <2>1, OneAct DEF Bases
<1>5. /\ p \in Seq(Act) /\ Len(p) <= 1 /\ \A i \in 1..Len(p) : p[i].at = now
  <2>1. p = <<>> \/ p = <<NewAct("proposal", "vault", 0)>>
    BY DEF ProposalOf
  <2> HIDE DEF p
  <2>2. QED
    BY <2>1, OneAct DEF Bases
<1>6. work = IF idle THEN <<>> ELSE v \o g \o d
  BY DEF WorkOf
<1>7. CapsExhausted => work = <<>> /\ p = <<>>
  BY <1>6 DEF ProposalOf
<1> HIDE DEF v, g, d, p, work
<1>8. /\ v \o g \in Seq(Act) /\ Len(v \o g) = Len(v) + Len(g)
      /\ \A i \in 1..Len(v \o g) : (v \o g)[i].at = now
  BY <1>2, <1>3, JoinActs
<1>9. /\ v \o g \o d \in Seq(Act) /\ Len(v \o g \o d) = Len(v) + Len(g) + Len(d)
      /\ \A i \in 1..Len(v \o g \o d) : (v \o g \o d)[i].at = now
  BY <1>8, <1>4, JoinActs
<1>10. Len(v) \in Nat /\ Len(g) \in Nat /\ Len(d) \in Nat /\ Len(p) \in Nat
  BY <1>2, <1>3, <1>4, <1>5, LenProperties
<1>11. work \in Seq(Act) /\ Len(work) \in 0..3 /\ \A i \in 1..Len(work) : work[i].at = now
  <2>1. CASE idle
    BY <2>1, <1>6
  <2>2. CASE ~idle
    BY <2>2, <1>2, <1>3, <1>4, <1>6, <1>9, <1>10
  <2>3. QED
    BY <2>1, <2>2
<1>12. /\ work \o p \in Seq(Act) /\ Len(work \o p) = Len(work) + Len(p)
       /\ \A i \in 1..Len(work \o p) : (work \o p)[i].at = now
  BY <1>11, <1>5, JoinActs
<1>13. Len(work \o p) \in 0..4
  BY <1>5, <1>10, <1>11, <1>12
<1>14. \A i \in 1..Len(work) : i \in 1..Len(work \o p) /\ (work \o p)[i] = work[i]
  BY <1>5, <1>10, <1>11, <1>12, ConcatProperties
<1>15. CapsExhausted => work \o p = <<>>
  BY <1>5, <1>7, ConcatEmptySeq
<1>16. QED
  BY <1>11, <1>12, <1>13, <1>14, <1>15 DEF work, p

-------------------------------------------------------------------------------
(* Types.                                                                   *)

LEMMA RunStaged ==
  ASSUME TypeOK, NEW r \in Runs, NEW p \in Phases,
         run' = [run EXCEPT ![r].at = p]
  PROVE  /\ run' \in [Runs -> Run]
         /\ \A q \in Runs : /\ run'[q].acts = run[q].acts
                            /\ run'[q].at = IF q = r THEN p ELSE run[q].at
BY DEF TypeOK, Run

LEMMA IdleType == Idle \in Run /\ \A acts \in Seq(Act) : Onward(acts) \in Run
BY DEF Idle, Run, Phases, Onward

LEMMA ReportFailureType ==
  ASSUME TypeOK, ReportFailure
  PROVE  failures' \in 0..(BreakerFailures - 1) /\ breakerUntil' \in Nat
<1>1. now \in Nat /\ breakerUntil \in Nat /\ failures \in 0..(BreakerFailures - 1)
  BY DEF TypeOK
<1>2. BreakerFailures \in Nat \ {0} /\ Cooldown \in Nat
  BY StewardAssumption
<1>3. QED
  BY <1>1, <1>2 DEF ReportFailure

LEMMA ScheduleType ==
  ASSUME TypeOK, NEW base \in Bases, NEW checks \in Nat,
         ScheduleFollowUp(ReCheck(base, checks))
  PROVE  followUps' \in SUBSET FollowUp
<1>1. now + Window \in Nat
  BY StewardAssumption DEF TypeOK
<1>2. ReCheck(base, checks) \in FollowUp
  BY <1>1 DEF ReCheck, FollowUp
<1>3. QED
  BY <1>2 DEF ScheduleFollowUp, TypeOK

LEMMA ActKeyType == \A a \in Act : ActKey(a) \in Keys
BY WindowOf DEF Act, ActKey, Key, Keys

LEMMA ApplyWakeType ==
  ASSUME TypeOK, NEW acts \in Seq(Act), ApplyWake(acts)
  PROVE  /\ windowActs' \in SUBSET [at : Nat, key : Keys]
         /\ lastBrief' \in Int
         /\ followUps' \in SUBSET FollowUp
<1>1. \A i \in 1..Len(acts) : acts[i] \in Act
  BY ElementOfSeq
<1>2. windowActs' \in SUBSET [at : Nat, key : Keys]
  BY <1>1, ActKeyType DEF ApplyWake, TypeOK
<1>3. lastBrief' \in Int
  BY DEF ApplyWake, TypeOK
<1>4. followUps' \in SUBSET FollowUp
  BY DEF ApplyWake, TypeOK
<1>5. QED
  BY <1>2, <1>3, <1>4

(* The two halves of the state that a write to storage connects.            *)
StateTyped ==
  /\ level \in 0..3
  /\ followUps \in SUBSET FollowUp
  /\ windowActs \in SUBSET [at : Nat, key : Keys]
  /\ failures \in 0..(BreakerFailures - 1)
  /\ breakerUntil \in Nat
  /\ lastBrief \in Int

DiskTyped == stored \in Stored /\ lost \in 0..MaxLost

LEMMA SnapshotType == StateTyped => Snapshot \in Stored
BY DEF StateTyped, Snapshot, Stored

LEMMA InitDisk ==
  ASSUME StateTyped, stored = Snapshot, lost = 0
  PROVE  DiskTyped
BY SnapshotType, StewardAssumption DEF DiskTyped

LEMMA PersistType ==
  ASSUME DiskTyped, StateTyped', Persist
  PROVE  DiskTyped'
<1>1. Snapshot' \in Stored
  BY DEF StateTyped, Snapshot, Stored
<1>2. MaxLost \in Nat
  BY StewardAssumption
<1>3. QED
  BY <1>1, <1>2 DEF Persist, DiskTyped

LEMMA PersistTwiceType ==
  ASSUME DiskTyped, StateTyped, StateTyped', PersistTwice
  PROVE  DiskTyped'
<1>1. [Snapshot' EXCEPT !.followUps = followUps] \in Stored
  BY DEF StateTyped, Snapshot, Stored
<1>2. MaxLost \in Nat
  BY StewardAssumption
<1>3. CASE Persist
  BY <1>3, PersistType
<1>4. CASE ~Persist
  BY <1>1, <1>2, <1>4 DEF PersistTwice, DiskTyped
<1>5. QED
  BY <1>3, <1>4

(* The type invariant is inductive with these two: what is decided was      *)
(* asking, and what a heartbeat run does next is at the head of its acts.   *)
WellTyped == TypeOK /\ HasAct /\ DisplayedAskIsOpen

LEMMA InitTyped == Init => WellTyped
<1> SUFFICES ASSUME Init PROVE WellTyped
  OBVIOUS
<1>1. BreakerFailures \in Nat \ {0} /\ -BriefGap - 1 \in Int
  BY StewardAssumption
<1>2. run \in [Runs -> Run] /\ \A b \in Beats : run[b].at = "idle"
  BY IdleType DEF Init, Idle, Runs
<1>3. HasAct
  BY <1>2 DEF HasAct
<1>4. StateTyped
  BY <1>1 DEF Init, StateTyped
<1>5. DiskTyped
  BY <1>4, InitDisk DEF Init
<1>6. TypeOK
  BY <1>2, <1>4, <1>5 DEF Init, TypeOK, StateTyped, DiskTyped
<1>7. QED
  BY <1>3, <1>6 DEF Init, WellTyped, DisplayedAskIsOpen

LEMMA TypedWake ==
  ASSUME WellTyped, NEW b \in Beats, NEW goal \in BOOLEAN, NEW drift \in BOOLEAN,
         NEW unsealed \in BOOLEAN, Wake(b, goal, drift, unsealed)
  PROVE  WellTyped'
<1>1. PICK due \in IF FirstDue = {} THEN {{}} ELSE {{f} : f \in FirstDue} :
        LET work == WorkOf(due, goal, drift)
            proposal == ProposalOf(unsealed)
        IN /\ ApplyWake(work \o proposal)
           /\ run' = IF work \o proposal = <<>> THEN run
                     ELSE [run EXCEPT ![b] = Onward(work)]
           /\ UNCHANGED <<now, level, failures, breakerUntil, gate>>
           /\ Persist
  BY DEF Wake
<1> DEFINE work == WorkOf(due, goal, drift)
           acts == work \o ProposalOf(unsealed)
<1>2. due \in SUBSET followUps
  BY DEF FirstDue
<1>3. work \in Seq(Act) /\ acts \in Seq(Act)
  BY <1>2, WakeActs DEF WellTyped
<1>4. /\ ApplyWake(acts)
      /\ run' = IF acts = <<>> THEN run ELSE [run EXCEPT ![b] = Onward(work)]
      /\ UNCHANGED <<now, level, failures, breakerUntil, gate>>
      /\ Persist
  BY <1>1
<1> HIDE DEF work, acts
<1>5. Onward(work) \in Run
  BY <1>3, IdleType
<1>6. run' \in [Runs -> Run]
  BY <1>4, <1>5 DEF WellTyped, TypeOK
<1>7. TypeOK'
  <2>1. StateTyped'
    BY <1>3, <1>4, ApplyWakeType DEF WellTyped, TypeOK, StateTyped
  <2>2. DiskTyped'
    BY <1>4, <2>1, PersistType DEF WellTyped, TypeOK, DiskTyped
  <2>3. QED
    BY <1>4, <1>6, <2>1, <2>2 DEF WellTyped, TypeOK, StateTyped, DiskTyped
<1>8. HasAct'
  BY <1>4 DEF WellTyped, HasAct, TypeOK, Onward, Runs
<1>9. DisplayedAskIsOpen'
  <2>1. run[b].at = "idle"
    BY DEF Wake
  <2>2. QED
    BY <1>4, <2>1, StewardAssumption DEF WellTyped, TypeOK, DisplayedAskIsOpen
<1>10. QED
  BY <1>7, <1>8, <1>9 DEF WellTyped

LEMMA TypedActEnds ==
  ASSUME WellTyped, NEW b \in Beats, NEW verdict \in Verdicts, ActEnds(b, verdict)
  PROVE  WellTyped'
<1> DEFINE acts == run[b].acts
<1>1. b \in Runs /\ run[b] \in Run /\ acts \in Seq(Act)
  BY DEF WellTyped, TypeOK, Runs, Run
<1>2. run[b].at \in {"start", "denied", "working"}
  BY DEF ActEnds, MayEnd
<1>3. acts # <<>>
  BY <1>2 DEF WellTyped, HasAct
<1>4. Head(acts) \in Act /\ Tail(acts) \in Seq(Act)
  BY <1>1, <1>3, HeadTailProperties
<1>5. /\ run' = [run EXCEPT ![b] = Onward(Tail(acts))]
      /\ UNCHANGED <<now, level, windowActs, lastBrief, gate>>
  BY DEF ActEnds
<1>6. failures' \in 0..(BreakerFailures - 1) /\ breakerUntil' \in Nat
  <2>1. \/ ReportFailure
        \/ UNCHANGED <<failures, breakerUntil>>
        \/ failures' = 0 /\ UNCHANGED breakerUntil
    BY DEF ActEnds, Verdicts
  <2>2. BreakerFailures \in Nat \ {0}
    BY StewardAssumption
  <2>3. QED
    BY <2>1, <2>2, ReportFailureType DEF WellTyped, TypeOK
<1>7. followUps' \in SUBSET FollowUp
  <2>1. CASE verdict = "partial"
    <3>1. ScheduleFollowUp(ReCheck(Head(acts).base, Head(acts).checks))
      BY <2>1 DEF ActEnds
    <3>2. Head(acts).base \in Bases /\ Head(acts).checks \in Nat
      BY <1>4 DEF Act
    <3> HIDE DEF acts
    <3>3. QED
      BY <3>1, <3>2, ScheduleType DEF WellTyped
  <2>2. CASE verdict # "partial"
    BY <2>2 DEF ActEnds, WellTyped, TypeOK
  <2>3. QED
    BY <2>1, <2>2
<1> HIDE DEF acts
<1>8. Onward(Tail(acts)) \in Run
  BY <1>4, IdleType
<1>9. TypeOK'
  <2>1. StateTyped /\ StateTyped'
    BY <1>5, <1>6, <1>7 DEF WellTyped, TypeOK, StateTyped
  <2>2. Persist \/ PersistTwice \/ Unwritten
    BY DEF ActEnds
  <2>3. DiskTyped'
    BY <2>1, <2>2, PersistType, PersistTwiceType
    DEF WellTyped, TypeOK, DiskTyped, Unwritten
  <2>4. QED
    BY <1>1, <1>5, <1>8, <2>1, <2>3 DEF WellTyped, TypeOK, StateTyped, DiskTyped
<1>10. HasAct'
  BY <1>1, <1>5 DEF WellTyped, HasAct, TypeOK, Onward, Runs
<1>11. DisplayedAskIsOpen'
  BY <1>1, <1>2, <1>5 DEF WellTyped, TypeOK, DisplayedAskIsOpen
<1>12. QED
  BY <1>9, <1>10, <1>11 DEF WellTyped

LEMMA TypedStep == WellTyped /\ [Next]_vars => WellTyped'
<1> SUFFICES ASSUME WellTyped, [Next]_vars PROVE WellTyped'
  OBVIOUS
<1>0. TypeOK /\ HasAct /\ DisplayedAskIsOpen /\ None \notin Runs
      /\ Beats \subseteq Runs /\ Typed \in Runs /\ Typed \notin Beats
  BY StewardAssumption DEF WellTyped, Runs
<1>1. CASE Tick
  BY <1>0, <1>1 DEF Tick, initiative, state, WellTyped, TypeOK, HasAct, DisplayedAskIsOpen
<1>2. ASSUME NEW l \in Levels, SetLevel(l) PROVE WellTyped'
  <2>1. StateTyped'
    BY <1>0, <1>2, StewardAssumption DEF SetLevel, TypeOK, StateTyped
  <2>2. DiskTyped'
    BY <1>0, <1>2, <2>1, PersistType DEF SetLevel, TypeOK, DiskTyped
  <2>3. QED
    BY <1>0, <1>2, <2>1, <2>2
    DEF SetLevel, WellTyped, TypeOK, StateTyped, DiskTyped, HasAct, DisplayedAskIsOpen
<1>3. CASE Send
  <2>1. /\ run[Typed].at = "idle" /\ run' = [run EXCEPT ![Typed].at = "start"]
        /\ UNCHANGED <<now, initiative, gate>>
    BY <1>3 DEF Send
  <2>2. "start" \in Phases
    BY DEF Phases
  <2>3. /\ run' \in [Runs -> Run]
        /\ \A q \in Runs : /\ run'[q].acts = run[q].acts
                           /\ run'[q].at = IF q = Typed THEN "start" ELSE run[q].at
    BY <1>0, <2>1, <2>2, RunStaged
  <2>4. TypeOK'
    BY <1>0, <2>1, <2>3 DEF initiative, state, TypeOK
  <2>5. HasAct' /\ DisplayedAskIsOpen'
    BY <1>0, <2>1, <2>3 DEF HasAct, DisplayedAskIsOpen, TypeOK
  <2>6. QED
    BY <2>4, <2>5 DEF WellTyped
<1>4. ASSUME NEW b \in Beats, NEW goal \in BOOLEAN, NEW drift \in BOOLEAN,
             NEW unsealed \in BOOLEAN, Wake(b, goal, drift, unsealed)
      PROVE  WellTyped'
  BY <1>4, TypedWake
<1>5. ASSUME NEW r \in Runs, Ask(r) \/ Proceed(r) PROVE WellTyped'
  <2>1. PICK p \in {"asking", "working"} :
          /\ run' = [run EXCEPT ![r].at = p]
          /\ gate' = IF p = "asking" THEN r ELSE gate
    <3>1. CASE Ask(r)
      BY <3>1 DEF Ask
    <3>2. CASE Proceed(r)
      BY <3>2 DEF Proceed
    <3>3. QED
      BY <1>5, <3>1, <3>2
  <2>2. run[r].at = "start" /\ p \in Phases /\ UNCHANGED <<now, initiative>>
    BY <1>5 DEF Ask, Proceed, Phases
  <2>3. /\ run' \in [Runs -> Run]
        /\ \A q \in Runs : /\ run'[q].acts = run[q].acts
                           /\ run'[q].at = IF q = r THEN p ELSE run[q].at
    BY <1>0, <2>1, <2>2, RunStaged
  <2>4. TypeOK'
    BY <1>0, <2>1, <2>2, <2>3 DEF initiative, state, TypeOK
  <2>5. HasAct'
    BY <1>0, <2>2, <2>3 DEF HasAct
  <2>6. DisplayedAskIsOpen'
    BY <1>0, <2>1, <2>2, <2>3 DEF DisplayedAskIsOpen, TypeOK
  <2>7. QED
    BY <2>4, <2>5, <2>6 DEF WellTyped
<1>6. ASSUME NEW approved \in BOOLEAN, Decide(approved) PROVE WellTyped'
  <2>1. PICK p \in {"working", "denied"} : run' = [run EXCEPT ![gate].at = p]
    <3>1. CASE approved
      BY <1>6, <3>1 DEF Decide
    <3>2. CASE ~approved
      BY <1>6, <3>2 DEF Decide
    <3>3. QED
      BY <3>1, <3>2
  <2>2. /\ gate \in Runs /\ gate' = None /\ run[gate].at = "asking" /\ p \in Phases
        /\ UNCHANGED <<now, initiative>>
    BY <1>0, <1>6 DEF Decide, TypeOK, DisplayedAskIsOpen, Phases
  <2>3. /\ run' \in [Runs -> Run]
        /\ \A q \in Runs : /\ run'[q].acts = run[q].acts
                           /\ run'[q].at = IF q = gate THEN p ELSE run[q].at
    BY <1>0, <2>1, <2>2, RunStaged
  <2>4. TypeOK'
    BY <1>0, <2>1, <2>2, <2>3 DEF initiative, state, TypeOK
  <2>5. HasAct'
    BY <1>0, <2>2, <2>3 DEF HasAct
  <2>6. DisplayedAskIsOpen'
    BY <2>2 DEF DisplayedAskIsOpen
  <2>7. QED
    BY <2>4, <2>5, <2>6 DEF WellTyped
<1>7. ASSUME NEW verdict \in Verdicts, NEW threw \in BOOLEAN, SendEnds(verdict, threw)
      PROVE  WellTyped'
  <2>1. /\ run' = [run EXCEPT ![Typed] = Idle] /\ gate' = None
        /\ UNCHANGED <<now, level, windowActs, lastBrief>>
    BY <1>7 DEF SendEnds
  <2>2. failures' \in 0..(BreakerFailures - 1) /\ breakerUntil' \in Nat
    BY <1>0, <1>7, ReportFailureType DEF SendEnds, TypeOK
  <2>3. followUps' \in SUBSET FollowUp
    BY <1>0, <1>7, ScheduleType DEF SendEnds, TypeOK, Bases
  <2>4. run' \in [Runs -> Run]
    BY <1>0, <2>1, IdleType DEF TypeOK
  <2>5. StateTyped'
    BY <1>0, <2>1, <2>2, <2>3 DEF TypeOK, StateTyped
  <2>6. Persist \/ Unwritten
    BY <1>7 DEF SendEnds
  <2>7. DiskTyped'
    BY <1>0, <2>5, <2>6, PersistType DEF TypeOK, DiskTyped, Unwritten
  <2>8. QED
    BY <1>0, <2>1, <2>4, <2>5, <2>7
    DEF WellTyped, TypeOK, StateTyped, DiskTyped, HasAct, DisplayedAskIsOpen
<1>8. ASSUME NEW b \in Beats, NEW verdict \in Verdicts, ActEnds(b, verdict)
      PROVE  WellTyped'
  BY <1>8, TypedActEnds
<1>9. ASSUME NEW b \in Beats, BeatEnds(b) PROVE WellTyped'
  <2>1. StateTyped'
    BY <1>0, <1>9 DEF BeatEnds, state, TypeOK, StateTyped
  <2>2. DiskTyped'
    BY <1>0, <1>9, <2>1, PersistType DEF BeatEnds, TypeOK, DiskTyped
  <2>3. QED
    BY <1>0, <1>9, <2>1, <2>2, IdleType
    DEF BeatEnds, Idle, WellTyped, TypeOK, StateTyped, DiskTyped, HasAct, DisplayedAskIsOpen
<1>10. CASE Restart
  <2>1. StateTyped'
    BY <1>0, <1>10 DEF Restart, TypeOK, StateTyped, Stored
  <2>2. QED
    BY <1>0, <1>10, <2>1, IdleType
    DEF Restart, Idle, WellTyped, TypeOK, StateTyped, HasAct, DisplayedAskIsOpen
<1>11. CASE UNCHANGED vars
  BY <1>0, <1>11 DEF vars, initiative, state, WellTyped, TypeOK, HasAct, DisplayedAskIsOpen
<1>12. QED
  BY <1>1, <1>2, <1>3, <1>4, <1>5, <1>6, <1>7, <1>8, <1>9, <1>10, <1>11 DEF Next

LEMMA WellTypedAlways == Spec => []WellTyped
BY InitTyped, TypedStep, PTL DEF Spec

(* The state of the steward is well typed, whatever runs overlap.           *)
THEOREM StewardTyped == Spec => []TypeOK
<1>1. WellTyped => TypeOK
  BY DEF WellTyped
<1>2. QED
  BY <1>1, WellTypedAlways, PTL

(* What the gate displays is a question whose run still waits for it.       *)
THEOREM GateShowsOpenAsk == Spec => []DisplayedAskIsOpen
<1>1. WellTyped => DisplayedAskIsOpen
  BY DEF WellTyped
<1>2. QED
  BY <1>1, WellTypedAlways, PTL

-------------------------------------------------------------------------------
(* A typed run goes on.                                                     *)

(* What a typed run has ahead of it. *)
AheadOf == [start |-> 3, asking |-> 2, working |-> 1, denied |-> 1, ending |-> 1, idle |-> 0]
Disturbed == \E b \in Beats : run[b].at # "idle"

(* A step brings a typed run nearer to its end, its ask on display from the *)
(* moment it is asked; or leaves it where it is, and an ask on display goes *)
(* from there only while a heartbeat run is in flight.                      *)
SendGoesOn ==
  run[Typed].at # "idle" =>
    \/ /\ AheadOf[run'[Typed].at] < AheadOf[run[Typed].at]
       /\ run'[Typed].at = "asking" => gate' = Typed
    \/ /\ run'[Typed].at = run[Typed].at
       /\ run[Typed].at = "asking" /\ gate = Typed => gate' = Typed \/ Disturbed

LEMMA SendStep ==
  ASSUME WellTyped, Next
  PROVE  SendGoesOn
<1> SUFFICES ASSUME run[Typed].at # "idle" PROVE SendGoesOn
  BY DEF SendGoesOn
<1>1. /\ run \in [Runs -> Run] /\ Typed \in Runs /\ Beats \subseteq Runs /\ Typed \notin Beats
      /\ run[Typed].at \in Phases
  BY StewardAssumption DEF WellTyped, TypeOK, Runs, Run
<1>2. ASSUME run'[Typed] = run[Typed], gate' = gate \/ Disturbed PROVE SendGoesOn
  BY <1>2 DEF SendGoesOn
<1>3. ASSUME run'[Typed] = Idle PROVE SendGoesOn
  BY <1>1, <1>3 DEF SendGoesOn, Idle, AheadOf, Phases
<1>4. CASE Tick
  BY <1>2, <1>4 DEF Tick
<1>5. ASSUME NEW l \in Levels, SetLevel(l) PROVE SendGoesOn
  BY <1>2, <1>5 DEF SetLevel
<1>6. CASE Send
  BY <1>6 DEF Send
<1>7. ASSUME NEW b \in Beats, NEW goal \in BOOLEAN, NEW drift \in BOOLEAN,
             NEW unsealed \in BOOLEAN, Wake(b, goal, drift, unsealed)
      PROVE  SendGoesOn
  <2>1. gate' = gate /\ run'[Typed] = run[Typed]
    BY <1>1, <1>7 DEF Wake
  <2> QED
    BY <1>2, <2>1
<1>8. ASSUME NEW r \in Runs, Ask(r) PROVE SendGoesOn
  <2>1. CASE r = Typed
    <3>1. run[Typed].at = "start" /\ run'[Typed].at = "asking" /\ gate' = Typed
      BY <1>1, <1>8, <2>1 DEF Ask, Run
    <3> QED
      BY <3>1 DEF SendGoesOn, AheadOf
  <2>2. CASE r # Typed
    <3>1. run'[Typed] = run[Typed] /\ r \in Beats /\ run[r].at # "idle"
      BY <1>1, <1>8, <2>2 DEF Ask, Runs
    <3> QED
      BY <1>2, <3>1 DEF Disturbed
  <2> QED
    BY <2>1, <2>2
<1>9. ASSUME NEW r \in Runs, Proceed(r) PROVE SendGoesOn
  <2>1. CASE r = Typed
    <3>1. run[Typed].at = "start" /\ run'[Typed].at = "working"
      BY <1>1, <1>9, <2>1 DEF Proceed, Run
    <3> QED
      BY <3>1 DEF SendGoesOn, AheadOf
  <2>2. CASE r # Typed
    BY <1>1, <1>2, <1>9, <2>2 DEF Proceed
  <2> QED
    BY <2>1, <2>2
<1>10. ASSUME NEW approved \in BOOLEAN, Decide(approved) PROVE SendGoesOn
  <2>1. gate \in Runs /\ run[gate].at = "asking"
    BY <1>10 DEF Decide, WellTyped, TypeOK, DisplayedAskIsOpen
  <2>2. CASE gate = Typed
    <3>1. run'[Typed].at \in {"working", "denied"}
      BY <1>1, <1>10, <2>2 DEF Decide, Run
    <3> QED
      BY <2>1, <2>2, <3>1 DEF SendGoesOn, AheadOf
  <2>3. CASE gate # Typed
    <3>1. run'[Typed] = run[Typed]
      BY <1>1, <1>10, <2>3 DEF Decide
    <3> QED
      BY <2>3, <3>1 DEF SendGoesOn
  <2> QED
    BY <2>2, <2>3
<1>11. ASSUME NEW verdict \in Verdicts, NEW threw \in BOOLEAN, SendEnds(verdict, threw)
       PROVE  SendGoesOn
  BY <1>1, <1>3, <1>11 DEF SendEnds
<1>12. ASSUME NEW b \in Beats, NEW verdict \in Verdicts, ActEnds(b, verdict)
       PROVE  SendGoesOn
  <2>1. gate' = gate /\ run'[Typed] = run[Typed]
    BY <1>1, <1>12 DEF ActEnds
  <2> QED
    BY <1>2, <2>1
<1>13. ASSUME NEW b \in Beats, BeatEnds(b) PROVE SendGoesOn
  <2>1. run'[Typed] = run[Typed] /\ run[b].at # "idle"
    BY <1>1, <1>13 DEF BeatEnds
  <2> QED
    BY <1>2, <2>1 DEF Disturbed
<1>14. CASE Restart
  BY <1>1, <1>3, <1>14 DEF Restart
<1> QED
  BY <1>4, <1>5, <1>6, <1>7, <1>8, <1>9, <1>10, <1>11, <1>12, <1>13, <1>14 DEF Next

(* The safety half of SendEndsUndisturbed, for any number of heartbeats and *)
(* every restart: the ask of a typed run is shown when it is made, and only *)
(* a heartbeat in flight can take it from the screen unanswered (send,      *)
(* makeGate, decideGate).                                                   *)
THEOREM SendsGoOn == Spec => [][SendGoesOn]_vars
<1>1. WellTyped /\ [Next]_vars => [SendGoesOn]_vars
  BY SendStep
<1> QED
  BY <1>1, WellTypedAlways, PTL DEF Spec

-------------------------------------------------------------------------------
(* Records.                                                                 *)

(* What a step does to the stored record: it becomes the record in memory,  *)
(* or stays, and without a lost write the two go together.                  *)
DiskKept ==
  /\ stored'.windowActs \in {stored.windowActs, windowActs'}
  /\ lost' = 0 => /\ lost = 0
                  /\ \/ stored'.windowActs = windowActs'
                     \/ UNCHANGED <<stored, windowActs>>

(* What a step that is neither a wake nor a restart does to the record and  *)
(* to the acts left.                                                        *)
ActsKept ==
  /\ windowActs' = windowActs
  /\ DiskKept
  /\ now' \in {now, now + 1}
  /\ \A b \in Beats : \A i \in DOMAIN run'[b].acts :
       \E j \in DOMAIN run[b].acts : run'[b].acts[i] = run[b].acts[j]

LEMMA PersistKept ==
  ASSUME lost \in Nat, Persist \/ PersistTwice
  PROVE  DiskKept
BY DEF Persist, PersistTwice, Snapshot, DiskKept

LEMMA UnwrittenKept ==
  ASSUME Unwritten, windowActs' = windowActs
  PROVE  DiskKept
BY DEF Unwritten, DiskKept

LEMMA KeptOrWake ==
  ASSUME WellTyped, [Next]_vars
  PROVE  \/ ActsKept
         \/ \E b \in Beats, goal, drift, unsealed \in BOOLEAN :
              Wake(b, goal, drift, unsealed)
         \/ Restart
<1>1. run \in [Runs -> Run] /\ Typed \in Runs \ Beats /\ Beats \subseteq Runs
  BY StewardAssumption DEF WellTyped, TypeOK, Runs
<1>2. DOMAIN Idle.acts = {} /\ lost \in Nat
  BY StewardAssumption DEF Idle, WellTyped, TypeOK
<1>0. ASSUME UNCHANGED initiative PROVE windowActs' = windowActs /\ DiskKept
  BY <1>0, UnwrittenKept DEF initiative, state, Unwritten
<1>3. CASE Tick \/ UNCHANGED vars
  <2>1. UNCHANGED <<initiative, run>> /\ now' \in {now, now + 1}
    BY <1>3 DEF Tick, vars
  <2>2. QED
    BY <1>0, <2>1 DEF ActsKept
<1>4. ASSUME NEW l \in Levels, SetLevel(l) PROVE ActsKept
  BY <1>2, <1>4, PersistKept DEF SetLevel, ActsKept
<1>5. CASE Send
  BY <1>0, <1>1, <1>5 DEF Send, ActsKept
<1>6. ASSUME NEW q \in Runs, Ask(q) \/ Proceed(q) PROVE ActsKept
  <2>1. /\ \A t \in Runs : run'[t].acts = run[t].acts
        /\ UNCHANGED <<now, initiative>>
    <3>1. CASE Ask(q)
      BY <1>1, <3>1 DEF Ask
    <3>2. CASE Proceed(q)
      BY <1>1, <3>2 DEF Proceed
    <3>3. QED
      BY <1>6, <3>1, <3>2
  <2>2. QED
    BY <1>0, <1>1, <2>1 DEF ActsKept
<1>7. ASSUME NEW approved \in BOOLEAN, Decide(approved) PROVE ActsKept
  <2>1. /\ \A t \in Runs : run'[t].acts = run[t].acts
        /\ UNCHANGED <<now, initiative>>
    BY <1>1, <1>7 DEF Decide, Run
  <2>2. QED
    BY <1>0, <1>1, <2>1 DEF ActsKept
<1>8. ASSUME NEW verdict \in Verdicts, NEW threw \in BOOLEAN, SendEnds(verdict, threw)
      PROVE  ActsKept
  <2>1. Persist \/ Unwritten
    BY <1>8 DEF SendEnds
  <2>2. UNCHANGED <<now, windowActs>> /\ \A b \in Beats : run'[b] = run[b]
    BY <1>1, <1>8 DEF SendEnds
  <2>3. DiskKept
    BY <1>2, <2>1, <2>2, PersistKept, UnwrittenKept
  <2>4. QED
    BY <2>2, <2>3 DEF ActsKept
<1>9. ASSUME NEW b \in Beats, NEW verdict \in Verdicts, ActEnds(b, verdict)
      PROVE  ActsKept
  <2> DEFINE acts == run[b].acts
  <2>1. /\ run' = [run EXCEPT ![b] = Onward(Tail(acts))]
        /\ UNCHANGED <<now, windowActs>>
    BY <1>9 DEF ActEnds
  <2>2. acts \in Seq(Act) /\ acts # <<>>
    <3>1. run[b] \in Run
      BY <1>1 DEF WellTyped, TypeOK
    <3>2. run[b].at \in {"start", "denied", "working"}
      BY <1>9 DEF ActEnds, MayEnd
    <3>3. QED
      BY <3>1, <3>2 DEF WellTyped, HasAct, Run
  <2>3. run'[b].acts = Tail(acts)
    BY <1>1, <2>1 DEF Onward
  <2> HIDE DEF acts
  <2>4. /\ Tail(acts) \in Seq(Act) /\ Len(Tail(acts)) = Len(acts) - 1
        /\ \A i \in 1..Len(Tail(acts)) : Tail(acts)[i] = acts[i + 1]
    BY <2>2, HeadTailProperties
  <2>5. /\ Len(acts) \in Nat /\ DOMAIN acts = 1..Len(acts)
        /\ DOMAIN Tail(acts) = 1..Len(Tail(acts))
    BY <2>2, <2>4, LenProperties
  <2>6. \A i \in DOMAIN Tail(acts) : i + 1 \in DOMAIN acts /\ Tail(acts)[i] = acts[i + 1]
    BY <2>4, <2>5
  <2>7. \A t \in Runs \ {b} : run'[t] = run[t]
    BY <1>1, <2>1
  <2>8. ASSUME NEW c \in Beats, NEW i \in DOMAIN run'[c].acts
        PROVE  \E j \in DOMAIN run[c].acts : run'[c].acts[i] = run[c].acts[j]
    <3>1. CASE c = b
      BY <2>3, <2>6, <2>8, <3>1 DEF acts
    <3>2. CASE c # b
      BY <1>1, <2>7, <2>8, <3>2
    <3>3. QED
      BY <3>1, <3>2
  <2>9. Persist \/ PersistTwice \/ Unwritten
    BY <1>9 DEF ActEnds
  <2>10. DiskKept
    BY <1>2, <2>1, <2>9, PersistKept, UnwrittenKept
  <2>11. QED
    BY <2>1, <2>8, <2>10 DEF ActsKept
<1>10. ASSUME NEW b \in Beats, BeatEnds(b) PROVE ActsKept
  <2>1. DiskKept
    BY <1>2, <1>10, PersistKept DEF BeatEnds
  <2>2. QED
    BY <1>1, <1>2, <1>10, <2>1 DEF BeatEnds, state, ActsKept
<1>11. QED
  BY <1>3, <1>4, <1>5, <1>6, <1>7, <1>8, <1>9, <1>10 DEF Next

(* A record that can stand in memory or in storage at time t: finite, each  *)
(* key naming the window it was made in, no key twice, and no more of it in *)
(* the last hour than the cap and three.                                    *)
LastHour(W, t) == {w \in W : w.at >= t - Hour}

GoodRecord(W, t) ==
  /\ IsFiniteSet(W)
  /\ \A w \in W : w.at <= t /\ w.key[4] = w.at \div Window
  /\ \A v, w \in W : v.key = w.key => v = w
  /\ Cardinality(LastHour(W, t)) <= MaxActsPerHour + 3

(* What is in hand is on record.                                            *)
Ahead ==
  \A b \in Beats : \A i \in DOMAIN run[b].acts :
    now - run[b].acts[i].at <= Day - Window =>
      \E w \in windowActs : w.key = ActKey(run[b].acts[i])

(* The inductive invariant of the records: a restart puts the stored one in *)
(* the place of the one in memory, so both must be good.                    *)
Recorded ==
  /\ GoodRecord(windowActs, now)
  /\ GoodRecord(stored.windowActs, now)
  /\ lost = 0 => stored.windowActs = windowActs
  /\ Ahead

LEMMA RecordedImplies == Recorded => RecordedAhead /\ HourBounded
BY DEF Recorded, GoodRecord, LastHour, InHour, Ahead, RecordedAhead, HourBounded

(* A good record stays good as time goes by.                                *)
LEMMA GoodLater ==
  ASSUME NEW W \in SUBSET [at : Nat, key : Keys], NEW t \in Nat,
         NEW u \in {t, t + 1}, GoodRecord(W, t)
  PROVE  GoodRecord(W, u)
<1>1. \A w \in W : w.at \in Nat
  OBVIOUS
<1>2. LastHour(W, u) \in SUBSET LastHour(W, t)
  BY <1>1, StewardAssumption DEF LastHour
<1>3. IsFiniteSet(LastHour(W, t))
  BY FS_Subset DEF GoodRecord, LastHour
<1>4. /\ Cardinality(LastHour(W, u)) <= Cardinality(LastHour(W, t))
      /\ Cardinality(LastHour(W, t)) \in Nat /\ Cardinality(LastHour(W, u)) \in Nat
  BY <1>2, <1>3, FS_Subset, FS_CardinalityType
<1>5. Cardinality(LastHour(W, u)) <= MaxActsPerHour + 3
  BY <1>4, StewardAssumption DEF GoodRecord
<1>6. QED
  BY <1>1, <1>5 DEF GoodRecord

(* A record is not dropped while an act of its window is younger than a day *)
(* less a window.                                                           *)
LEMMA RecordStays ==
  ASSUME TypeOK, GoodRecord(windowActs, now), NEW w \in windowActs, NEW a \in Act,
         w.key = ActKey(a), now - a.at <= Day - Window
  PROVE  now - w.at < Day
<1>1. now \in Nat /\ a.at \in Nat /\ w.at \in Nat
  BY DEF TypeOK, Act
<1>2. w.key[4] = a.at \div Window
  BY DEF ActKey, Key
<1>3. a.at \div Window = w.at \div Window
  BY <1>2 DEF GoodRecord
<1>4. a.at < w.at + Window
  BY <1>1, <1>3, SameWindow
<1>5. QED
  BY <1>1, <1>4, StewardAssumption

LEMMA InitRecorded == Init => Recorded
<1> SUFFICES ASSUME Init PROVE Recorded
  OBVIOUS
<1>1. windowActs = {} /\ stored.windowActs = {}
  BY DEF Init, Snapshot
<1>2. DOMAIN Idle.acts = {} /\ \A b \in Beats : run[b] = Idle
  BY DEF Init, Idle, Runs
<1>3. LastHour({}, now) = {} /\ IsFiniteSet({}) /\ Cardinality({}) = 0
  BY FS_EmptySet DEF LastHour
<1>4. GoodRecord({}, now)
  BY <1>3, StewardAssumption DEF GoodRecord
<1>5. QED
  BY <1>1, <1>2, <1>4 DEF Recorded, Ahead

LEMMA KeptRecorded ==
  ASSUME WellTyped, Recorded, ActsKept
  PROVE  Recorded'
<1>1. windowActs' = windowActs /\ DiskKept /\ now' \in {now, now + 1}
  BY DEF ActsKept
<1>2. now \in Nat /\ now' \in Nat /\ now <= now'
  BY <1>1 DEF WellTyped, TypeOK
<1>3. /\ windowActs \in SUBSET [at : Nat, key : Keys]
      /\ stored.windowActs \in SUBSET [at : Nat, key : Keys]
  BY DEF WellTyped, TypeOK, Stored
<1>4. GoodRecord(windowActs, now') /\ GoodRecord(stored.windowActs, now')
  BY <1>1, <1>2, <1>3, GoodLater DEF Recorded
<1>5. Ahead'
  <2>1. ASSUME NEW b \in Beats, NEW i \in DOMAIN run'[b].acts,
               now' - run'[b].acts[i].at <= Day - Window
        PROVE  \E w \in windowActs' : w.key = ActKey(run'[b].acts[i])
    <3>1. PICK j \in DOMAIN run[b].acts : run'[b].acts[i] = run[b].acts[j]
      BY <2>1 DEF ActsKept
    <3>2. run[b].acts \in Seq(Act)
      BY DEF WellTyped, TypeOK, Run, Runs
    <3>3. run[b].acts[j].at \in Nat
      <4>1. j \in 1..Len(run[b].acts)
        BY <3>1, <3>2, LenProperties
      <4>2. run[b].acts[j] \in Act
        BY <3>2, <4>1, ElementOfSeq
      <4>3. QED
        BY <4>2 DEF Act
    <3>4. now - run[b].acts[j].at <= Day - Window
      BY <1>2, <2>1, <3>1, <3>3, StewardAssumption
    <3>5. QED
      BY <1>1, <3>1, <3>4 DEF Recorded, Ahead
  <2>2. QED
    BY <2>1 DEF Ahead, ActKey, Key
<1>6. GoodRecord(windowActs', now') /\ GoodRecord(stored'.windowActs, now')
  BY <1>1, <1>4 DEF DiskKept
<1>7. lost' = 0 => stored'.windowActs = windowActs'
  BY <1>1 DEF DiskKept, Recorded
<1>8. QED
  BY <1>5, <1>6, <1>7 DEF Recorded, GoodRecord, LastHour

(* A restart: the stored record was good when it was written, and nothing   *)
(* is in hand.                                                              *)
LEMMA RestartRecorded ==
  ASSUME WellTyped, Recorded, Restart
  PROVE  Recorded'
<1>1. windowActs' = stored.windowActs /\ stored' = stored /\ now' = now
  BY DEF Restart
<1>2. \A b \in Beats : DOMAIN run'[b].acts = {}
  BY DEF Restart, Idle, Runs
<1>3. Ahead'
  BY <1>2 DEF Ahead
<1>4. QED
  BY <1>1, <1>3 DEF Recorded, GoodRecord, LastHour

LEMMA WakeRecorded ==
  ASSUME WellTyped, Recorded, NEW b \in Beats, NEW goal \in BOOLEAN,
         NEW drift \in BOOLEAN, NEW unsealed \in BOOLEAN,
         Wake(b, goal, drift, unsealed)
  PROVE  Recorded'
<1>1. PICK due \in IF FirstDue = {} THEN {{}} ELSE {{f} : f \in FirstDue} :
        LET work == WorkOf(due, goal, drift)
            proposal == ProposalOf(unsealed)
        IN /\ ApplyWake(work \o proposal)
           /\ run' = IF work \o proposal = <<>> THEN run
                     ELSE [run EXCEPT ![b] = Onward(work)]
           /\ UNCHANGED <<now, level, failures, breakerUntil, gate>>
           /\ Persist
  BY DEF Wake
<1> DEFINE work == WorkOf(due, goal, drift)
           acts == work \o ProposalOf(unsealed)
           made == {acts[i] : i \in 1..Len(acts)}
           fresh == {a \in made : \A w \in windowActs : w.key # ActKey(a)}
           new == {[at |-> now, key |-> ActKey(a)] : a \in fresh}
<1>2. due \in SUBSET followUps
  BY DEF FirstDue
<1>3. /\ work \in Seq(Act) /\ acts \in Seq(Act)
      /\ Len(acts) \in 0..4
      /\ \A i \in 1..Len(work) : work[i].at = now
      /\ \A i \in 1..Len(work) : i \in 1..Len(acts) /\ acts[i] = work[i]
      /\ \A i \in 1..Len(acts) : acts[i].at = now
      /\ CapsExhausted => acts = <<>>
  BY <1>2, WakeActs DEF WellTyped
<1>4. windowActs' = {w \in windowActs \cup new : now - w.at < Day}
  BY <1>1 DEF ApplyWake
<1>5. /\ run' = IF acts = <<>> THEN run ELSE [run EXCEPT ![b] = Onward(work)]
      /\ now' = now
      /\ Persist
  BY <1>1
<1> HIDE DEF work, acts
<1>6. \A a \in made : a \in Act /\ a.at = now
  BY <1>3, ElementOfSeq
<1>7. now \in Nat /\ Hour \in Nat /\ Day \in Nat /\ 0 < Day /\ Window \in Nat
  BY StewardAssumption DEF WellTyped, TypeOK
<1>8. IsFiniteSet(new) /\ Cardinality(new) \in Nat /\ Cardinality(new) <= 4
      /\ (acts = <<>> => new = {})
  <2> DEFINE R(i) == [at |-> now, key |-> ActKey(acts[i])]
  <2>1. ASSUME NEW n \in new PROVE n \in {R(1), R(2), R(3), R(4)} /\ acts # <<>>
    <3>1. PICK i \in 1..Len(acts) : n = R(i)
      OBVIOUS
    <3>2. i \in 1..4
      BY <1>3
    <3>3. acts # <<>>
      BY <1>3
    <3> HIDE DEF R
    <3>4. QED
      BY <3>1, <3>2, <3>3
  <2>2. new \subseteq {R(1), R(2), R(3), R(4)} /\ (acts = <<>> => new = {})
    BY <2>1
  <2> HIDE DEF R, new
  <2>3. QED
    BY <2>2, FourAtMost
<1>9. IsFiniteSet(windowActs') /\ \A w \in windowActs' :
                                    w.at <= now /\ w.key[4] = w.at \div Window
  <2>1. IsFiniteSet(windowActs \cup new)
    BY <1>8, FS_Union DEF Recorded, GoodRecord
  <2>2. IsFiniteSet(windowActs')
    BY <2>1, <1>4, FS_Subset
  <2>3. \A n \in new : n.at = now /\ n.key[4] = now \div Window
    BY <1>6 DEF ActKey, Key
  <2> HIDE DEF new
  <2>4. QED
    BY <1>4, <1>7, <2>2, <2>3 DEF Recorded, GoodRecord
<1>10. \A v, w \in windowActs' : v.key = w.key => v = w
  <2>1. \A n \in new, w \in windowActs : n.key # w.key
    OBVIOUS
  <2>2. \A m, n \in new : m.key = n.key => m = n
    OBVIOUS
  <2> HIDE DEF new
  <2>3. QED
    BY <1>4, <2>1, <2>2 DEF Recorded, GoodRecord
<1>11. ASSUME NEW c \in Beats, NEW i \in DOMAIN run'[c].acts,
              now' - run'[c].acts[i].at <= Day - Window
       PROVE  \E w \in windowActs' : w.key = ActKey(run'[c].acts[i])
  <2> DEFINE a == run'[c].acts[i]
  <2>1. \/ a \in made
        \/ a \in Act /\ \E w \in windowActs : w.key = ActKey(a)
    <3>1. CASE run'[c] = run[c]
      <4>1. run[c].acts \in Seq(Act)
        BY DEF WellTyped, TypeOK, Run, Runs
      <4>2. i \in 1..Len(run[c].acts)
        BY <1>11, <3>1, <4>1, LenProperties
      <4>3. a \in Act
        BY <3>1, <4>1, <4>2, ElementOfSeq
      <4>4. QED
        BY <1>5, <1>11, <3>1, <4>3 DEF Recorded, Ahead
    <3>2. CASE run'[c] # run[c]
      <4>1. c = b /\ run'[c] = Onward(work)
        BY <1>5, <3>2 DEF WellTyped, TypeOK, Runs
      <4>2. run'[c].acts = work
        BY <4>1 DEF Onward
      <4>3. i \in 1..Len(work) /\ a = work[i]
        BY <1>3, <1>11, <4>2, LenProperties
      <4>4. QED
        BY <1>3, <4>3
    <3>3. QED
      BY <3>1, <3>2
  <2>2. now - a.at <= Day - Window
    BY <1>5, <1>11
  <2> HIDE DEF a
  <2>3. CASE \E w \in windowActs : w.key = ActKey(a)
    <3>1. PICK w \in windowActs : w.key = ActKey(a)
      BY <2>3
    <3>2. a \in Act
      BY <1>6, <2>1
    <3>3. now - w.at < Day
      BY <2>2, <3>1, <3>2, RecordStays DEF WellTyped, Recorded
    <3>4. QED
      BY <1>4, <3>1, <3>3 DEF a
  <2>4. CASE ~(\E w \in windowActs : w.key = ActKey(a))
    <3>1. a \in fresh
      BY <2>1, <2>4
    <3>2. [at |-> now, key |-> ActKey(a)] \in new
      BY <3>1
    <3> HIDE DEF new
    <3>3. [at |-> now, key |-> ActKey(a)] \in windowActs'
      BY <1>4, <1>7, <3>2
    <3>4. QED
      BY <3>3 DEF a
  <2>5. QED
    BY <2>3, <2>4
<1>12. Cardinality(LastHour(windowActs', now)) <= MaxActsPerHour + 3
  <2> HIDE DEF new
  <2> DEFINE before == LastHour(windowActs, now)
             after == LastHour(windowActs', now)
  <2>1. after \in SUBSET (before \cup new)
    BY <1>4 DEF LastHour
  <2>2. IsFiniteSet(before)
    BY FS_Subset DEF Recorded, GoodRecord, LastHour
  <2>3. Cardinality(before) \in Nat /\ Cardinality(before) <= MaxActsPerHour + 3
    BY <2>2, FS_CardinalityType DEF Recorded, GoodRecord
  <2>4. CapsExhausted \/ Cardinality(before) < MaxActsPerHour
    BY <2>3, StewardAssumption DEF CapsExhausted, InHour, LastHour
  <2> HIDE DEF before, after
  <2>5. CASE CapsExhausted
    <3>1. after \in SUBSET before
      BY <1>3, <1>8, <2>1, <2>5
    <3>2. Cardinality(after) <= Cardinality(before) /\ Cardinality(after) \in Nat
      BY <2>2, <3>1, FS_Subset, FS_CardinalityType
    <3>3. QED
      BY <2>3, <3>2, StewardAssumption DEF after
  <2>6. CASE ~CapsExhausted
    <3>1. Cardinality(before) < MaxActsPerHour
      BY <2>4, <2>6
    <3>2. /\ IsFiniteSet(before \cup new)
          /\ Cardinality(before \cup new)
               = Cardinality(before) + Cardinality(new) - Cardinality(before \cap new)
      BY <1>8, <2>2, FS_Union
    <3>3. Cardinality(before \cap new) \in Nat
      BY <2>2, FS_Subset, FS_CardinalityType
    <3>4. /\ Cardinality(after) <= Cardinality(before \cup new)
          /\ Cardinality(after) \in Nat /\ Cardinality(before \cup new) \in Nat
      BY <2>1, <3>2, FS_Subset, FS_CardinalityType
    <3>5. Cardinality(after) <= MaxActsPerHour + 3
      BY <1>8, <2>3, <3>1, <3>2, <3>3, <3>4, StewardAssumption
    <3>6. QED
      BY <3>5 DEF after
  <2>7. QED
    BY <2>5, <2>6
<1>13. GoodRecord(windowActs', now)
  BY <1>9, <1>10, <1>12 DEF GoodRecord
<1>14. stored'.windowActs \in {stored.windowActs, windowActs'}
       /\ (lost' = 0 => stored'.windowActs = windowActs')
  <2>1. lost \in Nat
    BY StewardAssumption DEF WellTyped, TypeOK
  <2>2. QED
    BY <1>5, <2>1 DEF Persist, Snapshot
<1>15. GoodRecord(stored'.windowActs, now)
  BY <1>13, <1>14 DEF Recorded
<1>16. Ahead'
  BY <1>11 DEF Ahead, ActKey, Key
<1>17. QED
  BY <1>5, <1>13, <1>14, <1>15, <1>16 DEF Recorded, GoodRecord, LastHour

LEMMA RecordedAlways == Spec => []Recorded
<1>1. WellTyped /\ Recorded /\ [Next]_vars => Recorded'
  BY KeptOrWake, KeptRecorded, WakeRecorded, RestartRecorded
<1>2. QED
  BY <1>1, InitRecorded, WellTypedAlways, PTL DEF Spec

(* No key is on record twice, and an act is on record before it is          *)
(* executed, in memory and, as long as no write was lost, in storage        *)
(* (applyWake and persist, before executeWakeActs).                         *)
THEOREM ActsRecordedAhead == Spec => []RecordedAhead
<1>1. Recorded => RecordedAhead
  BY RecordedImplies
<1>2. QED
  BY <1>1, RecordedAlways, PTL

(* No hour holds more than the cap and three recorded acts, whatever writes *)
(* are lost and however often the app is closed and opened (evaluateWake    *)
(* compares the caps with the record before applyWake adds to it).          *)
THEOREM HourlyBound == Spec => []HourBounded
<1>1. Recorded => HourBounded
  BY RecordedImplies
<1>2. QED
  BY <1>1, RecordedAlways, PTL
===============================================================================
