------------------------- MODULE HarborSessionsProofs -------------------------
(***************************************************************************)
(* Theorems about HarborSessions: for any number of sockets, keys, bundles *)
(* and envelopes the state is well typed, no two members have the same     *)
(* fingerprint and a recorded signature that its key does not verify comes *)
(* after the record of a rotation; and when a socket makes one join call,  *)
(* as the SDK's do, the record alternates and clients that lost no event   *)
(* know the members.                                                       *)
(***************************************************************************)
EXTENDS HarborSessions, SequenceTheorems, TLAPS

(* Profiles that handlers hold across an await have a fingerprint. *)
HeldProfiles ==
  /\ \A v \in vouching : fp[v.user] \in Keys
  /\ \A r \in rotating : fp[r.user] \in Keys

Typed == TypeOK /\ HeldProfiles

LEMMA PeersType ==
  ASSUME Typed, NEW s \in Sockets
  PROVE  Peers(s) \in [Sockets -> Keys \cup {Nobody}]
BY DEF Typed, TypeOK, Peers, FpOf

LEMMA NobodyIsNoProfile == Nobody \notin Profile /\ Nobody \notin Keys
BY SessionsAssumption DEF Profile

LEMMA InitTyped == Init => Typed
<1> SUFFICES ASSUME Init PROVE Typed
  OBVIOUS
<1>1. JoinsPerSocket \in Nat /\ MaxCopies \in Nat
  BY SessionsAssumption
<1>2. QED
  BY <1>1 DEF Init, Typed, TypeOK, HeldProfiles, Nobodies

(* A join that is admitted makes a profile and sends two kinds of event.    *)
LEMMA JoinFinishTyped ==
  ASSUME Typed, NEW j \in joining, NEW valid \in BOOLEAN, JoinFinish(j, valid)
  PROVE  Typed'
<1>1. CASE ~(valid /\ NotJoined(j.key))
  BY <1>1 DEF JoinFinish, Typed, TypeOK, HeldProfiles, FpOf, callVars
<1>2. CASE valid /\ NotJoined(j.key)
  <2> DEFINE s == j.sock
             p == <<s, j.n>>
             told == [t \in Sockets |-> IF t # s /\ Listening(t)
                        THEN Append(inbox[t], Event("peer:joined", s, j.key))
                        ELSE inbox[t]]
  <2>1. s \in Sockets /\ j.n \in 1..JoinsPerSocket /\ j.key \in Keys /\ p \in Profile
    BY DEF Typed, TypeOK, Joining, Profile
  <2>2. /\ members' = members \cup {s} /\ user' = [user EXCEPT ![s] = p]
        /\ fp' = [fp EXCEPT ![p] = j.key] /\ jwk' = [jwk EXCEPT ![p] = j.key]
        /\ log' = Append(log, Entry("join", j.key, Nobody))
        /\ inbox' \in {told, [told EXCEPT ![s] = Append(@, Event("ack", Peers(s), j.key))]}
    BY <1>2 DEF JoinFinish, Admit
  <2>3. /\ joining' = joining \ {j} /\ challenges' = challenges \ {s}
        /\ UNCHANGED <<conn, rotating, vouching, seen, roster, missed, callVars>>
    BY <1>2 DEF JoinFinish
  <2>4. p # Nobody /\ p[1] = s
    BY <2>1, NobodyIsNoProfile
  <2>5. Event("peer:joined", s, j.key) \in Events
        /\ Event("ack", Peers(s), j.key) \in Events
    BY <2>1, PeersType DEF Event, Events
  <2>6. Entry("join", j.key, Nobody) \in Entries
    BY <2>1 DEF Entry, Entries
  <2>7. told \in [Sockets -> Seq(Events)]
    BY <2>5 DEF Typed, TypeOK
  <2>8. inbox' \in [Sockets -> Seq(Events)]
    <3> HIDE DEF told
    <3>1. \A m \in Events : [told EXCEPT ![s] = Append(@, m)] \in [Sockets -> Seq(Events)]
      BY <2>1, <2>7
    <3>2. QED
      BY <2>2, <2>5, <2>7, <3>1
  <2> HIDE DEF told, p, s
  <2>9. \A q \in Profile : fp[q] \in Keys => fp'[q] \in Keys
    BY <2>1, <2>2 DEF Typed, TypeOK
  <2>10. \A t \in Sockets : user'[t] # Nobody => user'[t][1] = t /\ FpOf(t)' \in Keys
    <3> TAKE t \in Sockets
    <3>1. CASE t = s
      BY <2>1, <2>2, <2>4, <3>1 DEF Typed, TypeOK, FpOf
    <3>2. CASE t # s
      BY <2>1, <2>2, <2>9, <3>2 DEF Typed, TypeOK, FpOf
    <3>3. QED
      BY <3>1, <3>2
  <2>11. \A t \in members' : user'[t] # Nobody
    BY <2>1, <2>2, <2>4 DEF Typed, TypeOK
  <2>12. HeldProfiles'
    BY <2>3, <2>9 DEF Typed, TypeOK, HeldProfiles, Rotating, Vouching
  <2>13. log' \in Seq(Entries) /\ members' \in SUBSET Sockets
         /\ user' \in [Sockets -> Profile \cup {Nobody}]
         /\ fp' \in [Profile -> Keys \cup {Nobody}]
         /\ jwk' \in [Profile -> Keys \cup {Nobody}]
    BY <2>1, <2>2, <2>6 DEF Typed, TypeOK
  <2>14. \A q \in Profile : fp'[q] = Nobody <=> jwk'[q] = Nobody
    BY <2>1, <2>2 DEF Typed, TypeOK
  <2>15. QED
    BY <2>3, <2>8, <2>10, <2>11, <2>12, <2>13, <2>14 DEF Typed, TypeOK, callVars
<1>3. QED
  BY <1>1, <1>2

LEMMA DisconnectTyped ==
  ASSUME Typed, NEW s \in Sockets, Disconnect(s)
  PROVE  Typed'
<1>1. Event("peer:left", s, Nobody) \in Events
  BY DEF Event, Events
<1>2. inbox' \in [Sockets -> Seq(Events)]
  <2> DEFINE left == Event("peer:left", s, Nobody)
  <2>1. inbox' = [t \in Sockets |->
          CASE t = s -> <<>>
            [] t # s /\ user[s] # Nobody /\ Listening(t) -> Append(inbox[t], left)
            [] OTHER -> inbox[t]]
    BY DEF Disconnect
  <2> HIDE DEF left
  <2>2. \A t \in Sockets : Append(inbox[t], left) \in Seq(Events)
    BY <1>1 DEF left, Typed, TypeOK
  <2>3. QED
    BY <2>1, <2>2 DEF Typed, TypeOK
<1>3. log' \in Seq(Entries)
  <2>1. user[s] # Nobody => Entry("leave", FpOf(s), Nobody) \in Entries
    BY DEF Typed, TypeOK, Entry, Entries
  <2>2. QED
    BY <2>1 DEF Disconnect, Typed, TypeOK
<1>4. QED
  BY <1>2, <1>3 DEF Disconnect, Typed, TypeOK, HeldProfiles, FpOf, callVars

(* A profile with a fingerprint has a key. *)
LEMMA HeldKeys ==
  ASSUME Typed, NEW p \in Profile, fp[p] \in Keys
  PROVE  jwk[p] \in Keys
BY NobodyIsNoProfile DEF Typed, TypeOK

LEMMA VouchTyped ==
  ASSUME Typed, NEW v \in vouching, NEW passes \in BOOLEAN, VouchFinish(v, passes)
  PROVE  Typed'
<1>1. v \in Vouching /\ fp[v.user] \in Keys
  BY DEF Typed, TypeOK, HeldProfiles
<1>2. Vouched(v) \in Entries
  BY <1>1, HeldKeys, NobodyIsNoProfile DEF Vouching, Vouched, Entries
<1>3. log' \in Seq(Entries)
  BY <1>2 DEF VouchFinish, Typed, TypeOK
<1>4. seen' \in SUBSET Envelopes
  BY <1>1 DEF VouchFinish, Vouching, Typed, TypeOK
<1>5. QED
  BY <1>3, <1>4 DEF VouchFinish, Typed, TypeOK, HeldProfiles, FpOf, clientVars, callVars

LEMMA RotateProvedTyped ==
  ASSUME Typed, NEW r \in rotating, NEW valid \in BOOLEAN, RotateProved(r, valid)
  PROVE  Typed'
<1>1. r \in Rotating /\ r.user \in Profile /\ r.from \in Keys
      /\ r.to.fp \in Keys /\ r.to.key \in Keys
  BY SessionsAssumption DEF Typed, TypeOK, Rotating
<1>2. CASE ~(valid /\ NotTaken(r))
  BY <1>2 DEF RotateProved, Typed, TypeOK, HeldProfiles, FpOf, clientVars, callVars
<1>3. CASE valid /\ NotTaken(r)
  <2>1. /\ fp' = [fp EXCEPT ![r.user] = r.to.fp] /\ jwk' = [jwk EXCEPT ![r.user] = r.to.key]
        /\ log' = Append(log, Entry("rotate", r.from, r.to.fp))
        /\ rotating' = (rotating \ {r}) \cup {[r EXCEPT !.at = "append"]}
    BY <1>3 DEF RotateProved, Adopt, TakeBundle
  <2>2. Entry("rotate", r.from, r.to.fp) \in Entries
    BY <1>1 DEF Entry, Entries
  <2>3. [r EXCEPT !.at = "append"] \in Rotating
        /\ [r EXCEPT !.at = "append"].user = r.user
    BY <1>1 DEF Rotating
  <2>4. /\ fp' \in [Profile -> Keys \cup {Nobody}] /\ log' \in Seq(Entries)
        /\ rotating' \in SUBSET Rotating
    <3>1. fp' \in [Profile -> Keys \cup {Nobody}]
      BY <1>1, <2>1 DEF Typed, TypeOK
    <3>2. log' \in Seq(Entries)
      BY <2>1, <2>2 DEF Typed, TypeOK
    <3>3. rotating' \in SUBSET Rotating
      BY <2>1, <2>3 DEF Typed, TypeOK
    <3>4. QED
      BY <3>1, <3>2, <3>3
  <2>5. \A q \in Profile : fp[q] \in Keys => fp'[q] \in Keys
    BY <1>1, <2>1 DEF Typed, TypeOK
  <2>6. UNCHANGED <<conn, challenges, joining, members, user, vouching, seen,
                    inbox, roster, missed, joinCalls, rotateUsed, copies>>
    BY DEF RotateProved, clientVars, callVars
  <2>7. \A q \in rotating' : fp'[q.user] \in Keys
    BY <1>1, <2>1, <2>3, <2>5 DEF Typed, TypeOK, HeldProfiles, Rotating
  <2>8. \A v \in vouching : fp'[v.user] \in Keys
    BY <2>5 DEF Typed, TypeOK, HeldProfiles, Vouching
  <2>9. \A s \in Sockets : user[s] # Nobody => fp'[user[s]] \in Keys
    BY <2>5 DEF Typed, TypeOK, FpOf
  <2>10. /\ jwk' \in [Profile -> Keys \cup {Nobody}]
         /\ \A q \in Profile : fp'[q] = Nobody <=> jwk'[q] = Nobody
    BY <1>1, <2>1, NobodyIsNoProfile DEF Typed, TypeOK
  <2>11. QED
    BY <2>4, <2>6, <2>7, <2>8, <2>9, <2>10 DEF Typed, TypeOK, HeldProfiles, FpOf
<1>4. QED
  BY <1>2, <1>3

LEMMA RotateToldTyped ==
  ASSUME Typed, NEW r \in rotating, RotateTold(r)
  PROVE  Typed'
<1>1. r.user \in Profile /\ r.user[1] \in Sockets /\ fp[r.user] \in Keys
  BY DEF Typed, TypeOK, HeldProfiles, Rotating, Profile
<1>2. Event("peer:rotated", r.user[1], fp[r.user]) \in Events
  BY <1>1 DEF Event, Events
<1>3. inbox' \in [Sockets -> Seq(Events)]
  <2> DEFINE told == Event("peer:rotated", r.user[1], fp[r.user])
  <2>1. inbox' = [t \in Sockets |-> IF t # r.user[1] /\ Listening(t)
                                    THEN Append(inbox[t], told) ELSE inbox[t]]
    BY DEF RotateTold, Broadcast
  <2> HIDE DEF told
  <2>2. QED
    BY <1>2, <2>1 DEF told, Typed, TypeOK
<1>4. QED
  BY <1>3 DEF RotateTold, Typed, TypeOK, HeldProfiles, FpOf, callVars

LEMMA DeliverTyped ==
  ASSUME Typed, NEW s \in Sockets, Deliver(s)
  PROVE  Typed'
<1> DEFINE event == Head(inbox[s])
           known == roster[s]
<1>1. event \in Events /\ Tail(inbox[s]) \in Seq(Events)
  BY DEF Deliver, Typed, TypeOK
<1>2. known \in [Sockets -> Keys \cup {Nobody}]
  BY DEF Typed, TypeOK
<1>3. /\ roster' = [roster EXCEPT ![s] = Roster(known, event)]
      /\ inbox' = [inbox EXCEPT ![s] = Tail(@)]
      /\ UNCHANGED <<conn, harborVars, missed, callVars>>
  BY DEF Deliver
<1> HIDE DEF event, known
<1>4. Roster(known, event) \in [Sockets -> Keys \cup {Nobody}]
  <2>1. CASE event \in [kind : {"ack"}, id : [Sockets -> Keys \cup {Nobody}], fp : Keys]
    BY <1>2, <2>1 DEF Roster
  <2>2. CASE event \in [kind : {"peer:joined", "peer:rotated"}, id : Sockets, fp : Keys]
    BY <1>2, <2>2 DEF Roster
  <2>3. CASE event \in [kind : {"peer:left"}, id : Sockets, fp : {Nobody}]
    BY <1>2, <2>3 DEF Roster
  <2>4. QED
    BY <1>1, <2>1, <2>2, <2>3 DEF Events
<1>5. QED
  BY <1>1, <1>3, <1>4 DEF Typed, TypeOK, HeldProfiles, FpOf, harborVars, callVars

LEMMA DeliverTogetherTyped ==
  ASSUME Typed, NEW s \in Sockets, DeliverTogether(s)
  PROVE  Typed'
<1> DEFINE event == Head(inbox[s])
           known == roster[s]
           rest == Tail(Tail(inbox[s]))
<1>1. inbox[s] \in Seq(Events) /\ Len(inbox[s]) > 1
  BY DEF DeliverTogether, Typed, TypeOK
<1>2. event \in Events /\ event.kind = "ack" /\ rest \in Seq(Events)
  <2>1. inbox[s] # <<>>
    BY <1>1, EmptySeq
  <2>2. /\ Tail(inbox[s]) \in Seq(Events) /\ Len(Tail(inbox[s])) = Len(inbox[s]) - 1
        /\ event \in Events /\ Len(inbox[s]) \in Nat
    BY <1>1, <2>1, HeadTailProperties, LenProperties
  <2>3. Len(Tail(inbox[s])) # 0
    <3> DEFINE n == Len(inbox[s])
               m == Len(Tail(inbox[s]))
    <3>1. n > 1 /\ n \in Nat /\ m = n - 1
      BY <1>1, <2>2
    <3> HIDE DEF n, m
    <3>2. m # 0
      BY <3>1
    <3> QED
      BY <3>2 DEF m
  <2>4. Tail(inbox[s]) # <<>>
    BY <2>3, EmptySeq
  <2> QED
    BY <2>2, <2>4, HeadTailProperties DEF DeliverTogether
<1>3. known \in [Sockets -> Keys \cup {Nobody}]
  BY DEF Typed, TypeOK
<1>4. /\ roster' = [roster EXCEPT ![s] = Roster(known, event)]
      /\ inbox' = [inbox EXCEPT ![s] = rest]
      /\ missed' = missed \cup {s}
      /\ UNCHANGED <<conn, harborVars, callVars>>
  BY DEF DeliverTogether
<1> HIDE DEF event, known, rest
<1>5. Roster(known, event) \in [Sockets -> Keys \cup {Nobody}]
  <2>1. event \in [kind : {"ack"}, id : [Sockets -> Keys \cup {Nobody}], fp : Keys]
    BY <1>2 DEF Events
  <2> QED
    BY <1>3, <2>1 DEF Roster
<1>6. QED
  BY <1>2, <1>4, <1>5 DEF Typed, TypeOK, HeldProfiles, FpOf, harborVars, callVars

LEMMA TypedStep == Typed /\ [Next]_vars => Typed'
<1> SUFFICES ASSUME Typed, [Next]_vars PROVE Typed'
  OBVIOUS
<1>1. ASSUME NEW s \in Sockets, Connect(s) \/ ChallengeExpires(s)
      PROVE  Typed'
  BY <1>1 DEF Connect, ChallengeExpires, Typed, TypeOK, HeldProfiles, FpOf,
              clientVars, callVars
<1>2. ASSUME NEW s \in Sockets, NEW k \in Keys, JoinStart(s, k)
      PROVE  Typed'
  <2>1. JoinsPerSocket \in Nat /\ joinCalls[s] \in 0..JoinsPerSocket
    BY SessionsAssumption DEF Typed, TypeOK
  <2>2. joinCalls[s] + 1 \in 1..JoinsPerSocket
    BY <1>2, <2>1 DEF JoinStart
  <2>3. joinCalls' \in [Sockets -> 0..JoinsPerSocket] /\ joining' \in SUBSET Joining
    BY <1>2, <2>2 DEF JoinStart, Typed, TypeOK, Joining
  <2>4. QED
    BY <1>2, <2>3 DEF JoinStart, Typed, TypeOK, HeldProfiles, FpOf, clientVars
<1>3. ASSUME NEW s \in Sockets, NEW e \in Envelopes, VouchStart(s, e)
      PROVE  Typed'
  <2>1. MaxCopies \in Nat /\ copies[e] \in 0..MaxCopies
    BY SessionsAssumption DEF Typed, TypeOK
  <2>2. copies[e] + 1 \in 1..MaxCopies
    BY <1>3, <2>1 DEF VouchStart
  <2>3. user[s] \in Profile /\ FpOf(s) \in Keys /\ jwk[user[s]] \in Keys
    <3>1. user[s] \in Profile /\ fp[user[s]] \in Keys
      BY <1>3 DEF VouchStart, Listening, Typed, TypeOK, FpOf
    <3> QED
      BY <3>1, HeldKeys DEF FpOf
  <2>4. copies' \in [Envelopes -> 0..MaxCopies] /\ vouching' \in SUBSET Vouching
    BY <1>3, <2>2, <2>3 DEF VouchStart, Typed, TypeOK, Vouching
  <2>5. \A v \in vouching' : fp[v.user] \in Keys
    BY <1>3, <2>3 DEF VouchStart, Typed, HeldProfiles, FpOf
  <2>6. QED
    BY <1>3, <2>4, <2>5 DEF VouchStart, Typed, TypeOK, HeldProfiles, FpOf, clientVars
<1>4. ASSUME NEW s \in Sockets, NEW bundle \in NewBundles, RotateStart(s, bundle)
      PROVE  Typed'
  <2>1. user[s] \in Profile /\ FpOf(s) \in Keys
    BY <1>4 DEF RotateStart, Listening, Typed, TypeOK
  <2>2. rotating' \in SUBSET Rotating /\ \A r \in rotating' : fp[r.user] \in Keys
    BY <1>4, <2>1 DEF RotateStart, Typed, TypeOK, Rotating, HeldProfiles, FpOf
  <2>3. QED
    BY <1>4, <2>2 DEF RotateStart, Typed, TypeOK, HeldProfiles, FpOf, clientVars
<1>5. CASE UNCHANGED vars
  BY <1>5 DEF vars, harborVars, clientVars, callVars, Typed, TypeOK, HeldProfiles, FpOf
<1>6. ASSUME NEW j \in joining, JoinMismatch(j)
      PROVE  Typed'
  BY <1>6 DEF JoinMismatch, Typed, TypeOK, HeldProfiles, FpOf, clientVars, callVars
<1>7. QED
  BY <1>1, <1>2, <1>3, <1>4, <1>5, <1>6, DisconnectTyped, DeliverTyped,
     DeliverTogetherTyped, JoinFinishTyped, VouchTyped, RotateProvedTyped, RotateToldTyped DEF Next

LEMMA TypedAlways == Spec => []Typed
BY InitTyped, TypedStep, PTL DEF Spec

(* The state is well typed, and every member has a profile with a key.      *)
THEOREM SessionsTyped == Spec => []TypeOK
<1>1. Typed => TypeOK
  BY DEF Typed
<1>2. QED
  BY <1>1, TypedAlways, PTL

-------------------------------------------------------------------------------
(* A step that changes no member, profile or fingerprint.                   *)
LEMMA UniqueKept ==
  ASSUME OneMemberPerFp, UNCHANGED <<members, user, fp>>
  PROVE  OneMemberPerFp'
BY DEF OneMemberPerFp, FpOf

LEMMA UniqueStep == Typed /\ OneMemberPerFp /\ [Next]_vars => OneMemberPerFp'
<1> SUFFICES ASSUME Typed, OneMemberPerFp, [Next]_vars PROVE OneMemberPerFp'
  OBVIOUS
<1>1. ASSUME NEW j \in joining, NEW valid \in BOOLEAN, JoinFinish(j, valid)
      PROVE  OneMemberPerFp'
  <2>1. CASE ~(valid /\ NotJoined(j.key))
    BY <1>1, <2>1, UniqueKept DEF JoinFinish
  <2>2. CASE valid /\ NotJoined(j.key)
    <3> DEFINE s == j.sock
               p == <<s, j.n>>
    <3>1. s \in Sockets /\ p \in Profile /\ p[1] = s
      BY DEF Typed, TypeOK, Joining, Profile
    <3>2. /\ members' = members \cup {s} /\ user' = [user EXCEPT ![s] = p]
          /\ fp' = [fp EXCEPT ![p] = j.key]
      BY <1>1, <2>2 DEF JoinFinish, Admit
    <3> HIDE DEF s, p
    <3>3. FpOf(s)' = j.key
      BY <3>1, <3>2 DEF FpOf, Typed, TypeOK
    <3>4. \A t \in members \ {s} : FpOf(t)' = FpOf(t)
      <4> TAKE t \in members \ {s}
      <4>1. t \in Sockets /\ user[t] # Nobody /\ user[t][1] = t /\ user[t] \in Profile
        BY DEF Typed, TypeOK
      <4>2. user'[t] = user[t] /\ user[t] # p
        BY <3>1, <3>2, <4>1 DEF Typed, TypeOK
      <4>3. QED
        BY <3>1, <3>2, <4>1, <4>2 DEF FpOf, Typed, TypeOK
    <3>5. \A t \in members : FpOf(t) # j.key
      BY <2>2 DEF NotJoined
    <3>6. QED
      BY <3>2, <3>3, <3>4, <3>5 DEF OneMemberPerFp
  <2>3. QED
    BY <2>1, <2>2
<1>2. ASSUME NEW s \in Sockets, Disconnect(s)
      PROVE  OneMemberPerFp'
  BY <1>2 DEF Disconnect, OneMemberPerFp, FpOf
<1>3. ASSUME NEW r \in rotating, NEW valid \in BOOLEAN, RotateProved(r, valid)
      PROVE  OneMemberPerFp'
  <2>1. CASE ~(valid /\ NotTaken(r))
    BY <1>3, <2>1, UniqueKept DEF RotateProved
  <2>2. CASE valid /\ NotTaken(r)
    <3> DEFINE s == r.user[1]
    <3>1. s \in Sockets /\ r.user \in Profile
      BY DEF Typed, TypeOK, Rotating, Profile
    <3>2. fp' = [fp EXCEPT ![r.user] = r.to.fp] /\ UNCHANGED <<members, user>>
      BY <1>3, <2>2 DEF RotateProved, Adopt, TakeBundle
    <3>3. \A t \in members \ {s} : FpOf(t) # r.to.fp
      BY <2>2 DEF NotTaken
    <3> HIDE DEF s
    <3>4. \A t \in members \ {s} : FpOf(t)' = FpOf(t)
      BY <3>1, <3>2 DEF s, FpOf, Typed, TypeOK
    <3>5. s \in members => FpOf(s)' \in {FpOf(s), r.to.fp}
      BY <3>1, <3>2 DEF FpOf, Typed, TypeOK
    <3>6. QED
      BY <3>2, <3>3, <3>4, <3>5 DEF OneMemberPerFp
  <2>3. QED
    BY <2>1, <2>2
<1>4. ASSUME NEW s \in Sockets,
             \/ Connect(s) \/ ChallengeExpires(s) \/ Deliver(s) \/ DeliverTogether(s)
             \/ \E k \in Keys : JoinStart(s, k)
             \/ \E bundle \in NewBundles : RotateStart(s, bundle)
             \/ \E e \in Envelopes : VouchStart(s, e)
      PROVE  OneMemberPerFp'
  BY <1>4, UniqueKept DEF Connect, ChallengeExpires, Deliver, DeliverTogether, JoinStart,
                          RotateStart, VouchStart, harborVars
<1>5. ASSUME NEW v \in vouching, NEW passes \in BOOLEAN, VouchFinish(v, passes)
      PROVE  OneMemberPerFp'
  BY <1>5, UniqueKept DEF VouchFinish
<1>6. ASSUME NEW r \in rotating, RotateTold(r)
      PROVE  OneMemberPerFp'
  BY <1>6, UniqueKept DEF RotateTold
<1>7. CASE UNCHANGED vars
  BY <1>7, UniqueKept DEF vars, harborVars
<1>8. ASSUME NEW j \in joining, JoinMismatch(j)
      PROVE  OneMemberPerFp'
  BY <1>8, UniqueKept DEF JoinMismatch
<1>9. QED
  BY <1>1, <1>2, <1>3, <1>4, <1>5, <1>6, <1>7, <1>8 DEF Next

(* For any number of sockets, keys and join calls per socket: the duplicate *)
(* checks of user:join and key:rotate, made in the same synchronous block   *)
(* as the change they guard, keep fingerprints unique among members.        *)
THEOREM FingerprintsUnique == Spec => []OneMemberPerFp
<1>1. Init => OneMemberPerFp
  BY DEF Init, OneMemberPerFp
<1>2. QED
  BY <1>1, UniqueStep, TypedAlways, PTL DEF Spec

-------------------------------------------------------------------------------
(* A profile is made by the one join call of its socket. *)
OneJoin ==
  /\ \A s \in Sockets : user[s] # Nobody => joinCalls[s] = 1
  /\ \A j \in joining : user[j.sock] = Nobody /\ joinCalls[j.sock] = 1
  /\ \A i, j \in joining : i.sock = j.sock => i = j

(* One rotation is under way on a socket, from the key its profile has.     *)
OneRotation ==
  /\ \A r \in rotating : r.user[1] \in rotateUsed /\ user[r.user[1]] = r.user
  /\ \A r \in rotating : r.at = "proof" => fp[r.user] = r.from
  /\ \A q, r \in rotating : q.user[1] = r.user[1] => q = r

HeldFps == {FpOf(s) : s \in members}

(* In the record l, an identity that joined has departed since, or is held. *)
OnRecord(l, held) ==
  \A i \in 1..Len(l) : l[i].kind = "join" =>
    \/ \E m \in (i + 1)..Len(l) : Departs(l[m], l[i].fp)
    \/ l[i].fp \in held

Alternates(l) ==
  \A i, j \in 1..Len(l) :
    i < j /\ l[i].kind = "join" /\ l[j].kind = "join" /\ l[i].fp = l[j].fp
      => \E m \in (i + 1)..(j - 1) : Departs(l[m], l[i].fp)

RecordInv ==
  OneJoin /\ OneRotation /\ OnRecord(log, HeldFps) /\ Alternates(log)

(* An entry is added: it says of every identity no longer held that it has  *)
(* departed, and a join is of one that was not held and now is.             *)
LEMMA RecordGrows ==
  ASSUME NEW l \in Seq(Entries), NEW held, NEW held2, NEW e \in Entries,
         OnRecord(l, held), Alternates(l),
         \A k \in held \ held2 : Departs(e, k),
         e.kind = "join" => e.fp \notin held /\ e.fp \in held2
  PROVE  OnRecord(Append(l, e), held2) /\ Alternates(Append(l, e))
<1> DEFINE n == Len(l)
           l2 == Append(l, e)
<1>1. n \in Nat
  OBVIOUS
<1>2. Len(l2) = n + 1 /\ l2[n + 1] = e /\ \A i \in 1..n : l2[i] = l[i]
  OBVIOUS
<1>3. \A i \in 1..n : l[i].kind = "join" =>
        (\E m \in (i + 1)..n : Departs(l[m], l[i].fp)) \/ l[i].fp \in held
  BY DEF OnRecord
<1>4. \A i, j \in 1..n :
        i < j /\ l[i].kind = "join" /\ l[j].kind = "join" /\ l[i].fp = l[j].fp
          => \E m \in (i + 1)..(j - 1) : Departs(l[m], l[i].fp)
  BY DEF Alternates
<1> HIDE DEF n, l2
<1>5. OnRecord(l2, held2)
  <2> SUFFICES ASSUME NEW i \in 1..(n + 1), l2[i].kind = "join", l2[i].fp \notin held2
               PROVE  \E m \in (i + 1)..(n + 1) : Departs(l2[m], l2[i].fp)
    BY <1>2 DEF OnRecord
  <2>1. i # n + 1
    BY <1>2
  <2>2. i \in 1..n /\ l2[i] = l[i]
    BY <1>1, <1>2, <2>1
  <2>3. CASE l[i].fp \in held
    <3>1. Departs(e, l[i].fp)
      BY <2>2, <2>3
    <3>2. n + 1 \in (i + 1)..(n + 1)
      BY <1>1, <2>2
    <3>3. QED
      BY <1>2, <2>2, <3>1, <3>2
  <2>4. CASE \E m \in (i + 1)..n : Departs(l[m], l[i].fp)
    <3>1. PICK m \in (i + 1)..n : Departs(l[m], l[i].fp)
      BY <2>4
    <3>2. m \in 1..n /\ m \in (i + 1)..(n + 1)
      BY <1>1, <2>2
    <3>3. QED
      BY <1>2, <2>2, <3>1, <3>2
  <2>5. QED
    BY <1>3, <2>2, <2>3, <2>4
<1>6. Alternates(l2)
  <2> SUFFICES ASSUME NEW i \in 1..(n + 1), NEW j \in 1..(n + 1), i < j,
                      l2[i].kind = "join", l2[j].kind = "join", l2[i].fp = l2[j].fp
               PROVE  \E m \in (i + 1)..(j - 1) : Departs(l2[m], l2[i].fp)
    BY <1>2 DEF Alternates
  <2>1. i \in 1..n /\ l2[i] = l[i]
    BY <1>1, <1>2
  <2>2. \E m \in (i + 1)..(j - 1) : Departs(l[m], l[i].fp)
    <3>1. CASE j \in 1..n
      BY <1>2, <1>4, <2>1, <3>1
    <3>2. CASE j = n + 1
      <4>1. l[i].fp \notin held
        BY <1>2, <2>1, <3>2
      <4>2. (i + 1)..n = (i + 1)..(j - 1)
        BY <1>1, <3>2
      <4>3. QED
        BY <1>3, <2>1, <4>1, <4>2
    <3>3. QED
      BY <1>1, <3>1, <3>2
  <2>3. PICK m \in (i + 1)..(j - 1) : Departs(l[m], l[i].fp)
    BY <2>2
  <2>4. m \in 1..n
    BY <1>1, <2>1
  <2>5. QED
    BY <1>2, <2>1, <2>3, <2>4
<1>7. QED
  BY <1>5, <1>6 DEF l2

(* A step that records nothing and changes no member's fingerprint.         *)
LEMMA RecordKept ==
  ASSUME OnRecord(log, HeldFps), Alternates(log), UNCHANGED <<log, members, user, fp>>
  PROVE  OnRecord(log, HeldFps)' /\ Alternates(log)'
BY DEF OnRecord, Alternates, HeldFps, FpOf

LEMMA JoinFinishRecord ==
  ASSUME Typed, RecordInv, NEW j \in joining, NEW valid \in BOOLEAN, JoinFinish(j, valid)
  PROVE  RecordInv'
<1>1. CASE ~(valid /\ NotJoined(j.key))
  BY <1>1, RecordKept DEF JoinFinish, RecordInv, OneJoin, OneRotation, callVars
<1>2. CASE valid /\ NotJoined(j.key)
  <2> DEFINE s == j.sock
             p == <<s, j.n>>
             e == Entry("join", j.key, Nobody)
  <2>1. s \in Sockets /\ p \in Profile /\ p[1] = s /\ p # Nobody /\ j.key \in Keys
    BY NobodyIsNoProfile DEF Typed, TypeOK, Joining, Profile
  <2>2. /\ members' = members \cup {s} /\ user' = [user EXCEPT ![s] = p]
        /\ fp' = [fp EXCEPT ![p] = j.key] /\ log' = Append(log, e)
        /\ joining' = joining \ {j}
        /\ UNCHANGED <<rotating, joinCalls, rotateUsed>>
    BY <1>2 DEF JoinFinish, Admit, callVars
  <2>3. user[s] = Nobody /\ joinCalls[s] = 1
    BY DEF RecordInv, OneJoin
  <2>4. e \in Entries /\ e.kind = "join" /\ e.fp = j.key
    BY <2>1 DEF Entry, Entries
  <2> HIDE DEF s, p, e
  <2>5. \A q \in joining' : q \in joining /\ q.sock \in Sockets /\ q.sock # s
    BY <2>2 DEF s, RecordInv, OneJoin, Typed, TypeOK, Joining
  <2>6. OneJoin'
    <3>1. \A t \in Sockets : user'[t] # Nobody => joinCalls'[t] = 1
      BY <2>1, <2>2, <2>3 DEF RecordInv, OneJoin, Typed, TypeOK
    <3>2. \A q \in joining' : user'[q.sock] = Nobody /\ joinCalls'[q.sock] = 1
      BY <2>1, <2>2, <2>5 DEF RecordInv, OneJoin, Typed, TypeOK
    <3>3. \A q, r \in joining' : q.sock = r.sock => q = r
      BY <2>5 DEF RecordInv, OneJoin
    <3>4. QED
      BY <3>1, <3>2, <3>3 DEF OneJoin
  <2>7. OneRotation'
    <3>1. \A r \in rotating : r.user \in Profile /\ r.user[1] \in Sockets
                             /\ user[r.user[1]] = r.user
      BY DEF RecordInv, OneRotation, Typed, TypeOK, Rotating, Profile
    <3>2. \A r \in rotating : r.user[1] # s /\ r.user # p
      BY <2>1, <2>3, <3>1, NobodyIsNoProfile
    <3>3. \A r \in rotating : user'[r.user[1]] = r.user /\ fp'[r.user] = fp[r.user]
      BY <2>1, <2>2, <3>1, <3>2 DEF Typed, TypeOK
    <3>4. QED
      BY <2>2, <3>3 DEF RecordInv, OneRotation
  <2>8. s \notin members /\ \A t \in members : FpOf(t)' = FpOf(t)
    <3>1. s \notin members
      BY <2>3 DEF Typed, TypeOK
    <3>2. ASSUME NEW t \in members
          PROVE  FpOf(t)' = FpOf(t)
      <4>1. t \in Sockets /\ t # s /\ user[t] \in Profile /\ user[t][1] = t
        BY <3>1 DEF Typed, TypeOK
      <4>2. user'[t] = user[t] /\ user[t] # p
        BY <2>1, <2>2, <4>1 DEF Typed, TypeOK
      <4>3. QED
        BY <2>1, <2>2, <4>1, <4>2 DEF FpOf, Typed, TypeOK
    <3>3. QED
      BY <3>1, <3>2
  <2>9. FpOf(s)' = j.key
    BY <2>1, <2>2 DEF FpOf, Typed, TypeOK
  <2>10. HeldFps \ HeldFps' = {}
    BY <2>2, <2>8 DEF HeldFps
  <2>11. j.key \notin HeldFps /\ j.key \in HeldFps'
    BY <1>2, <2>2, <2>9 DEF HeldFps, NotJoined
  <2>12. OnRecord(log', HeldFps') /\ Alternates(log')
    BY <2>2, <2>4, <2>10, <2>11, RecordGrows DEF RecordInv, Typed, TypeOK
  <2>13. QED
    BY <2>6, <2>7, <2>12 DEF RecordInv
<1>3. QED
  BY <1>1, <1>2

LEMMA DisconnectRecord ==
  ASSUME Typed, RecordInv, NEW s \in Sockets, Disconnect(s)
  PROVE  RecordInv'
<1>1. OneJoin' /\ OneRotation'
  BY DEF Disconnect, RecordInv, OneJoin, OneRotation, callVars
<1>2. CASE user[s] = Nobody
  <2>1. s \notin members
    BY <1>2 DEF Typed, TypeOK
  <2>2. UNCHANGED <<log, members, user, fp>>
    BY <1>2, <2>1 DEF Disconnect
  <2>3. QED
    BY <1>1, <2>2, RecordKept DEF RecordInv
<1>3. CASE user[s] # Nobody
  <2> DEFINE e == Entry("leave", FpOf(s), Nobody)
  <2>1. e \in Entries /\ e.kind = "leave" /\ e.fp = FpOf(s)
    BY <1>3 DEF Typed, TypeOK, Entry, Entries
  <2>2. log' = Append(log, e) /\ members' = members \ {s} /\ UNCHANGED <<user, fp>>
    BY <1>3 DEF Disconnect
  <2> HIDE DEF e
  <2>3. \A k \in HeldFps \ HeldFps' : k = FpOf(s)
    BY <2>2 DEF HeldFps, FpOf
  <2>4. \A k \in HeldFps \ HeldFps' : Departs(e, k)
    BY <2>1, <2>3 DEF Departs
  <2>5. OnRecord(log', HeldFps') /\ Alternates(log')
    BY <2>1, <2>2, <2>4, RecordGrows DEF RecordInv, Typed, TypeOK
  <2>6. QED
    BY <1>1, <2>5 DEF RecordInv
<1>4. QED
  BY <1>2, <1>3

LEMMA VouchRecord ==
  ASSUME Typed, RecordInv, NEW v \in vouching, NEW passes \in BOOLEAN,
         VouchFinish(v, passes)
  PROVE  RecordInv'
<1>1. OneJoin' /\ OneRotation'
  BY DEF VouchFinish, RecordInv, OneJoin, OneRotation, callVars
<1>2. HeldFps' = HeldFps
  BY DEF VouchFinish, HeldFps, FpOf
<1>3. CASE log' = log
  BY <1>1, <1>3, RecordKept DEF VouchFinish, RecordInv
<1>4. CASE log' = Append(log, Vouched(v))
  <2> DEFINE e == Vouched(v)
  <2>1. v \in Vouching /\ fp[v.user] \in Keys
    BY DEF Typed, TypeOK, HeldProfiles
  <2>2. e \in Entries /\ e.kind = "vouch"
    BY <2>1, HeldKeys DEF Vouching, Vouched, Entries
  <2> HIDE DEF e
  <2>3. OnRecord(log', HeldFps') /\ Alternates(log')
    BY <1>2, <1>4, <2>2, RecordGrows DEF e, RecordInv, Typed, TypeOK
  <2>4. QED
    BY <1>1, <2>3 DEF RecordInv
<1>5. QED
  BY <1>3, <1>4 DEF VouchFinish

LEMMA RotateProvedRecord ==
  ASSUME Typed, RecordInv, NEW r \in rotating, NEW valid \in BOOLEAN,
         RotateProved(r, valid)
  PROVE  RecordInv'
<1>1. OneJoin' /\ UNCHANGED <<user, members, joinCalls, rotateUsed, joining>>
  BY DEF RotateProved, RecordInv, OneJoin, callVars
<1>2. CASE ~(valid /\ NotTaken(r))
  <2>1. rotating' = rotating \ {r} /\ UNCHANGED <<fp, log>>
    BY <1>2 DEF RotateProved
  <2>2. OneRotation'
    BY <1>1, <2>1 DEF RecordInv, OneRotation
  <2>3. QED
    BY <1>1, <2>1, <2>2, RecordKept DEF RecordInv
<1>3. CASE valid /\ NotTaken(r)
  <2> DEFINE s == r.user[1]
             e == Entry("rotate", r.from, r.to.fp)
             done == [r EXCEPT !.at = "append"]
  <2>1. s \in Sockets /\ r.user \in Profile /\ r.to.fp \in Keys /\ r.from \in Keys
        /\ user[s] = r.user /\ s \in rotateUsed
    BY SessionsAssumption DEF RecordInv, OneRotation, Typed, TypeOK, Rotating, Profile
  <2>2. /\ fp' = [fp EXCEPT ![r.user] = r.to.fp] /\ log' = Append(log, e)
        /\ rotating' = (rotating \ {r}) \cup {done}
    BY <1>3 DEF RotateProved, Adopt, TakeBundle
  <2>3. fp[r.user] = r.from
    BY DEF RotateProved, RecordInv, OneRotation
  <2>4. e \in Entries /\ e.kind = "rotate" /\ e.fp = r.from
    BY <2>1 DEF Entry, Entries
  <2>5. done.user = r.user /\ done.at = "append"
    BY DEF Typed, TypeOK, Rotating
  <2> HIDE DEF e, done
  <2>6. \A q \in rotating \ {r} : q.user[1] # s /\ q.user \in Profile /\ q.user # r.user
    BY DEF RecordInv, OneRotation, Typed, TypeOK, Rotating
  <2>7. OneRotation'
    <3>1. \A q \in rotating' : q.user[1] \in rotateUsed' /\ user'[q.user[1]] = q.user
      BY <1>1, <2>1, <2>2, <2>5 DEF RecordInv, OneRotation
    <3>2. \A q \in rotating' : q.at = "proof" => fp'[q.user] = q.from
      <4>1. \A q \in rotating \ {r} : fp'[q.user] = fp[q.user]
        BY <2>1, <2>2, <2>6 DEF Typed, TypeOK
      <4>2. QED
        BY <2>2, <2>5, <4>1 DEF RecordInv, OneRotation
    <3>3. \A q, t \in rotating' : q.user[1] = t.user[1] => q = t
      BY <2>2, <2>5, <2>6 DEF RecordInv, OneRotation
    <3>4. QED
      BY <3>1, <3>2, <3>3 DEF OneRotation
  <2>8. \A t \in members \ {s} : FpOf(t)' = FpOf(t)
    <3> SUFFICES ASSUME NEW t \in members \ {s} PROVE FpOf(t)' = FpOf(t)
      OBVIOUS
    <3>1. t \in Sockets /\ user[t] \in Profile /\ user[t][1] = t
      BY DEF Typed, TypeOK
    <3>2. user[t] # r.user
      BY <3>1
    <3>3. QED
      BY <1>1, <2>1, <2>2, <3>1, <3>2 DEF FpOf, Typed, TypeOK
  <2>9. \A k \in HeldFps \ HeldFps' : k = r.from
    <3>1. FpOf(s) = r.from
      BY <2>1, <2>3 DEF FpOf
    <3>2. QED
      BY <1>1, <2>8, <3>1 DEF HeldFps
  <2>10. \A k \in HeldFps \ HeldFps' : Departs(e, k)
    BY <2>4, <2>9 DEF Departs
  <2>11. OnRecord(log', HeldFps') /\ Alternates(log')
    BY <2>2, <2>4, <2>10, RecordGrows DEF RecordInv, Typed, TypeOK
  <2>12. QED
    BY <1>1, <2>7, <2>11 DEF RecordInv
<1>4. QED
  BY <1>2, <1>3

LEMMA StartsRecord ==
  ASSUME JoinsPerSocket = 1, Typed, RecordInv, NEW s \in Sockets,
         \/ \E k \in Keys : JoinStart(s, k)
         \/ \E bundle \in NewBundles : RotateStart(s, bundle)
  PROVE  RecordInv'
<1>1. OnRecord(log', HeldFps') /\ Alternates(log')
  <2>1. UNCHANGED <<log, members, user, fp>>
    BY DEF JoinStart, RotateStart
  <2>2. QED
    BY <2>1, RecordKept DEF RecordInv
<1>2. ASSUME NEW k \in Keys, JoinStart(s, k)
      PROVE  RecordInv'
  <2>1. joinCalls[s] = 0
    BY <1>2 DEF JoinStart, Typed, TypeOK
  <2>2. user[s] = Nobody /\ \A j \in joining : j.sock # s
    BY <2>1 DEF RecordInv, OneJoin
  <2>3. /\ joinCalls' = [joinCalls EXCEPT ![s] = 1]
        /\ joining' = joining \cup {[sock |-> s, n |-> 1, key |-> k]}
        /\ UNCHANGED <<user, fp, rotating, rotateUsed>>
    BY <1>2, <2>1 DEF JoinStart
  <2>4. OneRotation'
    BY <2>3 DEF RecordInv, OneRotation
  <2>5. OneJoin'
    <3>1. \A t \in Sockets : user'[t] # Nobody => joinCalls'[t] = 1
      BY <2>3 DEF RecordInv, OneJoin, Typed, TypeOK
    <3>2. \A j \in joining : j.sock \in Sockets
      BY DEF Typed, TypeOK, Joining
    <3>3. \A j \in joining' : user'[j.sock] = Nobody /\ joinCalls'[j.sock] = 1
      BY <2>2, <2>3, <3>2 DEF RecordInv, OneJoin, Typed, TypeOK
    <3>4. \A i, j \in joining' : i.sock = j.sock => i = j
      BY <2>2, <2>3 DEF RecordInv, OneJoin
    <3>5. QED
      BY <3>1, <3>3, <3>4 DEF OneJoin
  <2>6. QED
    BY <1>1, <2>4, <2>5 DEF RecordInv
<1>3. ASSUME NEW bundle \in NewBundles, RotateStart(s, bundle)
      PROVE  RecordInv'
  <2> DEFINE r == [user |-> user[s], from |-> FpOf(s), to |-> bundle, at |-> "proof"]
  <2>1. /\ s \notin rotateUsed /\ rotateUsed' = rotateUsed \cup {s}
        /\ rotating' = rotating \cup {r}
        /\ UNCHANGED <<user, fp, joining, joinCalls>>
    BY <1>3 DEF RotateStart
  <2>2. r.user = user[s] /\ user[s][1] = s /\ r.from = fp[user[s]]
    BY <1>3 DEF RotateStart, Listening, Typed, TypeOK, FpOf
  <2> HIDE DEF r
  <2>3. \A q \in rotating : q.user[1] # s
    BY <2>1 DEF RecordInv, OneRotation
  <2>4. OneRotation'
    BY <2>1, <2>2, <2>3 DEF RecordInv, OneRotation
  <2>5. OneJoin'
    BY <2>1 DEF RecordInv, OneJoin
  <2>6. QED
    BY <1>1, <2>4, <2>5 DEF RecordInv
<1>4. QED
  BY <1>2, <1>3

(* What the remaining steps leave alone is all that RecordInv is about.     *)
LEMMA OthersRecord ==
  ASSUME RecordInv, UNCHANGED <<log, members, user, fp, joinCalls, rotateUsed>>,
         joining' \subseteq joining, rotating' \subseteq rotating
  PROVE  RecordInv'
<1>1. OneJoin' /\ OneRotation'
  BY DEF RecordInv, OneJoin, OneRotation
<1>2. QED
  BY <1>1, RecordKept DEF RecordInv

LEMMA RecordStep ==
  ASSUME JoinsPerSocket = 1, Typed, RecordInv, [Next]_vars
  PROVE  RecordInv'
<1>1. ASSUME NEW s \in Sockets,
             \/ Connect(s) \/ ChallengeExpires(s) \/ Deliver(s) \/ DeliverTogether(s)
      PROVE  RecordInv'
  BY <1>1, OthersRecord DEF Connect, ChallengeExpires, Deliver, DeliverTogether,
                            harborVars, callVars
<1>2. ASSUME NEW s \in Sockets, NEW e \in Envelopes, VouchStart(s, e)
      PROVE  RecordInv'
  BY <1>2, OthersRecord DEF VouchStart
<1>3. ASSUME NEW r \in rotating, RotateTold(r)
      PROVE  RecordInv'
  BY <1>3, OthersRecord DEF RotateTold, callVars
<1>4. CASE UNCHANGED vars
  BY <1>4, OthersRecord DEF vars, harborVars, callVars
<1>5. ASSUME NEW j \in joining, JoinMismatch(j)
      PROVE  RecordInv'
  BY <1>5, OthersRecord DEF JoinMismatch, callVars
<1>6. QED
  BY <1>1, <1>2, <1>3, <1>4, <1>5, StartsRecord, JoinFinishRecord, DisconnectRecord,
     VouchRecord, RotateProvedRecord DEF Next

LEMMA RecordInit == Init => RecordInv
BY DEF Init, RecordInv, OneJoin, OneRotation, OnRecord, Alternates, Nobodies

(* When a socket makes one join call, as the SDK's do: whatever the number  *)
(* of sockets and keys, the record says of every identity that comes back   *)
(* how it went, through rotations, disconnects and joins that finish after  *)
(* the disconnect of their socket.  The strengthening is that whoever is on *)
(* record as joined and not as departed is held by a member.                *)
THEOREM RecordAlternates ==
  ASSUME JoinsPerSocket = 1
  PROVE  Spec => []JoinsAlternate
<1>1. Typed /\ RecordInv /\ [Next]_vars => RecordInv'
  BY RecordStep
<1>2. RecordInv => JoinsAlternate
  BY DEF RecordInv, Alternates, JoinsAlternate
<1>3. QED
  BY <1>1, <1>2, RecordInit, TypedAlways, PTL DEF Spec

-------------------------------------------------------------------------------
(* The record l says of a rotation to the identity k.                       *)
RotatedTo(l, k) == \E m \in 1..Len(l) : l[m].kind = "rotate" /\ l[m].what = k

(* A profile is made by a join call of its own. *)
FreshJoin ==
  /\ \A j \in joining : fp[<<j.sock, j.n>>] = Nobody /\ j.n <= joinCalls[j.sock]
  /\ \A i, j \in joining : i.sock = j.sock /\ i.n = j.n => i = j
  /\ \A p \in Profile : fp[p] # Nobody => p[2] <= joinCalls[p[1]]

(* The key a signature is checked under is the profile's key still, unless  *)
(* the record says of a rotation to the fingerprint the profile has by now. *)
CheckedUnder ==
  \A v \in vouching : jwk[v.user] = v.jwk \/ RotatedTo(log, fp[v.user])

Explained(l) ==
  \A i \in 1..Len(l) :
    l[i].kind = "vouch" /\ l[i].jwk # KeyOf[l[i].what]
      => \E m \in 1..(i - 1) : l[m].kind = "rotate" /\ l[m].what = l[i].fp

SignInv == FreshJoin /\ CheckedUnder /\ Explained(log)

(* An entry is added; a vouch that its key does not verify needs a rotation *)
(* on record.                                                               *)
LEMMA ExplainedGrows ==
  ASSUME NEW l \in Seq(Entries), NEW e \in Entries, Explained(l),
         e.kind = "vouch" /\ e.jwk # KeyOf[e.what] => RotatedTo(l, e.fp)
  PROVE  /\ Explained(Append(l, e))
         /\ \A k : RotatedTo(l, k) => RotatedTo(Append(l, e), k)
         /\ \A k : e.kind = "rotate" /\ e.what = k => RotatedTo(Append(l, e), k)
<1> DEFINE n == Len(l)
           l2 == Append(l, e)
<1>1. n \in Nat /\ Len(l2) = n + 1 /\ l2[n + 1] = e /\ \A i \in 1..n : l2[i] = l[i]
  BY AppendProperties
<1> HIDE DEF n, l2
<1>2. n + 1 \in 1..Len(l2) /\ \A i \in 1..n : i \in 1..Len(l2)
  BY <1>1
<1>3. Explained(l2)
  <2> SUFFICES ASSUME NEW i \in 1..(n + 1), l2[i].kind = "vouch",
                      l2[i].jwk # KeyOf[l2[i].what]
               PROVE  \E m \in 1..(i - 1) : l2[m].kind = "rotate" /\ l2[m].what = l2[i].fp
    BY <1>1 DEF Explained
  <2>1. CASE i = n + 1
    <3>1. PICK m \in 1..n : l[m].kind = "rotate" /\ l[m].what = e.fp
      BY <1>1, <2>1 DEF RotatedTo, n
    <3>2. i - 1 = n
      BY <1>1, <2>1
    <3> QED
      BY <1>1, <2>1, <3>1, <3>2
  <2>2. CASE i \in 1..n
    <3>1. PICK m \in 1..(i - 1) : l[m].kind = "rotate" /\ l[m].what = l[i].fp
      BY <1>1, <2>2 DEF Explained, n
    <3>2. m \in 1..n
      BY <1>1, <2>2
    <3> QED
      BY <1>1, <2>2, <3>1, <3>2
  <2> QED
    BY <1>1, <2>1, <2>2
<1>4. \A k : RotatedTo(l, k) => RotatedTo(l2, k)
  BY <1>1, <1>2 DEF RotatedTo, n
<1>5. \A k : e.kind = "rotate" /\ e.what = k => RotatedTo(l2, k)
  BY <1>1, <1>2 DEF RotatedTo
<1> QED
  BY <1>3, <1>4, <1>5 DEF l2

(* A step that changes no profile and checks no more signatures; what it    *)
(* records, if anything, is explained.                                      *)
LEMMA SignKept ==
  ASSUME Typed, SignInv, UNCHANGED <<fp, jwk, joinCalls>>,
         joining' \subseteq joining, vouching' \subseteq vouching,
         \/ log' = log
         \/ \E e \in Entries :
              /\ log' = Append(log, e)
              /\ e.kind = "vouch" /\ e.jwk # KeyOf[e.what] => RotatedTo(log, e.fp)
  PROVE  SignInv'
<1>1. FreshJoin'
  BY DEF SignInv, FreshJoin
<1>2. Explained(log') /\ \A k : RotatedTo(log, k) => RotatedTo(log', k)
  <2>1. log \in Seq(Entries) /\ Explained(log)
    BY DEF Typed, TypeOK, SignInv
  <2>2. CASE log' = log
    BY <2>1, <2>2
  <2>3. ASSUME NEW e \in Entries, log' = Append(log, e),
               e.kind = "vouch" /\ e.jwk # KeyOf[e.what] => RotatedTo(log, e.fp)
        PROVE  Explained(log') /\ \A k : RotatedTo(log, k) => RotatedTo(log', k)
    BY <2>1, <2>3, ExplainedGrows
  <2> QED
    BY <2>2, <2>3
<1>3. CheckedUnder'
  BY <1>2 DEF SignInv, CheckedUnder
<1> QED
  BY <1>1, <1>2, <1>3 DEF SignInv, Explained

LEMMA JoinFinishSigned ==
  ASSUME Typed, SignInv, NEW j \in joining, NEW valid \in BOOLEAN, JoinFinish(j, valid)
  PROVE  SignInv'
<1>1. CASE ~(valid /\ NotJoined(j.key))
  BY <1>1, SignKept DEF JoinFinish, callVars
<1>2. CASE valid /\ NotJoined(j.key)
  <2> DEFINE p == <<j.sock, j.n>>
             e == Entry("join", j.key, Nobody)
  <2>1. /\ p \in Profile /\ p[1] = j.sock /\ p[2] = j.n /\ fp[p] = Nobody
        /\ j.n <= joinCalls[j.sock]
    BY DEF Typed, TypeOK, Joining, Profile, SignInv, FreshJoin
  <2>2. /\ fp' = [fp EXCEPT ![p] = j.key] /\ jwk' = [jwk EXCEPT ![p] = j.key]
        /\ log' = Append(log, e) /\ joining' = joining \ {j}
        /\ UNCHANGED <<vouching, joinCalls>>
    BY <1>2 DEF JoinFinish, Admit, callVars
  <2>3. e \in Entries /\ e.kind = "join" /\ log \in Seq(Entries)
    BY DEF Typed, TypeOK, Joining, Entry, Entries
  <2>4. \A i \in joining' : i \in joining /\ <<i.sock, i.n>> # p
    BY <2>2 DEF SignInv, FreshJoin
  <2>5. \A v \in vouching : v.user \in Profile /\ v.user # p
    BY <2>1, NobodyIsNoProfile DEF Typed, TypeOK, HeldProfiles, Vouching
  <2>6. \A i \in joining : <<i.sock, i.n>> \in Profile
    BY DEF Typed, TypeOK, Joining, Profile
  <2> HIDE DEF p, e
  <2>7. \A q \in Profile : q # p => fp'[q] = fp[q] /\ jwk'[q] = jwk[q]
    BY <2>2 DEF Typed, TypeOK
  <2>8. FreshJoin'
    <3>1. \A i \in joining' : fp'[<<i.sock, i.n>>] = Nobody /\ i.n <= joinCalls'[i.sock]
      BY <2>2, <2>4, <2>6, <2>7 DEF SignInv, FreshJoin
    <3>2. \A i, k \in joining' : i.sock = k.sock /\ i.n = k.n => i = k
      BY <2>4 DEF SignInv, FreshJoin
    <3>3. \A q \in Profile : fp'[q] # Nobody => q[2] <= joinCalls'[q[1]]
      BY <2>1, <2>2, <2>7 DEF SignInv, FreshJoin
    <3> QED
      BY <3>1, <3>2, <3>3 DEF FreshJoin
  <2>9. Explained(log') /\ \A k : RotatedTo(log, k) => RotatedTo(log', k)
    BY <2>2, <2>3, ExplainedGrows DEF SignInv
  <2>10. CheckedUnder'
    BY <2>2, <2>5, <2>7, <2>9 DEF SignInv, CheckedUnder
  <2> QED
    BY <2>8, <2>9, <2>10 DEF SignInv, Explained
<1> QED
  BY <1>1, <1>2

LEMMA RotateProvedSigned ==
  ASSUME Typed, SignInv, NEW r \in rotating, NEW valid \in BOOLEAN, RotateProved(r, valid)
  PROVE  SignInv'
<1>1. CASE ~(valid /\ NotTaken(r))
  BY <1>1, SignKept DEF RotateProved, callVars
<1>2. CASE valid /\ NotTaken(r)
  <2> DEFINE e == Entry("rotate", r.from, r.to.fp)
  <2>1. r.user \in Profile /\ r.to.fp \in Keys /\ fp[r.user] # Nobody
    BY SessionsAssumption, NobodyIsNoProfile DEF Typed, TypeOK, HeldProfiles, Rotating
  <2>2. /\ fp' = [fp EXCEPT ![r.user] = r.to.fp] /\ jwk' = [jwk EXCEPT ![r.user] = r.to.key]
        /\ log' = Append(log, e) /\ UNCHANGED <<joining, vouching, joinCalls>>
    BY <1>2 DEF RotateProved, Adopt, TakeBundle, callVars
  <2>3. e \in Entries /\ e.kind = "rotate" /\ e.what = r.to.fp /\ log \in Seq(Entries)
    BY <2>1 DEF Typed, TypeOK, Rotating, Entry, Entries
  <2> HIDE DEF e
  <2>4. \A q \in Profile : q # r.user => fp'[q] = fp[q] /\ jwk'[q] = jwk[q]
    BY <2>2 DEF Typed, TypeOK
  <2>5. fp'[r.user] = r.to.fp
    BY <2>1, <2>2 DEF Typed, TypeOK
  <2>6. \A i \in joining : <<i.sock, i.n>> \in Profile /\ <<i.sock, i.n>> # r.user
    BY <2>1 DEF Typed, TypeOK, Joining, Profile, SignInv, FreshJoin
  <2>7. FreshJoin'
    BY <2>1, <2>2, <2>4, <2>6 DEF SignInv, FreshJoin
  <2>8. /\ Explained(log') /\ RotatedTo(log', r.to.fp)
        /\ \A k : RotatedTo(log, k) => RotatedTo(log', k)
    BY <2>2, <2>3, ExplainedGrows DEF SignInv
  <2>9. \A v \in vouching : v.user \in Profile
    BY DEF Typed, TypeOK, Vouching
  <2>10. CheckedUnder'
    BY <2>2, <2>4, <2>5, <2>8, <2>9 DEF SignInv, CheckedUnder
  <2> QED
    BY <2>7, <2>8, <2>10 DEF SignInv, Explained
<1> QED
  BY <1>1, <1>2

LEMMA SignStep ==
  ASSUME Typed, SignInv, [Next]_vars
  PROVE  SignInv'
<1>1. ASSUME NEW v \in vouching, NEW passes \in BOOLEAN, VouchFinish(v, passes)
      PROVE  SignInv'
  <2>1. v \in Vouching /\ v.user \in Profile /\ fp[v.user] \in Keys
    BY DEF Typed, TypeOK, HeldProfiles, Vouching
  <2>2. Vouched(v) \in Entries
    BY <2>1, HeldKeys DEF Vouching, Vouched, Entries
  <2>3. CASE log' = log
    BY <1>1, <2>3, SignKept DEF VouchFinish, callVars
  <2>4. CASE log' = Append(log, Vouched(v)) /\ KeyOf[v.env] = v.jwk
    <3>1. Vouched(v).jwk # KeyOf[Vouched(v).what] => RotatedTo(log, Vouched(v).fp)
      BY <2>4 DEF SignInv, CheckedUnder, Vouched
    <3> QED
      BY <1>1, <2>2, <2>4, <3>1, SignKept DEF VouchFinish, callVars
  <2> QED
    BY <1>1, <2>3, <2>4 DEF VouchFinish
<1>2. ASSUME NEW s \in Sockets, Disconnect(s)
      PROVE  SignInv'
  <2> DEFINE e == Entry("leave", FpOf(s), Nobody)
  <2>1. user[s] # Nobody => e \in Entries /\ e.kind = "leave"
    BY DEF Typed, TypeOK, Entry, Entries
  <2>2. log' = IF user[s] = Nobody THEN log ELSE Append(log, e)
    BY <1>2 DEF Disconnect
  <2>3. UNCHANGED <<fp, jwk, joinCalls, joining, vouching>>
    BY <1>2 DEF Disconnect, callVars
  <2> HIDE DEF e
  <2> QED
    BY <2>1, <2>2, <2>3, SignKept
<1>3. ASSUME NEW s \in Sockets, NEW k \in Keys, JoinStart(s, k)
      PROVE  SignInv'
  <2> DEFINE j == [sock |-> s, n |-> joinCalls[s] + 1, key |-> k]
  <2>1. /\ joinCalls[s] \in Nat /\ JoinsPerSocket \in Nat /\ joinCalls[s] + 1 <= JoinsPerSocket
        /\ \A t \in Sockets : joinCalls[t] \in Nat
    BY <1>3, SessionsAssumption DEF JoinStart, Typed, TypeOK
  <2>2. /\ joinCalls' = [joinCalls EXCEPT ![s] = @ + 1] /\ joining' = joining \cup {j}
        /\ UNCHANGED <<fp, jwk, vouching, log>>
    BY <1>3 DEF JoinStart
  <2>3. /\ joinCalls'[s] = joinCalls[s] + 1
        /\ \A t \in Sockets : t # s => joinCalls'[t] = joinCalls[t]
    BY <2>2 DEF Typed, TypeOK
  <2>4. <<s, joinCalls[s] + 1>> \in Profile /\ fp[<<s, joinCalls[s] + 1>>] = Nobody
    <3>1. <<s, joinCalls[s] + 1>> \in Profile
      BY <2>1 DEF Profile
    <3>2. ~(joinCalls[s] + 1 <= joinCalls[s])
      BY <2>1
    <3> QED
      BY <3>1, <3>2 DEF SignInv, FreshJoin
  <2>5. j.sock = s /\ j.n = joinCalls[s] + 1
    OBVIOUS
  <2> HIDE DEF j
  <2>6. \A i \in joining : /\ i.sock \in Sockets /\ i.n \in Nat
                           /\ i.n <= joinCalls'[i.sock]
                           /\ i.sock = s => i.n # joinCalls[s] + 1
    <3> SUFFICES ASSUME NEW i \in joining
                 PROVE  /\ i.sock \in Sockets /\ i.n \in Nat
                        /\ i.n <= joinCalls'[i.sock]
                        /\ i.sock = s => i.n # joinCalls[s] + 1
      OBVIOUS
    <3>0. i \in Joining
      BY DEF Typed, TypeOK
    <3>1. i.sock \in Sockets /\ i.n \in Nat /\ i.n <= joinCalls[i.sock]
      <4>1. i.sock \in Sockets /\ i.n \in 1..JoinsPerSocket
        BY <3>0 DEF Joining
      <4>2. i.n \in Nat
        BY <2>1, <4>1
      <4> QED
        BY <4>1, <4>2 DEF SignInv, FreshJoin
    <3>2. CASE i.sock = s
      <4>1. i.n <= joinCalls[s]
        BY <3>1, <3>2
      <4>2. i.n <= joinCalls[s] + 1 /\ i.n # joinCalls[s] + 1
        BY <2>1, <3>1, <4>1
      <4> QED
        BY <2>3, <3>1, <3>2, <4>2
    <3>3. CASE i.sock # s
      BY <2>3, <3>1, <3>3
    <3> QED
      BY <3>2, <3>3
  <2>7. \A q \in Profile : fp[q] # Nobody => q[2] <= joinCalls'[q[1]]
    <3> SUFFICES ASSUME NEW q \in Profile, fp[q] # Nobody
                 PROVE  q[2] <= joinCalls'[q[1]]
      OBVIOUS
    <3>1. q[1] \in Sockets /\ q[2] \in Nat /\ q[2] <= joinCalls[q[1]]
      BY DEF SignInv, FreshJoin, Profile
    <3>2. CASE q[1] = s
      <4>1. q[2] <= joinCalls[s]
        BY <3>1, <3>2
      <4>2. q[2] <= joinCalls[s] + 1
        BY <2>1, <3>1, <4>1
      <4> QED
        BY <2>3, <3>2, <4>2
    <3>3. CASE q[1] # s
      BY <2>3, <3>1, <3>3
    <3> QED
      BY <3>2, <3>3
  <2>8. FreshJoin'
    <3>1. ASSUME NEW i \in joining'
          PROVE  fp'[<<i.sock, i.n>>] = Nobody /\ i.n <= joinCalls'[i.sock]
      <4>1. CASE i \in joining
        BY <2>2, <2>6, <4>1 DEF SignInv, FreshJoin
      <4>2. CASE i = j
        <5>1. joinCalls[s] + 1 <= joinCalls'[s]
          BY <2>1, <2>3
        <5> QED
          BY <2>2, <2>4, <2>5, <4>2, <5>1
      <4> QED
        BY <2>2, <4>1, <4>2
    <3>2. \A i, m \in joining' : i.sock = m.sock /\ i.n = m.n => i = m
      BY <2>2, <2>5, <2>6 DEF SignInv, FreshJoin
    <3> QED
      BY <2>2, <2>7, <3>1, <3>2 DEF FreshJoin
  <2> QED
    BY <2>2, <2>8 DEF SignInv, CheckedUnder, Explained, RotatedTo
<1>4. ASSUME NEW s \in Sockets, NEW e \in Envelopes, VouchStart(s, e)
      PROVE  SignInv'
  <2>1. /\ UNCHANGED <<fp, jwk, joinCalls, joining, log>>
        /\ \A v \in vouching' : v \in vouching \/ v.jwk = jwk[v.user]
    BY <1>4 DEF VouchStart
  <2> QED
    BY <2>1 DEF SignInv, FreshJoin, CheckedUnder, Explained, RotatedTo
<1>5. ASSUME NEW j \in joining, JoinMismatch(j)
      PROVE  SignInv'
  BY <1>5, SignKept DEF JoinMismatch, callVars
<1>6. ASSUME \/ \E s \in Sockets :
                 \/ Connect(s) \/ ChallengeExpires(s) \/ Deliver(s) \/ DeliverTogether(s)
                 \/ \E bundle \in NewBundles : RotateStart(s, bundle)
             \/ \E r \in rotating : RotateTold(r)
             \/ UNCHANGED vars
      PROVE  SignInv'
  <2>1. UNCHANGED <<fp, jwk, joinCalls, joining, vouching, log>>
    BY <1>6 DEF Connect, ChallengeExpires, Deliver, DeliverTogether, RotateStart,
                RotateTold, vars, harborVars, callVars
  <2> QED
    BY <2>1, SignKept
<1> QED
  BY <1>1, <1>2, <1>3, <1>4, <1>5, <1>6, JoinFinishSigned, RotateProvedSigned DEF Next

LEMMA SignInit == Init => SignInv
BY DEF Init, SignInv, FreshJoin, CheckedUnder, Explained

(* For any number of sockets and join calls, and any bundles and envelopes, *)
(* whatever fingerprint they carry: a signature on record that does not     *)
(* verify under the key recorded beside it follows, on the record, the      *)
(* rotation to the identity it is recorded under.  The strengthening says   *)
(* this of the signatures still being checked, and that the profile of a    *)
(* join call is not held by anyone before the call is answered.             *)
THEOREM MissignedExplained == Spec => []MissignedAfterRotation
<1>1. Typed /\ SignInv /\ [Next]_vars => SignInv'
  BY SignStep
<1>2. SignInv => MissignedAfterRotation
  BY DEF SignInv, Explained, MissignedAfterRotation
<1>3. QED
  BY <1>1, <1>2, SignInit, TypedAlways, PTL DEF Spec

-------------------------------------------------------------------------------
(* What a client makes of the others, from what is on its way to it.        *)

(* What an event says of socket t: that it joined, or was there when the    *)
(* client did; that it left; that its key is another now.                   *)
Introduces(e, t) ==
  \/ e.kind = "ack" /\ e.id[t] # Nobody
  \/ e.kind = "peer:joined" /\ e.id = t

Leaves(e, t) == e.kind = "peer:left" /\ e.id = t
Rotates(e, t) == e.kind = "peer:rotated" /\ e.id = t
About(e, t) == Introduces(e, t) \/ Leaves(e, t) \/ Rotates(e, t)
FpIn(e, t) == IF e.kind = "ack" THEN e.id[t] ELSE e.fp

(* A client believes known of t and q is on its way to it.  It has not heard *)
(* of t and will not.                                                        *)
Unheard(q, known, t) ==
  known = Nobody /\ \A i \in 1..Len(q) : ~About(q[i], t)

(* It knows t before any rotation of t's arrives, and will know it.          *)
Present(q, known, t) ==
  /\ \A i \in 1..Len(q) : ~Leaves(q[i], t)
  /\ known # Nobody \/ \E i \in 1..Len(q) : Introduces(q[i], t)
  /\ \A i \in 1..Len(q) : Rotates(q[i], t) =>
       known # Nobody \/ \E j \in 1..Len(q) : j < i /\ Introduces(q[j], t)

(* It will have forgotten t: no introduction follows the farewell.           *)
Gone(q, known, t) ==
  \/ known = Nobody /\ \A i \in 1..Len(q) : ~Introduces(q[i], t)
  \/ \E i \in 1..Len(q) :
       /\ Leaves(q[i], t)
       /\ \A j \in 1..Len(q) : j > i => ~Introduces(q[j], t)

(* The last it hears of t is k. *)
Ends(q, known, t, k) ==
  \/ known = k /\ \A i \in 1..Len(q) : ~About(q[i], t)
  \/ \E i \in 1..Len(q) :
       /\ About(q[i], t) /\ FpIn(q[i], t) = k
       /\ \A j \in 1..Len(q) : j > i => ~About(q[j], t)

Announcing(t) == \E r \in rotating : r.user[1] = t /\ r.at = "append"

(* What the client on s will make of t, by what became of t. *)
View(s, t) ==
  LET q == inbox[s]
      known == roster[s][t]
  IN /\ t = s \/ user[t] = Nobody => Unheard(q, known, t)
     /\ t # s /\ t \in members =>
          Present(q, known, t) /\ (Announcing(t) \/ Ends(q, known, t, FpOf(t)))
     /\ t # s /\ t \notin members => Gone(q, known, t)

(* A client to which events are sent and that has lost none. *)
Hears(s) == Listening(s) /\ s \notin missed

(* Every such client has a true view of every socket, or will when it has  *)
(* received what was sent to it; nothing is sent to others.                *)
ViewInv ==
  /\ \A s \in Sockets : user[s] = Nobody => inbox[s] = <<>> /\ roster[s] = Nobodies
  /\ \A s \in Sockets : conn[s] = "new" => user[s] = Nobody /\ \A j \in joining : j.sock # s
  /\ \A s, t \in Sockets : Hears(s) => View(s, t)

(* An event says one thing of a socket. *)
LEMMA EventsExclude ==
  ASSUME NEW e \in Events, NEW t \in Sockets
  PROVE  /\ Introduces(e, t) => ~Leaves(e, t) /\ ~Rotates(e, t) /\ FpIn(e, t) # Nobody
         /\ Rotates(e, t) => ~Leaves(e, t) /\ FpIn(e, t) # Nobody
BY NobodyIsNoProfile DEF Events, Introduces, Leaves, Rotates, FpIn

LEMMA Appended ==
  ASSUME NEW q \in Seq(Events), NEW e \in Events
  PROVE  /\ Append(q, e) \in Seq(Events) /\ Len(q) \in Nat
         /\ Len(Append(q, e)) = Len(q) + 1 /\ Append(q, e)[Len(q) + 1] = e
         /\ \A i \in 1..Len(q) : Append(q, e)[i] = q[i]
BY AppendProperties

(* News of another socket changes nothing. *)
LEMMA ViewUnrelated ==
  ASSUME NEW q \in Seq(Events), NEW e \in Events, NEW known, NEW t, ~About(e, t)
  PROVE  /\ Unheard(q, known, t) => Unheard(Append(q, e), known, t)
         /\ Present(q, known, t) => Present(Append(q, e), known, t)
         /\ Gone(q, known, t) => Gone(Append(q, e), known, t)
         /\ \A k : Ends(q, known, t, k) => Ends(Append(q, e), known, t, k)
<1> DEFINE n == Len(q)
           q2 == Append(q, e)
<1>1. n \in Nat /\ Len(q2) = n + 1 /\ q2[n + 1] = e /\ \A i \in 1..n : q2[i] = q[i]
  BY Appended
<1> HIDE DEF n, q2
<1>2. \A i \in 1..(n + 1) : i \in 1..n \/ i = n + 1
  BY <1>1
<1>3. \A i \in 1..n : i \in 1..(n + 1)
  BY <1>1
<1>4. ~Introduces(e, t) /\ ~Leaves(e, t) /\ ~Rotates(e, t)
  BY DEF About
<1>5. Unheard(q, known, t) => Unheard(q2, known, t)
  BY <1>1, <1>2 DEF Unheard, n
<1>6. Present(q, known, t) => Present(q2, known, t)
  BY <1>1, <1>2, <1>3, <1>4 DEF Present, n
<1>7. Gone(q, known, t) => Gone(q2, known, t)
  BY <1>1, <1>2, <1>3, <1>4 DEF Gone, n
<1>8. \A k : Ends(q, known, t, k) => Ends(q2, known, t, k)
  BY <1>1, <1>2, <1>3 DEF Ends, n
<1>9. QED
  BY <1>5, <1>6, <1>7, <1>8 DEF q2

(* What is appended last is heard last. *)
LEMMA EndsWithLast ==
  ASSUME NEW q \in Seq(Events), NEW e \in Events, NEW known, NEW t, About(e, t)
  PROVE  Ends(Append(q, e), known, t, FpIn(e, t))
<1>1. /\ Len(q) + 1 \in 1..Len(Append(q, e)) /\ Append(q, e)[Len(q) + 1] = e
      /\ \A j \in 1..Len(Append(q, e)) : ~(j > Len(q) + 1)
  BY Appended
<1>2. QED
  BY <1>1 DEF Ends

(* A member's socket rotates, or one that left had a rotation announced.    *)
LEMMA ViewRotated ==
  ASSUME NEW q \in Seq(Events), NEW e \in Events, NEW known, NEW t \in Sockets,
         Rotates(e, t)
  PROVE  /\ Present(q, known, t) => Present(Append(q, e), known, t)
         /\ Gone(q, known, t) => Gone(Append(q, e), known, t)
<1> DEFINE n == Len(q)
           q2 == Append(q, e)
<1>1. n \in Nat /\ Len(q2) = n + 1 /\ q2[n + 1] = e /\ \A i \in 1..n : q2[i] = q[i]
  BY Appended
<1>2. ~Introduces(e, t) /\ ~Leaves(e, t)
  BY EventsExclude
<1> HIDE DEF n, q2
<1>3. \A i \in 1..(n + 1) : i \in 1..n \/ i = n + 1
  BY <1>1
<1>4. \A i \in 1..n : i \in 1..(n + 1) /\ i < n + 1
  BY <1>1
<1>5. Present(q, known, t) => Present(q2, known, t)
  BY <1>1, <1>2, <1>3, <1>4 DEF Present, n
<1>6. Gone(q, known, t) => Gone(q2, known, t)
  BY <1>1, <1>2, <1>3, <1>4 DEF Gone, n
<1>7. QED
  BY <1>5, <1>6 DEF q2

LEMMA ViewIntroduced ==
  ASSUME NEW q \in Seq(Events), NEW e \in Events, NEW known, NEW t \in Sockets,
         Introduces(e, t), Unheard(q, known, t)
  PROVE  Present(Append(q, e), known, t)
<1> DEFINE n == Len(q)
           q2 == Append(q, e)
<1>1. n \in Nat /\ Len(q2) = n + 1 /\ q2[n + 1] = e /\ \A i \in 1..n : q2[i] = q[i]
  BY Appended
<1>2. ~Leaves(e, t) /\ ~Rotates(e, t)
  BY EventsExclude
<1> HIDE DEF n, q2
<1>3. \A i \in 1..(n + 1) : i \in 1..n \/ i = n + 1
  BY <1>1
<1>4. n + 1 \in 1..(n + 1)
  BY <1>1
<1>5. \A i \in 1..(n + 1) : ~Leaves(q2[i], t) /\ ~Rotates(q2[i], t)
  BY <1>1, <1>2, <1>3 DEF Unheard, About, n
<1>6. Present(q2, known, t)
  BY <1>1, <1>4, <1>5 DEF Present
<1>7. QED
  BY <1>6 DEF q2

LEMMA ViewLeft ==
  ASSUME NEW q \in Seq(Events), NEW e \in Events, NEW known, NEW t, Leaves(e, t)
  PROVE  Gone(Append(q, e), known, t)
<1>1. /\ Len(q) + 1 \in 1..Len(Append(q, e)) /\ Append(q, e)[Len(q) + 1] = e
      /\ \A j \in 1..Len(Append(q, e)) : ~(j > Len(q) + 1)
  BY Appended
<1>2. QED
  BY <1>1 DEF Gone

(* What the listeners make of one event. *)
LEMMA RosterHears ==
  ASSUME NEW e \in Events, NEW t \in Sockets,
         NEW known \in [Sockets -> Keys \cup {Nobody}]
  PROVE  /\ Introduces(e, t) => Roster(known, e)[t] = FpIn(e, t)
         /\ Leaves(e, t) => Roster(known, e)[t] = Nobody
         /\ Rotates(e, t) => Roster(known, e)[t] = IF known[t] = Nobody THEN Nobody
                                                  ELSE FpIn(e, t)
         /\ ~About(e, t) => Roster(known, e)[t] = known[t]
<1>1. CASE e \in [kind : {"ack"}, id : [Sockets -> Keys \cup {Nobody}], fp : Keys]
  BY <1>1 DEF Roster, About, Introduces, Leaves, Rotates, FpIn
<1>2. CASE e \in [kind : {"peer:joined", "peer:rotated"}, id : Sockets, fp : Keys]
  BY <1>2 DEF Roster, About, Introduces, Leaves, Rotates, FpIn
<1>3. CASE e \in [kind : {"peer:left"}, id : Sockets, fp : {Nobody}]
  BY <1>3 DEF Roster, About, Introduces, Leaves, Rotates, FpIn
<1>4. QED
  BY <1>1, <1>2, <1>3 DEF Events

(* The oldest event arrives. *)
LEMMA ViewDelivered ==
  ASSUME NEW q \in Seq(Events), q # <<>>, NEW t \in Sockets,
         NEW known \in [Sockets -> Keys \cup {Nobody}]
  PROVE  LET now == Roster(known, Head(q))[t]
         IN /\ Unheard(q, known[t], t) => Unheard(Tail(q), now, t)
            /\ Present(q, known[t], t) => Present(Tail(q), now, t)
            /\ Gone(q, known[t], t) => Gone(Tail(q), now, t)
            /\ \A k : Present(q, known[t], t) /\ Ends(q, known[t], t, k)
                       => Ends(Tail(q), now, t, k)
<1> DEFINE h == Head(q)
           now == Roster(known, h)[t]
           n == Len(q)
           d == Tail(q)
<1>1. h \in Events /\ n \in Nat \ {0} /\ Len(d) = n - 1 /\ h = q[1]
      /\ \A i \in 1..(n - 1) : d[i] = q[i + 1]
  BY HeadTailProperties
<1>2. /\ Introduces(h, t) => now = FpIn(h, t) /\ now # Nobody /\ ~Leaves(h, t) /\ ~Rotates(h, t)
      /\ Leaves(h, t) => now = Nobody
      /\ Rotates(h, t) => now = (IF known[t] = Nobody THEN Nobody ELSE FpIn(h, t))
      /\ Rotates(h, t) => ~Leaves(h, t) /\ FpIn(h, t) # Nobody
      /\ ~About(h, t) => now = known[t]
  BY <1>1, RosterHears, EventsExclude
<1> HIDE DEF h, now, n, d
<1>3. /\ 1 \in 1..n
      /\ \A i \in 1..(n - 1) : i + 1 \in 1..n /\ i + 1 # 1
      /\ \A i \in 1..n : i = 1 \/ (i - 1 \in 1..(n - 1) /\ d[i - 1] = q[i])
      /\ \A i \in 1..n : \A j \in 1..(n - 1) : (j > i - 1) => (j + 1 > i)
      /\ \A i \in 1..n : \A j \in 1..(n - 1) : (i < j + 1) => (i - 1 < j)
      /\ \A i \in 1..n : ~(i < 1)
      /\ \A j \in 1..(n - 1) : j + 1 > 1
  BY <1>1
<1>4. Unheard(q, known[t], t) => Unheard(d, now, t)
  BY <1>1, <1>2, <1>3 DEF Unheard, n
<1>5. Present(q, known[t], t) => Present(d, now, t)
  <2> SUFFICES ASSUME Present(q, known[t], t) PROVE Present(d, now, t)
    OBVIOUS
  <2>1. \A i \in 1..n : ~Leaves(q[i], t)
    BY DEF Present, n
  <2>2. known[t] # Nobody => now # Nobody
    BY <1>1, <1>2, <1>3, <2>1 DEF About
  <2>3. \A i \in 1..n : Introduces(q[i], t) =>
          now # Nobody \/ (i - 1 \in 1..(n - 1) /\ Introduces(d[i - 1], t))
    BY <1>1, <1>2, <1>3
  <2>4. now # Nobody \/ \E i \in 1..(n - 1) : Introduces(d[i], t)
    BY <2>2, <2>3 DEF Present, n
  <2>5. ASSUME NEW i \in 1..(n - 1), Rotates(d[i], t)
        PROVE  now # Nobody \/ \E j \in 1..(n - 1) : j < i /\ Introduces(d[j], t)
    <3>1. Rotates(q[i + 1], t) /\ i + 1 \in 1..n
      BY <1>1, <1>3, <2>5
    <3>2. known[t] # Nobody \/ \E j \in 1..n : j < i + 1 /\ Introduces(q[j], t)
      BY <3>1 DEF Present, n
    <3>3. ASSUME NEW j \in 1..n, j < i + 1, Introduces(q[j], t)
          PROVE  now # Nobody \/ \E m \in 1..(n - 1) : m < i /\ Introduces(d[m], t)
      <4>1. j - 1 < i
        BY <1>3, <3>3
      <4>2. QED
        BY <2>3, <3>3, <4>1
    <3>4. QED
      BY <2>2, <3>2, <3>3
  <2>6. \A i \in 1..(n - 1) : ~Leaves(d[i], t)
    BY <1>1, <1>3, <2>1
  <2>7. QED
    BY <1>1, <2>4, <2>5, <2>6 DEF Present
<1>6. Gone(q, known[t], t) => Gone(d, now, t)
  <2>1. ASSUME known[t] = Nobody, \A i \in 1..n : ~Introduces(q[i], t)
        PROVE  Gone(d, now, t)
    <3>1. now = Nobody
      BY <1>1, <1>2, <1>3, <2>1 DEF About
    <3>2. \A i \in 1..(n - 1) : ~Introduces(d[i], t)
      BY <1>1, <1>3, <2>1
    <3>3. QED
      BY <1>1, <3>1, <3>2 DEF Gone
  <2>2. ASSUME NEW i \in 1..n, Leaves(q[i], t),
               \A j \in 1..n : j > i => ~Introduces(q[j], t)
        PROVE  Gone(d, now, t)
    <3>1. CASE i = 1
      <4>1. now = Nobody
        BY <1>1, <1>2, <2>2, <3>1
      <4>2. \A j \in 1..(n - 1) : ~Introduces(d[j], t)
        BY <1>1, <1>3, <2>2, <3>1
      <4>3. QED
        BY <1>1, <4>1, <4>2 DEF Gone
    <3>2. CASE i # 1
      <4>1. i - 1 \in 1..(n - 1) /\ Leaves(d[i - 1], t)
        BY <1>3, <2>2, <3>2
      <4>2. \A j \in 1..(n - 1) : j > i - 1 => ~Introduces(d[j], t)
        BY <1>1, <1>3, <2>2
      <4>3. QED
        BY <1>1, <4>1, <4>2 DEF Gone
    <3>3. QED
      BY <3>1, <3>2
  <2>3. QED
    BY <2>1, <2>2 DEF Gone, n
<1>7. ASSUME NEW k, Present(q, known[t], t), Ends(q, known[t], t, k)
      PROVE  Ends(d, now, t, k)
  <2>1. ASSUME known[t] = k, \A i \in 1..n : ~About(q[i], t)
        PROVE  Ends(d, now, t, k)
    <3>1. now = k /\ \A i \in 1..(n - 1) : ~About(d[i], t)
      BY <1>1, <1>2, <1>3, <2>1
    <3>2. QED
      BY <1>1, <3>1 DEF Ends
  <2>2. ASSUME NEW i \in 1..n, About(q[i], t), FpIn(q[i], t) = k,
               \A j \in 1..n : j > i => ~About(q[j], t)
        PROVE  Ends(d, now, t, k)
    <3>1. CASE i = 1
      <4>1. ~Leaves(h, t)
        BY <1>1, <1>3, <1>7 DEF Present, n
      <4>2. Rotates(h, t) => known[t] # Nobody
        BY <1>1, <1>3, <1>7 DEF Present, n
      <4>3. now = k
        BY <1>1, <1>2, <2>2, <3>1, <4>1, <4>2 DEF About
      <4>4. \A j \in 1..(n - 1) : ~About(d[j], t)
        BY <1>1, <1>3, <2>2, <3>1
      <4>5. QED
        BY <1>1, <4>3, <4>4 DEF Ends
    <3>2. CASE i # 1
      <4>1. i - 1 \in 1..(n - 1) /\ d[i - 1] = q[i]
        BY <1>3, <3>2
      <4>2. \A j \in 1..(n - 1) : j > i - 1 => ~About(d[j], t)
        BY <1>1, <1>3, <2>2
      <4>3. QED
        BY <1>1, <2>2, <4>1, <4>2 DEF Ends
    <3>3. QED
      BY <3>1, <3>2
  <2>3. QED
    BY <1>7, <2>1, <2>2 DEF Ends, n
<1>8. QED
  BY <1>4, <1>5, <1>6, <1>7 DEF now, d, h

-------------------------------------------------------------------------------
(* A step that says nothing of t to the client on s keeps its view of t.    *)
LEMMA ViewAlike ==
  ASSUME Typed, NEW s \in Sockets, NEW t \in Sockets, View(s, t),
         user[t]' = Nobody <=> user[t] = Nobody,
         t \in members' <=> t \in members,
         roster[s]' = roster[s],
         \/ inbox[s]' = inbox[s]
         \/ \E e \in Events : ~About(e, t) /\ inbox[s]' = Append(inbox[s], e),
         t # s => (Announcing(t) => Announcing(t)'),
         t # s /\ t \in members => FpOf(t)' = FpOf(t) \/ Announcing(t)'
  PROVE  View(s, t)'
<1> DEFINE q == inbox[s]
           known == roster[s][t]
<1>1. q \in Seq(Events)
  BY DEF Typed, TypeOK
<1>2. /\ Unheard(q, known, t) => Unheard(q', known, t)
      /\ Present(q, known, t) => Present(q', known, t)
      /\ Gone(q, known, t) => Gone(q', known, t)
      /\ \A k : Ends(q, known, t, k) => Ends(q', known, t, k)
  <2>1. CASE q' = q
    BY <2>1
  <2>2. ASSUME NEW e \in Events, ~About(e, t), q' = Append(q, e)
        PROVE  /\ Unheard(q, known, t) => Unheard(q', known, t)
               /\ Present(q, known, t) => Present(q', known, t)
               /\ Gone(q, known, t) => Gone(q', known, t)
               /\ \A k : Ends(q, known, t, k) => Ends(q', known, t, k)
    BY <1>1, <2>2, ViewUnrelated
  <2>3. QED
    BY <2>1, <2>2
<1>3. roster'[s][t] = known
  OBVIOUS
<1>4. /\ t = s \/ user[t] = Nobody => Unheard(q, known, t)
      /\ t # s /\ t \in members =>
           Present(q, known, t) /\ (Announcing(t) \/ Ends(q, known, t, FpOf(t)))
      /\ t # s /\ t \notin members => Gone(q, known, t)
  BY DEF View
<1> HIDE DEF known
<1>5. /\ t = s \/ user'[t] = Nobody => Unheard(inbox'[s], known, t)
      /\ t # s /\ t \in members' =>
           Present(inbox'[s], known, t)
           /\ (Announcing(t)' \/ Ends(inbox'[s], known, t, FpOf(t)'))
      /\ t # s /\ t \notin members' => Gone(inbox'[s], known, t)
  BY <1>2, <1>4
<1>6. QED
  BY <1>3, <1>5 DEF View

(* A step that sends nothing and delivers nothing.                          *)
LEMMA ViewsKept ==
  ASSUME Typed, ViewInv, UNCHANGED <<user, members, inbox, roster, missed>>,
         \A s \in Sockets : conn'[s] = "new" => conn[s] = "new",
         \A s \in Sockets : conn'[s] = "open" => conn[s] \in {"new", "open"},
         \A j \in joining' : j \in joining \/ conn'[j.sock] = "open",
         \A t \in Sockets : Announcing(t) => Announcing(t)',
         \A t \in members : FpOf(t)' = FpOf(t) \/ Announcing(t)'
  PROVE  ViewInv'
<1>1. \A s \in Sockets : conn'[s] = "new" =>
        user'[s] = Nobody /\ \A j \in joining' : j.sock # s
  BY DEF ViewInv
<1>2. ASSUME NEW s \in Sockets, NEW t \in Sockets, Hears(s)'
      PROVE  View(s, t)'
  <2>1. Hears(s)
    BY <1>2 DEF Hears, Listening, ViewInv
  <2>2. View(s, t)
    BY <2>1 DEF ViewInv
  <2>3. QED
    BY <2>2, ViewAlike
<1>3. \A s \in Sockets : user'[s] = Nobody => inbox'[s] = <<>> /\ roster'[s] = Nobodies
  BY DEF ViewInv
<1>4. QED
  BY <1>1, <1>2, <1>3 DEF ViewInv

LEMMA DeliverViews ==
  ASSUME Typed, ViewInv, NEW s \in Sockets, Deliver(s)
  PROVE  ViewInv'
<1>1. /\ inbox[s] # <<>> /\ inbox' = [inbox EXCEPT ![s] = Tail(@)]
      /\ roster' = [roster EXCEPT ![s] = Roster(@, Head(inbox[s]))]
      /\ UNCHANGED <<conn, joining, members, user, fp, rotating, missed>>
  BY DEF Deliver, harborVars
<1>2. /\ inbox[s] \in Seq(Events) /\ roster[s] \in [Sockets -> Keys \cup {Nobody}]
      /\ inbox'[s] = Tail(inbox[s]) /\ roster'[s] = Roster(roster[s], Head(inbox[s]))
      /\ \A u \in Sockets \ {s} : inbox'[u] = inbox[u] /\ roster'[u] = roster[u]
  BY <1>1 DEF Typed, TypeOK
<1>3. user[s] # Nobody
  BY <1>1 DEF ViewInv
<1>4. ASSUME NEW u \in Sockets, NEW t \in Sockets, Hears(u)'
      PROVE  View(u, t)'
  <2>1. View(u, t)
    BY <1>1, <1>4 DEF ViewInv, Hears, Listening
  <2>2. FpOf(t)' = FpOf(t) /\ Announcing(t)' = Announcing(t)
    BY <1>1 DEF FpOf, Announcing
  <2>3. CASE u # s
    BY <1>1, <1>2, <2>1, <2>2, <2>3, ViewAlike
  <2>4. CASE u = s
    <3> DEFINE q == inbox[s]
               known == roster[s][t]
               now == Roster(roster[s], Head(q))[t]
               k == FpOf(t)
    <3>1. /\ t = s \/ user[t] = Nobody => Unheard(q, known, t)
          /\ t # s /\ t \in members =>
               Present(q, known, t) /\ (Announcing(t) \/ Ends(q, known, t, k))
          /\ t # s /\ t \notin members => Gone(q, known, t)
      BY <2>1, <2>4 DEF View
    <3>2. /\ Unheard(q, known, t) => Unheard(Tail(q), now, t)
          /\ Present(q, known, t) => Present(Tail(q), now, t)
          /\ Gone(q, known, t) => Gone(Tail(q), now, t)
          /\ Present(q, known, t) /\ Ends(q, known, t, k) => Ends(Tail(q), now, t, k)
      BY <1>1, <1>2, ViewDelivered
    <3>3. inbox'[s] = Tail(q) /\ roster'[s][t] = now
      BY <1>2
    <3> HIDE DEF q, known, now, k
    <3>4. /\ t = s \/ user'[t] = Nobody => Unheard(inbox'[s], roster'[s][t], t)
          /\ t # s /\ t \in members' =>
               Present(inbox'[s], roster'[s][t], t)
               /\ (Announcing(t)' \/ Ends(inbox'[s], roster'[s][t], t, k))
          /\ t # s /\ t \notin members' => Gone(inbox'[s], roster'[s][t], t)
      BY <1>1, <2>2, <3>1, <3>2, <3>3
    <3>5. QED
      BY <2>2, <2>4, <3>4 DEF View, k
  <2>5. QED
    BY <2>3, <2>4
<1>5. \A u \in Sockets : user'[u] = Nobody => inbox'[u] = <<>> /\ roster'[u] = Nobodies
  BY <1>1, <1>2, <1>3 DEF ViewInv
<1>6. QED
  BY <1>1, <1>4, <1>5 DEF ViewInv

(* A client that loses an event has no view any more; the others keep theirs.*)
LEMMA DeliverTogetherViews ==
  ASSUME Typed, ViewInv, NEW s \in Sockets, DeliverTogether(s)
  PROVE  ViewInv'
<1>1. /\ Len(inbox[s]) > 1 /\ inbox[s] \in Seq(Events) /\ missed' = missed \cup {s}
      /\ \A u \in Sockets \ {s} : inbox'[u] = inbox[u] /\ roster'[u] = roster[u]
      /\ UNCHANGED <<conn, joining, members, user, fp, rotating>>
  BY DEF DeliverTogether, harborVars, Typed, TypeOK
<1>2. user[s] # Nobody
  BY <1>1, EmptySeq DEF ViewInv
<1>3. ASSUME NEW u \in Sockets, NEW t \in Sockets, Hears(u)'
      PROVE  View(u, t)'
  <2>1. u # s /\ View(u, t)
    BY <1>1, <1>3 DEF ViewInv, Hears, Listening
  <2>2. FpOf(t)' = FpOf(t) /\ Announcing(t)' = Announcing(t)
    BY <1>1 DEF FpOf, Announcing
  <2> QED
    BY <1>1, <2>1, <2>2, ViewAlike
<1>4. \A u \in Sockets : user'[u] = Nobody => inbox'[u] = <<>> /\ roster'[u] = Nobodies
  BY <1>1, <1>2 DEF ViewInv
<1>5. QED
  BY <1>1, <1>3, <1>4 DEF ViewInv

(* The socket whose join is answered hears of the members first of all, and *)
(* the others that it is there.                                             *)
LEMMA AdmitViews ==
  ASSUME Typed, RecordInv, ViewInv, NEW j \in joining, Admit(j),
         joining' = joining \ {j}, UNCHANGED <<conn, rotating, roster, missed>>
  PROVE  ViewInv'
<1> DEFINE s == j.sock
           p == <<s, j.n>>
           joined == Event("peer:joined", s, j.key)
           ack == Event("ack", Peers(s), j.key)
           told == [t \in Sockets |-> IF t # s /\ Listening(t)
                      THEN Append(inbox[t], joined) ELSE inbox[t]]
<1>1. s \in Sockets /\ p \in Profile /\ p # Nobody /\ j.key \in Keys
  BY NobodyIsNoProfile DEF Typed, TypeOK, Joining, Profile
<1>2. /\ members' = members \cup {s} /\ user' = [user EXCEPT ![s] = p]
      /\ fp' = [fp EXCEPT ![p] = j.key]
      /\ inbox' = IF conn[s] = "open" THEN [told EXCEPT ![s] = Append(@, ack)] ELSE told
  BY DEF Admit
<1>3. user[s] = Nobody /\ s \notin members /\ conn[s] # "new"
  BY <1>1 DEF RecordInv, OneJoin, Typed, TypeOK, ViewInv
<1>4. inbox[s] = <<>> /\ roster[s] = Nobodies
  BY <1>1, <1>3 DEF ViewInv
<1>5. joined \in Events /\ ack \in Events
  BY <1>1, PeersType DEF Event, Events
<1>6. /\ conn[s] = "open" => inbox'[s] = Append(<<>>, ack)
      /\ \A u \in Sockets \ {s} :
           inbox'[u] = IF Listening(u) THEN Append(inbox[u], joined) ELSE inbox[u]
  BY <1>1, <1>2, <1>3, <1>4
<1>7. /\ Introduces(joined, s) /\ FpIn(joined, s) = j.key
      /\ \A t \in Sockets \ {s} : ~About(joined, t)
      /\ \A t \in Sockets : ack.id[t] = Peers(s)[t]
      /\ ack.kind = "ack"
  BY DEF Event, Introduces, Leaves, Rotates, About, FpIn
<1> HIDE DEF joined, ack, told
<1>8. FpOf(s)' = j.key /\ \A t \in members : FpOf(t)' = FpOf(t)
  <2>1. FpOf(s)' = j.key
    BY <1>1, <1>2 DEF FpOf, Typed, TypeOK
  <2>2. ASSUME NEW t \in members
        PROVE  FpOf(t)' = FpOf(t)
    <3>1. t \in Sockets /\ t # s /\ user[t] \in Profile /\ user[t][1] = t
      BY <1>3 DEF Typed, TypeOK
    <3>2. user'[t] = user[t] /\ user[t] # p
      BY <1>1, <1>2, <3>1 DEF Typed, TypeOK
    <3>3. QED
      BY <1>1, <1>2, <3>1, <3>2 DEF FpOf, Typed, TypeOK
  <2>3. QED
    BY <2>1, <2>2
<1>9. /\ user'[s] = p /\ \A t \in Sockets \ {s} : user'[t] = user[t]
      /\ \A t \in Sockets : Announcing(t)' = Announcing(t)
  BY <1>1, <1>2 DEF Announcing, Typed, TypeOK
<1> HIDE DEF s, p
<1>10. ASSUME NEW t \in Sockets, conn[s] = "open"
       PROVE  View(s, t)'
  <2>1. inbox'[s] = Append(<<>>, ack) /\ <<>> \in Seq(Events) /\ roster'[s][t] = Nobody
    BY <1>4, <1>6, <1>10, EmptySeq DEF Nobodies
  <2>2. Unheard(<<>>, Nobody, t) /\ Gone(<<>>, Nobody, t)
    BY DEF Unheard, Gone
  <2>3. CASE t \in members
    <3>1. Peers(s)[t] = FpOf(t) /\ FpOf(t) \in Keys /\ t # s
      BY <1>3, <2>3 DEF Peers, Typed, TypeOK
    <3>2. Introduces(ack, t) /\ FpIn(ack, t) = FpOf(t)'
      BY <1>7, <1>8, <2>3, <3>1, NobodyIsNoProfile DEF Introduces, FpIn
    <3>3. About(ack, t)
      BY <3>2 DEF About
    <3>4. Present(inbox'[s], Nobody, t) /\ Ends(inbox'[s], Nobody, t, FpOf(t)')
      BY <1>5, <2>1, <2>2, <3>2, <3>3, ViewIntroduced, EndsWithLast
    <3>5. user'[t] # Nobody /\ t \in members'
      BY <1>2, <1>9, <2>3, <3>1 DEF Typed, TypeOK
    <3>6. QED
      BY <2>1, <3>1, <3>4, <3>5 DEF View
  <2>4. CASE t \notin members
    <3>1. ack.id[t] = Nobody
      BY <1>7, <2>4 DEF Peers
    <3>2. ~About(ack, t)
      BY <1>7, <3>1 DEF About, Introduces, Leaves, Rotates
    <3>3. Unheard(inbox'[s], Nobody, t) /\ Gone(inbox'[s], Nobody, t)
      BY <1>5, <2>1, <2>2, <3>2, ViewUnrelated
    <3>4. t # s => t \notin members'
      BY <1>2, <2>4
    <3>5. QED
      BY <2>1, <3>3, <3>4 DEF View
  <2>5. QED
    BY <2>3, <2>4
<1>11. ASSUME NEW u \in Sockets, u # s, Hears(u), NEW t \in Sockets
       PROVE  View(u, t)'
  <2>1. View(u, t) /\ inbox'[u] = Append(inbox[u], joined) /\ inbox[u] \in Seq(Events)
    BY <1>6, <1>11 DEF ViewInv, Hears, Typed, TypeOK
  <2>2. CASE t = s
    <3>1. Unheard(inbox[u], roster[u][s], s)
      BY <1>3, <2>1, <2>2 DEF View
    <3>2. About(joined, s)
      BY <1>7 DEF About
    <3>3. /\ Present(inbox'[u], roster[u][s], s)
          /\ Ends(inbox'[u], roster[u][s], s, FpOf(s)')
      BY <1>1, <1>5, <1>7, <1>8, <2>1, <3>1, <3>2, ViewIntroduced, EndsWithLast
    <3>4. user'[s] # Nobody /\ s \in members' /\ roster' = roster
      BY <1>1, <1>2, <1>9
    <3>5. QED
      BY <1>11, <2>2, <3>3, <3>4 DEF View
  <2>3. CASE t # s
    BY <1>2, <1>5, <1>7, <1>8, <1>9, <2>1, <2>3, ViewAlike
  <2>4. QED
    BY <2>2, <2>3
<1>12. ASSUME NEW u \in Sockets, NEW t \in Sockets, Hears(u)'
       PROVE  View(u, t)'
  <2>1. CASE u = s
    BY <1>10, <1>12, <2>1 DEF Hears, Listening
  <2>2. CASE u # s
    BY <1>9, <1>11, <1>12, <2>2 DEF Hears, Listening
  <2>3. QED
    BY <2>1, <2>2
<1>13. \A u \in Sockets : user'[u] = Nobody => inbox'[u] = <<>> /\ roster'[u] = Nobodies
  BY <1>1, <1>6, <1>9 DEF ViewInv, Listening
<1>14. \A u \in Sockets : conn'[u] = "new" =>
         user'[u] = Nobody /\ \A i \in joining' : i.sock # u
  BY <1>3, <1>9 DEF ViewInv
<1>15. QED
  BY <1>12, <1>13, <1>14 DEF ViewInv

LEMMA DisconnectViews ==
  ASSUME Typed, ViewInv, NEW s \in Sockets, Disconnect(s)
  PROVE  ViewInv'
<1> DEFINE left == Event("peer:left", s, Nobody)
<1>1. /\ conn' = [conn EXCEPT ![s] = "closed"] /\ members' = members \ {s}
      /\ UNCHANGED <<joining, user, fp, rotating, roster, missed>>
  BY DEF Disconnect
<1>2. /\ inbox'[s] = <<>>
      /\ \A u \in Sockets \ {s} :
           inbox'[u] = IF user[s] # Nobody /\ Listening(u)
                       THEN Append(inbox[u], left) ELSE inbox[u]
  BY DEF Disconnect
<1>3. left \in Events /\ Leaves(left, s) /\ \A t \in Sockets \ {s} : ~About(left, t)
  BY DEF Event, Events, Leaves, Introduces, Rotates, About
<1> HIDE DEF left
<1>4. \A t \in Sockets : FpOf(t)' = FpOf(t) /\ Announcing(t)' = Announcing(t)
  BY <1>1 DEF FpOf, Announcing
<1>5. ASSUME NEW u \in Sockets, NEW t \in Sockets, Hears(u)'
      PROVE  View(u, t)'
  <2>1. u # s /\ Hears(u) /\ Listening(u)
    BY <1>1, <1>5 DEF Hears, Listening, Typed, TypeOK
  <2>2. View(u, t) /\ inbox[u] \in Seq(Events)
    BY <2>1 DEF ViewInv, Typed, TypeOK
  <2>3. CASE t # s
    BY <1>1, <1>2, <1>3, <1>4, <2>1, <2>2, <2>3, ViewAlike
  <2>4. CASE t = s /\ user[s] = Nobody
    <3>1. s \notin members
      BY <2>4 DEF Typed, TypeOK
    <3>2. inbox'[u] = inbox[u]
      BY <1>2, <2>1, <2>4
    <3>3. QED
      BY <1>1, <1>4, <2>2, <2>4, <3>1, <3>2, ViewAlike
  <2>5. CASE t = s /\ user[s] # Nobody
    <3>1. inbox'[u] = Append(inbox[u], left)
      BY <1>2, <2>1, <2>5
    <3>2. Gone(inbox'[u], roster'[u][s], s)
      BY <1>3, <2>2, <3>1, ViewLeft
    <3>3. s \notin members' /\ user'[s] # Nobody
      BY <1>1, <2>5
    <3>4. QED
      BY <2>1, <2>5, <3>2, <3>3 DEF View
  <2>6. QED
    BY <2>3, <2>4, <2>5
<1>6. \A u \in Sockets : user'[u] = Nobody => inbox'[u] = <<>> /\ roster'[u] = Nobodies
  BY <1>1, <1>2 DEF ViewInv, Listening
<1>7. \A u \in Sockets : conn'[u] = "new" => conn[u] = "new"
  BY <1>1 DEF Typed, TypeOK
<1>8. QED
  BY <1>1, <1>5, <1>6, <1>7 DEF ViewInv

(* A rotation is told under the fingerprint its profile has by then.        *)
LEMMA RotateToldViews ==
  ASSUME Typed, RecordInv, ViewInv, NEW r \in rotating, RotateTold(r)
  PROVE  ViewInv'
<1> DEFINE s == r.user[1]
           told == Event("peer:rotated", s, fp[r.user])
<1>1. s \in Sockets /\ user[s] = r.user /\ r.user \in Profile /\ fp[r.user] \in Keys
  BY DEF Typed, TypeOK, HeldProfiles, Rotating, Profile, RecordInv, OneRotation
<1>2. /\ rotating' = rotating \ {r}
      /\ UNCHANGED <<conn, joining, members, user, fp, roster, missed>>
      /\ \A u \in Sockets : inbox'[u] = IF u # s /\ Listening(u)
                                        THEN Append(inbox[u], told) ELSE inbox[u]
  BY DEF RotateTold, Broadcast
<1>3. /\ told \in Events /\ Rotates(told, s) /\ FpIn(told, s) = FpOf(s)
      /\ \A t \in Sockets \ {s} : ~About(told, t)
  BY <1>1 DEF Event, Events, Leaves, Introduces, Rotates, About, FpIn, FpOf
<1>4. \A t \in Sockets : t # s => (Announcing(t) => Announcing(t)')
  BY <1>2 DEF Announcing
<1>5. user[s] # Nobody
  BY <1>1, NobodyIsNoProfile
<1> HIDE DEF s, told
<1>6. \A t \in Sockets : FpOf(t)' = FpOf(t)
  BY <1>2 DEF FpOf
<1>7. ASSUME NEW u \in Sockets, NEW t \in Sockets, Hears(u)'
      PROVE  View(u, t)'
  <2>1. Hears(u) /\ Listening(u)
    BY <1>2, <1>7 DEF Hears, Listening
  <2>2. View(u, t) /\ inbox[u] \in Seq(Events)
    BY <2>1 DEF ViewInv, Typed, TypeOK
  <2>3. CASE t # s \/ u = s
    <3>1. \/ inbox'[u] = inbox[u]
          \/ \E e \in Events : ~About(e, t) /\ inbox'[u] = Append(inbox[u], e)
      BY <1>2, <1>3, <2>1, <2>3
    <3>2. t # u => (Announcing(t) => Announcing(t)')
      BY <1>4, <2>3
    <3>3. QED
      BY <1>2, <1>6, <2>2, <3>1, <3>2, ViewAlike
  <2>4. CASE t = s /\ u # s
    <3>1. inbox'[u] = Append(inbox[u], told)
      BY <1>2, <2>1, <2>4
    <3>2. About(told, s)
      BY <1>3 DEF About
    <3>3. /\ Present(inbox[u], roster[u][s], s) => Present(inbox'[u], roster[u][s], s)
          /\ Gone(inbox[u], roster[u][s], s) => Gone(inbox'[u], roster[u][s], s)
          /\ Ends(inbox'[u], roster[u][s], s, FpOf(s))
      BY <1>1, <1>3, <2>2, <3>1, <3>2, ViewRotated, EndsWithLast
    <3>4. /\ s \in members => Present(inbox'[u], roster[u][s], s)
          /\ s \notin members => Gone(inbox'[u], roster[u][s], s)
      BY <2>2, <2>4, <3>3 DEF View
    <3>5. roster' = roster /\ members' = members /\ user' = user /\ FpOf(s)' = FpOf(s)
      BY <1>1, <1>2, <1>6
    <3>6. QED
      BY <1>5, <2>4, <3>3, <3>4, <3>5 DEF View
  <2>5. QED
    BY <2>3, <2>4
<1>8. \A u \in Sockets : user'[u] = Nobody => inbox'[u] = <<>> /\ roster'[u] = Nobodies
  BY <1>2 DEF ViewInv, Listening
<1>9. QED
  BY <1>2, <1>7, <1>8 DEF ViewInv

LEMMA RotateProvedViews ==
  ASSUME Typed, RecordInv, ViewInv, NEW r \in rotating, NEW valid \in BOOLEAN,
         RotateProved(r, valid)
  PROVE  ViewInv'
<1>1. r.at = "proof" /\ UNCHANGED <<conn, joining, members, user, inbox, roster, missed>>
  BY DEF RotateProved, clientVars
<1>2. CASE ~(valid /\ NotTaken(r))
  <2>1. rotating' = rotating \ {r} /\ fp' = fp
    BY <1>2 DEF RotateProved
  <2>2. \A t \in Sockets : (Announcing(t) => Announcing(t)') /\ FpOf(t)' = FpOf(t)
    BY <1>1, <2>1 DEF Announcing, FpOf
  <2>3. members \subseteq Sockets
    BY DEF Typed, TypeOK
  <2>4. QED
    BY <1>1, <2>2, <2>3, ViewsKept
<1>3. CASE valid /\ NotTaken(r)
  <2> DEFINE done == [r EXCEPT !.at = "append"]
  <2>1. fp' = [fp EXCEPT ![r.user] = r.to.fp] /\ rotating' = (rotating \ {r}) \cup {done}
    BY <1>3 DEF RotateProved, Adopt, TakeBundle
  <2>2. done.user = r.user /\ done.at = "append" /\ r.user \in Profile
    BY DEF Typed, TypeOK, Rotating
  <2> HIDE DEF done
  <2>3. \A t \in Sockets : Announcing(t) => Announcing(t)'
    BY <1>1, <2>1 DEF Announcing
  <2>4. Announcing(r.user[1])'
    BY <2>1, <2>2 DEF Announcing
  <2>5. ASSUME NEW t \in members
        PROVE  FpOf(t)' = FpOf(t) \/ Announcing(t)'
    <3>1. user[t] \in Profile /\ user[t][1] = t
      BY DEF Typed, TypeOK
    <3>2. CASE user[t] = r.user
      BY <2>4, <3>1, <3>2
    <3>3. CASE user[t] # r.user
      BY <1>1, <2>1, <2>2, <3>1, <3>3 DEF FpOf, Typed, TypeOK
    <3>4. QED
      BY <3>2, <3>3
  <2>6. QED
    BY <1>1, <2>3, <2>5, ViewsKept
<1>4. QED
  BY <1>2, <1>3

LEMMA ViewStep ==
  ASSUME Typed, RecordInv, ViewInv, [Next]_vars
  PROVE  ViewInv'
<1>0. ASSUME UNCHANGED <<user, members, fp, inbox, roster, missed>>,
             \A s \in Sockets : conn'[s] = "new" => conn[s] = "new",
             \A s \in Sockets : conn'[s] = "open" => conn[s] \in {"new", "open"},
             \A j \in joining' : j \in joining \/ conn'[j.sock] = "open",
             \A r \in rotating : r.at = "append" => r \in rotating'
      PROVE  ViewInv'
  <2>1. \A t \in Sockets : (Announcing(t) => Announcing(t)') /\ FpOf(t)' = FpOf(t)
    BY <1>0 DEF Announcing, FpOf
  <2>2. members \subseteq Sockets
    BY DEF Typed, TypeOK
  <2>3. QED
    BY <1>0, <2>1, <2>2, ViewsKept
<1>1. ASSUME NEW s \in Sockets, Connect(s)
      PROVE  ViewInv'
  BY <1>0, <1>1 DEF Connect, clientVars, Typed, TypeOK
<1>2. ASSUME NEW s \in Sockets, NEW k \in Keys, JoinStart(s, k)
      PROVE  ViewInv'
  BY <1>0, <1>2 DEF JoinStart, clientVars
<1>3. ASSUME NEW s \in Sockets, NEW bundle \in NewBundles, RotateStart(s, bundle)
      PROVE  ViewInv'
  BY <1>0, <1>3 DEF RotateStart, clientVars
<1>4. ASSUME NEW s \in Sockets, \/ ChallengeExpires(s)
                              \/ \E e \in Envelopes : VouchStart(s, e)
      PROVE  ViewInv'
  BY <1>0, <1>4 DEF ChallengeExpires, VouchStart, clientVars
<1>5. ASSUME NEW v \in vouching, NEW passes \in BOOLEAN, VouchFinish(v, passes)
      PROVE  ViewInv'
  BY <1>0, <1>5 DEF VouchFinish, clientVars
<1>6. ASSUME NEW j \in joining, NEW valid \in BOOLEAN, JoinFinish(j, valid)
      PROVE  ViewInv'
  <2>1. joining' = joining \ {j} /\ UNCHANGED <<conn, rotating, roster, missed>>
    BY <1>6 DEF JoinFinish
  <2>2. CASE valid /\ NotJoined(j.key)
    BY <1>6, <2>1, <2>2, AdmitViews DEF JoinFinish
  <2>3. CASE ~(valid /\ NotJoined(j.key))
    BY <1>0, <1>6, <2>1, <2>3 DEF JoinFinish
  <2>4. QED
    BY <2>2, <2>3
<1>7. CASE UNCHANGED vars
  BY <1>0, <1>7 DEF vars, harborVars, clientVars
<1>8. ASSUME NEW j \in joining, JoinMismatch(j)
      PROVE  ViewInv'
  BY <1>0, <1>8 DEF JoinMismatch, clientVars
<1>9. QED
  BY <1>1, <1>2, <1>3, <1>4, <1>5, <1>6, <1>7, <1>8, DeliverViews,
     DeliverTogetherViews, DisconnectViews,
     RotateProvedViews, RotateToldViews DEF Next

LEMMA ViewInit == Init => ViewInv
BY DEF Init, ViewInv, Hears, Listening, Nobodies

(* A client that has heard everything knows who is there. *)
LEMMA ViewsAgree ==
  ASSUME Typed, ViewInv
  PROVE  RosterIsMembers
<1> SUFFICES ASSUME NEW s \in Sockets, Hears(s), inbox[s] = <<>>,
                    \A r \in rotating : r.at = "proof"
             PROVE  roster[s] = Peers(s)
  BY DEF RosterIsMembers, Hears
<1>1. ASSUME NEW t \in Sockets
      PROVE  roster[s][t] = IF t \in members \ {s} THEN FpOf(t) ELSE Nobody
  <2>1. View(s, t) /\ ~Announcing(t)
    BY DEF ViewInv, Announcing
  <2>2. Len(inbox[s]) = 0 /\ 1..Len(inbox[s]) = {}
    BY EmptySeq
  <2>3. CASE t = s
    BY <2>1, <2>3 DEF View, Unheard
  <2>4. CASE t # s /\ t \in members
    BY <2>1, <2>2, <2>4 DEF View, Ends
  <2>5. CASE t # s /\ t \notin members
    BY <2>1, <2>2, <2>5 DEF View, Gone
  <2>6. QED
    BY <2>3, <2>4, <2>5
<1>2. roster[s] \in [Sockets -> Keys \cup {Nobody}]
  BY DEF Typed, TypeOK
<1>3. QED
  BY <1>1, <1>2 DEF Peers

(* When a socket makes one join call, as the SDK's do: a client that lost   *)
(* no event and has heard everything lists exactly the members, each under  *)
(* the fingerprint it has, however the joins, departures and rotations of   *)
(* the others overlapped, and those that were answered after their socket   *)
(* had closed.  The strengthening says, for every event still on its way,   *)
(* what hearing the rest will leave a client believing.                     *)
THEOREM RosterFollows ==
  ASSUME JoinsPerSocket = 1
  PROVE  Spec => []RosterIsMembers
<1>1. Typed /\ RecordInv /\ [Next]_vars => RecordInv'
  BY RecordStep
<1>2. Typed /\ RecordInv /\ ViewInv /\ [Next]_vars => ViewInv'
  BY ViewStep
<1>3. Typed /\ ViewInv => RosterIsMembers
  BY ViewsAgree
<1>4. QED
  BY <1>1, <1>2, <1>3, RecordInit, ViewInit, TypedAlways, PTL DEF Spec
===============================================================================
