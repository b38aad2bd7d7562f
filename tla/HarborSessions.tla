---------------------------- MODULE HarborSessions ----------------------------
(***************************************************************************)
(* Who is at the harbour: the presence, vouching and key-rotation handlers *)
(* of protocol/src/server/harbor.js, the replay guard of vh-crypto.js, and *)
(* the roster the SDK keeps from the harbour's broadcasts (vh-sdk.js).     *)
(*                                                                         *)
(* A handler runs synchronously up to its next await, which other handlers *)
(* may overlap, a disconnect of the same socket included.  The awaits that *)
(* matter are the three signature checks and, in key:rotate, the append.   *)
(* What is handed to the ledger's queue is recorded in that order (Ledger, *)
(* WindowIsFileEnd and RefinesAppendLog), so log lists the calls.          *)
(*                                                                         *)
(* A fingerprint is written as the key it is the fingerprint of.  user:join*)
(* computes it; the payload of an envelope and the bundle of a rotation    *)
(* carry one beside a key that it need not be the fingerprint of.  Whether *)
(* policy and trust rules pass an envelope is left open here.              *)
(***************************************************************************)
EXTENDS Naturals, Sequences

CONSTANTS
  Sockets,         \* socket ids; each is one connection and never used again
  Keys,            \* signing keys
  NewBundles,      \* bundles rotated to: a signing key and the fp beside it
  Envelopes,       \* signed envelopes
  KeyOf,           \* the key each envelope is signed with
  AuthorOf,        \* the fingerprint each names: from.fp, or agent.fp
  JoinsPerSocket,  \* user:join calls made on one socket (the SDK makes one)
  MaxCopies,       \* how often one envelope is submitted
  Nobody           \* no profile, no fingerprint

ASSUME SessionsAssumption ==
  /\ NewBundles \subseteq [key : Keys, fp : Keys]
  /\ KeyOf \in [Envelopes -> Keys]
  /\ AuthorOf \in [Envelopes -> Keys]
  /\ JoinsPerSocket \in Nat \ {0}
  /\ MaxCopies \in Nat \ {0}
  /\ Nobody \notin Keys
  /\ Nobody \notin Sockets \X (1..JoinsPerSocket)

VARIABLES
  conn,        \* the connection of each socket: "new", "open", "closed"
  challenges,  \* pendingChallenges: sockets with a challenge still good
  joinCalls,   \* user:join calls per socket
  joining,     \* join handlers awaiting the challenge signature
  members,     \* the keys of the members map; members[s] is user[s]
  user,        \* socket.data.user: the profile of each socket
  fp,          \* the fp of each profile object
  jwk,         \* its bundle.signJwk
  rotateUsed,  \* sockets whose one key:rotate per minute is spent
  rotating,    \* rotate handlers awaiting the proof or the append
  copies,      \* submissions made of each envelope
  vouching,    \* vouch handlers awaiting the envelope's signature
  seen,        \* nonces the replay guard remembers
  log,         \* what was handed to ledger.append, in order
  inbox,       \* events on their way to each joined client, oldest first
  roster,      \* client.peers: what each client believes of each socket
  missed       \* clients that lost an event before they listened

harborVars == <<challenges, joining, members, user, fp, jwk, rotating, vouching,
                seen, log>>
clientVars == <<inbox, roster, missed>>
callVars == <<joinCalls, rotateUsed, copies>>
vars == <<conn, harborVars, clientVars, callVars>>

Profile == Sockets \X (1..JoinsPerSocket)
Nobodies == [t \in Sockets |-> Nobody]

(* A system entry, and the link of a vouch with the key recorded in it.     *)
Entry(kind, who, what) == [kind |-> kind, fp |-> who, what |-> what, jwk |-> Nobody]
Vouched(v) ==
  [kind |-> "vouch", fp |-> fp[v.user], what |-> v.env, jwk |-> jwk[v.user]]
Event(kind, id, who) == [kind |-> kind, id |-> id, fp |-> who]

(* The fingerprint a member is listed under. *)
FpOf(s) == fp[user[s]]

(* The members as a joining client is told of them. *)
Peers(s) == [t \in Sockets |-> IF t \in members \ {s} THEN FpOf(t) ELSE Nobody]

(* The duplicate check of user:join. *)
NotJoined(k) == \A t \in members : FpOf(t) # k

(* Clients to which an event is sent: the SDK attaches its listeners on the *)
(* answer to its join, which is ahead of the event in the inbox.            *)
Listening(s) == conn[s] = "open" /\ user[s] # Nobody

Broadcast(event, sender) ==
  inbox' = [t \in Sockets |-> IF t # sender /\ Listening(t)
                              THEN Append(inbox[t], event) ELSE inbox[t]]

-------------------------------------------------------------------------------
Init ==
  /\ conn = [s \in Sockets |-> "new"]
  /\ challenges = {}
  /\ joinCalls = [s \in Sockets |-> 0]
  /\ joining = {}
  /\ members = {}
  /\ user = Nobodies
  /\ fp = [p \in Profile |-> Nobody]
  /\ jwk = [p \in Profile |-> Nobody]
  /\ rotateUsed = {}
  /\ rotating = {}
  /\ copies = [e \in Envelopes |-> 0]
  /\ vouching = {}
  /\ seen = {}
  /\ log = <<>>
  /\ inbox = [s \in Sockets |-> <<>>]
  /\ roster = [s \in Sockets |-> Nobodies]
  /\ missed = {}

(* io.on("connection"): a fresh challenge is sent. *)
Connect(s) ==
  /\ conn[s] = "new"
  /\ conn' = [conn EXCEPT ![s] = "open"]
  /\ challenges' = challenges \cup {s}
  /\ UNCHANGED <<joining, members, user, fp, jwk, rotating, vouching, seen, log,
                 clientVars, callVars>>

(* Thirty seconds pass; the sweeper may or may not have come by. *)
ChallengeExpires(s) ==
  /\ s \in challenges
  /\ challenges' = challenges \ {s}
  /\ UNCHANGED <<conn, joining, members, user, fp, jwk, rotating, vouching, seen,
                 log, clientVars, callVars>>

(* user:join up to its awaits: the challenge is looked up, the fingerprint  *)
(* is hashed and the signature over the challenge is verified.              *)
JoinStart(s, k) ==
  /\ conn[s] = "open"
  /\ s \in challenges
  /\ joinCalls[s] < JoinsPerSocket
  /\ joinCalls' = [joinCalls EXCEPT ![s] = @ + 1]
  /\ joining' = joining \cup {[sock |-> s, n |-> joinCalls[s] + 1, key |-> k]}
  /\ UNCHANGED <<conn, challenges, members, user, fp, jwk, rotating, vouching, seen,
                 log, clientVars, rotateUsed, copies>>

(* The profile is made, listed, acknowledged and announced, and the append  *)
(* of the "join" entry is called, all in one synchronous block.             *)
Admit(j) ==
  LET s == j.sock
      p == <<s, j.n>>
      told == [t \in Sockets |-> IF t # s /\ Listening(t)
                 THEN Append(inbox[t], Event("peer:joined", s, j.key))
                 ELSE inbox[t]]
  IN /\ members' = members \cup {s}
     /\ user' = [user EXCEPT ![s] = p]
     /\ fp' = [fp EXCEPT ![p] = j.key]
     /\ jwk' = [jwk EXCEPT ![p] = j.key]
     /\ log' = Append(log, Entry("join", j.key, Nobody))
     /\ inbox' = IF conn[s] = "open"
                 THEN [told EXCEPT ![s] = Append(@, Event("ack", Peers(s), j.key))]
                 ELSE told

(* The claimed fingerprint is not that of the bundle's key: the call is     *)
(* refused before the challenge is taken.                                   *)
JoinMismatch(j) ==
  /\ joining' = joining \ {j}
  /\ UNCHANGED <<conn, challenges, members, user, fp, jwk, rotating, vouching,
                 seen, log, clientVars, callVars>>

(* Variant: the second of two copies of a key is let in.                    *)
JoinFinish_NoDuplicateCheck(j, valid) ==
  /\ joining' = joining \ {j}
  /\ challenges' = challenges \ {j.sock}
  /\ IF valid THEN Admit(j) ELSE UNCHANGED <<members, user, fp, jwk, log, inbox>>
  /\ UNCHANGED <<conn, rotating, vouching, seen, roster, missed, callVars>>

(* user:join after its awaits.  Nothing asks whether the socket is still    *)
(* there.                                                                   *)
JoinFinish(j, valid) ==
  /\ joining' = joining \ {j}
  /\ challenges' = challenges \ {j.sock}
  /\ IF valid /\ NotJoined(j.key)
     THEN Admit(j)
     ELSE UNCHANGED <<members, user, fp, jwk, log, inbox>>
  /\ UNCHANGED <<conn, rotating, vouching, seen, roster, missed, callVars>>

(* Variant: only the others are told, the record is not. *)
Disconnect_Unrecorded(s) ==
  /\ conn[s] = "open"
  /\ conn' = [conn EXCEPT ![s] = "closed"]
  /\ challenges' = challenges \ {s}
  /\ members' = members \ {s}
  /\ inbox' = [t \in Sockets |->
       CASE t = s -> <<>>
         [] t # s /\ user[s] # Nobody /\ Listening(t) ->
              Append(inbox[t], Event("peer:left", s, Nobody))
         [] OTHER -> inbox[t]]
  /\ UNCHANGED <<joining, user, fp, jwk, rotating, vouching, seen, log, roster, missed,
                 callVars>>

(* disconnect: the socket's handlers that still await something go on. *)
Disconnect(s) ==
  /\ conn[s] = "open"
  /\ conn' = [conn EXCEPT ![s] = "closed"]
  /\ challenges' = challenges \ {s}
  /\ members' = members \ {s}
  /\ log' = IF user[s] = Nobody THEN log
            ELSE Append(log, Entry("leave", FpOf(s), Nobody))
  /\ inbox' = [t \in Sockets |->
       CASE t = s -> <<>>
         [] t # s /\ user[s] # Nobody /\ Listening(t) ->
              Append(inbox[t], Event("peer:left", s, Nobody))
         [] OTHER -> inbox[t]]
  /\ UNCHANGED <<joining, user, fp, jwk, rotating, vouching, seen, roster, missed, callVars>>

-------------------------------------------------------------------------------
(* vouch:submit up to its await: the guard has not seen the nonce; the      *)
(* signature is checked under the key the profile has now.                  *)
VouchStart(s, e) ==
  /\ Listening(s)
  /\ copies[e] < MaxCopies
  /\ copies' = [copies EXCEPT ![e] = @ + 1]
  /\ vouching' = IF e \in seen THEN vouching
                 ELSE vouching \cup {[user |-> user[s], env |-> e,
                                      jwk |-> jwk[user[s]], copy |-> copies[e] + 1]}
  /\ UNCHANGED <<conn, challenges, joining, members, user, fp, jwk, rotating, seen,
                 log, clientVars, joinCalls, rotateUsed>>

(* assertSignerBinding: the author the payload names is the profile's       *)
(* identity by now, whatever key the signature was checked under.           *)
SignerBound(v) == AuthorOf[v.env] = fp[v.user]

(* vouch:submit after its await.  The nonce is remembered only now.  passes *)
(* is the verdict of the policy and trust rules.                            *)
VouchFinish(v, passes) ==
  LET signed == KeyOf[v.env] = v.jwk
  IN /\ vouching' = vouching \ {v}
     /\ seen' = IF signed THEN seen \cup {v.env} ELSE seen
     /\ log' = IF signed /\ passes /\ SignerBound(v)
               THEN Append(log, Vouched(v)) ELSE log
     /\ UNCHANGED <<conn, challenges, joining, members, user, fp, jwk, rotating,
                    clientVars, callVars>>

-------------------------------------------------------------------------------
(* key:rotate up to the check of its proof. *)
RotateStart(s, bundle) ==
  /\ Listening(s)
  /\ s \notin rotateUsed
  /\ rotateUsed' = rotateUsed \cup {s}
  /\ rotating' = rotating \cup
       {[user |-> user[s], from |-> FpOf(s), to |-> bundle, at |-> "proof"]}
  /\ UNCHANGED <<conn, challenges, joining, members, user, fp, jwk, vouching, seen,
                 log, clientVars, joinCalls, copies>>

(* The check of key:rotate: no OTHER member has the new fingerprint. *)
NotTaken(r) == \A t \in members \ {r.user[1]} : FpOf(t) # r.to.fp

(* The profile takes the new bundle, and the fingerprint that is in it.     *)
TakeBundle(r) ==
  /\ fp' = [fp EXCEPT ![r.user] = r.to.fp]
  /\ jwk' = [jwk EXCEPT ![r.user] = r.to.key]

(* Variant: the fingerprint of the new bundle is not filled in. *)
Adopt_NoFp(r) ==
  /\ fp' = [fp EXCEPT ![r.user] = Nobody]
  /\ jwk' = [jwk EXCEPT ![r.user] = r.to.key]
  /\ log' = Append(log, Entry("rotate", r.from, r.to.fp))

(* Variant: the entry names the fingerprint the profile had, twice. *)
Adopt_RecordsOld(r) ==
  /\ TakeBundle(r)
  /\ log' = Append(log, Entry("rotate", r.from, FpOf(r.user[1])))

(* The bundle is adopted and the append of the "rotate" entry is called.    *)
Adopt(r) ==
  /\ TakeBundle(r)
  /\ log' = Append(log, Entry("rotate", r.from, r.to.fp))

(* key:rotate after its proof is checked; it then awaits the append.  The   *)
(* proof shows possession of the new key, and nothing of the fingerprint.   *)
RotateProved(r, valid) ==
  /\ r.at = "proof"
  /\ IF valid /\ NotTaken(r)
     THEN Adopt(r) /\ rotating' = (rotating \ {r}) \cup {[r EXCEPT !.at = "append"]}
     ELSE rotating' = rotating \ {r} /\ UNCHANGED <<fp, jwk, log>>
  /\ UNCHANGED <<conn, challenges, joining, members, user, vouching, seen,
                 clientVars, callVars>>

(* key:rotate after its append: the others are told. *)
RotateTold(r) ==
  /\ r.at = "append"
  /\ rotating' = rotating \ {r}
  /\ Broadcast(Event("peer:rotated", r.user[1], fp[r.user]), r.user[1])
  /\ UNCHANGED <<conn, challenges, joining, members, user, fp, jwk, vouching, seen,
                 log, roster, missed, callVars>>

-------------------------------------------------------------------------------
(* Variant: a rotation adds a peer that is not in the map. *)
Roster_RotatedAdds(known, event) ==
  CASE event.kind = "ack" ->
         [t \in Sockets |-> IF event.id[t] # Nobody THEN event.id[t] ELSE known[t]]
    [] event.kind = "peer:left" -> [known EXCEPT ![event.id] = Nobody]
    [] OTHER -> [known EXCEPT ![event.id] = event.fp]

(* What the SDK's listeners make of an event. *)
Roster(known, event) ==
  CASE event.kind = "ack" ->
         [t \in Sockets |-> IF event.id[t] # Nobody THEN event.id[t] ELSE known[t]]
    [] event.kind = "peer:joined" -> [known EXCEPT ![event.id] = event.fp]
    [] event.kind = "peer:left" -> [known EXCEPT ![event.id] = Nobody]
    [] event.kind = "peer:rotated" ->
         IF known[event.id] = Nobody THEN known
         ELSE [known EXCEPT ![event.id] = event.fp]

(* The transport delivers in order. *)
Deliver(s) ==
  /\ inbox[s] # <<>>
  /\ roster' = [roster EXCEPT ![s] = Roster(@, Head(inbox[s]))]
  /\ inbox' = [inbox EXCEPT ![s] = Tail(@)]
  /\ UNCHANGED <<conn, harborVars, missed, callVars>>

(* An event that arrives in one turn with the answer to the join is emitted *)
(* before the SDK resumes and attaches its listeners: nobody hears it.      *)
DeliverTogether(s) ==
  /\ Len(inbox[s]) > 1
  /\ Head(inbox[s]).kind = "ack"
  /\ roster' = [roster EXCEPT ![s] = Roster(@, Head(inbox[s]))]
  /\ inbox' = [inbox EXCEPT ![s] = Tail(Tail(@))]
  /\ missed' = missed \cup {s}
  /\ UNCHANGED <<conn, harborVars, callVars>>

Next ==
  \/ \E s \in Sockets :
       \/ Connect(s)
       \/ ChallengeExpires(s)
       \/ Disconnect(s)
       \/ Deliver(s)
       \/ DeliverTogether(s)
       \/ \E k \in Keys : JoinStart(s, k)
       \/ \E bundle \in NewBundles : RotateStart(s, bundle)
       \/ \E e \in Envelopes : VouchStart(s, e)
  \/ \E j \in joining : JoinMismatch(j)
  \/ \E j \in joining, valid \in BOOLEAN : JoinFinish(j, valid)
  \/ \E v \in vouching, passes \in BOOLEAN : VouchFinish(v, passes)
  \/ \E r \in rotating, valid \in BOOLEAN : RotateProved(r, valid)
  \/ \E r \in rotating : RotateTold(r)

Spec == Init /\ [][Next]_vars

-------------------------------------------------------------------------------
Joining == [sock : Sockets, n : 1..JoinsPerSocket, key : Keys]
Rotating == [user : Profile, from : Keys, to : NewBundles, at : {"proof", "append"}]
Vouching == [user : Profile, env : Envelopes, jwk : Keys, copy : 1..MaxCopies]
Entries == [kind : {"join", "leave"}, fp : Keys, what : {Nobody}, jwk : {Nobody}]
             \cup [kind : {"rotate"}, fp : Keys, what : Keys, jwk : {Nobody}]
             \cup [kind : {"vouch"}, fp : Keys, what : Envelopes, jwk : Keys]
Events == [kind : {"ack"}, id : [Sockets -> Keys \cup {Nobody}], fp : Keys]
            \cup [kind : {"peer:joined", "peer:rotated"}, id : Sockets, fp : Keys]
            \cup [kind : {"peer:left"}, id : Sockets, fp : {Nobody}]

(* The types of the state; a member has a profile and a profile a key. *)
TypeOK ==
  /\ conn \in [Sockets -> {"new", "open", "closed"}]
  /\ challenges \in SUBSET Sockets
  /\ joinCalls \in [Sockets -> 0..JoinsPerSocket]
  /\ joining \in SUBSET Joining
  /\ members \in SUBSET Sockets
  /\ user \in [Sockets -> Profile \cup {Nobody}]
  /\ fp \in [Profile -> Keys \cup {Nobody}]
  /\ jwk \in [Profile -> Keys \cup {Nobody}]
  /\ \A p \in Profile : fp[p] = Nobody <=> jwk[p] = Nobody
  /\ \A s \in Sockets : user[s] # Nobody => user[s][1] = s /\ FpOf(s) \in Keys
  /\ \A s \in members : user[s] # Nobody
  /\ rotateUsed \in SUBSET Sockets
  /\ rotating \in SUBSET Rotating
  /\ copies \in [Envelopes -> 0..MaxCopies]
  /\ vouching \in SUBSET Vouching
  /\ seen \in SUBSET Envelopes
  /\ log \in Seq(Entries)
  /\ inbox \in [Sockets -> Seq(Events)]
  /\ roster \in [Sockets -> [Sockets -> Keys \cup {Nobody}]]
  /\ missed \in SUBSET Sockets

(* No two members have the same fingerprint, however joins and rotations    *)
(* towards it overlap: what the duplicate checks of both handlers are for.  *)
OneMemberPerFp ==
  \A s, t \in members : s # t => FpOf(s) # FpOf(t)

Departs(entry, k) == entry.kind \in {"leave", "rotate"} /\ entry.fp = k

(* The record can be read as a history of presence: between two "join"      *)
(* entries of one fingerprint it says how the first one ended.              *)
JoinsAlternate ==
  \A i, j \in 1..Len(log) :
    i < j /\ log[i].kind = "join" /\ log[j].kind = "join" /\ log[i].fp = log[j].fp
      => \E m \in (i + 1)..(j - 1) : Departs(log[m], log[i].fp)

(* vh-binding.js: the cryptographic signer is the identity it claims to be. *)
(* A rotation while a signature is checked under the old key breaks that:   *)
(* the vouch is recorded beside the new key, under which it does not        *)
(* verify.  The record itself explains every such vouch: the rotation to    *)
(* its identity is recorded before it.                                      *)
MissignedAfterRotation ==
  \A i \in 1..Len(log) :
    log[i].kind = "vouch" /\ log[i].jwk # KeyOf[log[i].what]
      => \E m \in 1..(i - 1) : log[m].kind = "rotate" /\ log[m].what = log[i].fp

(* A client that has heard everything that was sent to it knows the members,*)
(* under the fingerprints they have, unless a rotation is yet to be told.   *)
RosterIsMembers ==
  \A s \in Sockets \ missed :
    Listening(s) /\ inbox[s] = <<>> /\ (\A r \in rotating : r.at = "proof")
      => roster[s] = Peers(s)
===============================================================================
