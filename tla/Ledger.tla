-------------------------------- MODULE Ledger --------------------------------
(***************************************************************************)
(* The harbour's ledger: protocol/src/server/ledger.js, the record and     *)
(* checkpoint functions of harbor.js that drive it, and checkpoints.js.    *)
(*                                                                         *)
(* Appends are chained on one promise queue; each stages its sequence      *)
(* number and previous hash, awaits the hash and the harbour's meta        *)
(* signature, and then commits to memory and writes its line in one        *)
(* synchronous block.  Every tenth link starts a checkpoint, whose         *)
(* signature is awaited while further appends commit.  The process may     *)
(* stop at any await, or inside the write.                                 *)
(*                                                                         *)
(* SHA-256 is ideal: the hash of a link IS the history it covers, the      *)
(* sequence of all payloads up to it, so that two hashes are equal exactly *)
(* when the histories are.  GENESIS covers nothing.                        *)
(***************************************************************************)
EXTENDS Integers, Sequences, FiniteSets

CONSTANTS
  Entries,          \* the entries handed to append (a payloadStr each)
  Shutdown,         \* who waits for the checkpoint close() signs
  Legacy,           \* payloads of the unsigned, pre-v0.9 links in the file
  ChainMemory,      \* config.chainMemory, the links kept in memory
  CheckpointEvery,  \* CHECKPOINT_EVERY
  RequireMetaSig,   \* config.requireMetaSig
  Missigned,        \* entries whose sig does not verify under the pubJwk they
                    \* come with (HarborSessions shows how the harbour hands
                    \* one to append: a rotation while a vouch is checked)
  Caught,           \* the rejections of append, "sign" or "write", that its
                    \* caller catches (no harbour handler catches any: there
                    \* a rejection ends the process; the self-test does)
  Cuts,             \* what a write that does not complete may leave behind
  MaxRestarts       \* bound on restarts

ASSUME LedgerAssumption ==
  /\ Shutdown \notin Entries
  /\ Legacy \in Seq(Entries)
  /\ ChainMemory \in Nat \ {0}
  /\ CheckpointEvery \in Nat \ {0}
  /\ RequireMetaSig \in BOOLEAN
  /\ Missigned \subseteq Entries
  /\ Caught \subseteq {"sign", "write"}
  /\ Cuts \subseteq {"none", "partial", "unterminated", "whole"}
  /\ MaxRestarts \in Nat

VARIABLES
  up,        \* the process runs
  disk,      \* ledger.jsonl: the links a reader can parse, in order
  tail,      \* how the file ends: "clean"; "open", the last link has no
             \* newline; "broken", what follows those links does not parse
  seq,       \* this.seq
  links,     \* this.links, the newest ChainMemory links
  firstMeta, \* this._firstMetaSigSeq, 0 for null
  queue,     \* this._queue: entries whose _appendOne has not started
  running,   \* the _appendOne calls that staged and now await
  sinceCp,   \* linksSinceCheckpoint
  signing,   \* signCheckpoint calls awaiting their signature
  closing,   \* close() was called (the bound: once in a process)
  cps,       \* checkpoints.jsonl (and CheckpointStore.items)
  asked,     \* entries ever handed to append
  acked,     \* entries whose record() resolved
  refused,   \* entries whose record() rejected
  restarts

vars == <<up, disk, tail, seq, links, firstMeta, queue, running, sinceCp,
          signing, closing, cps, asked, acked, refused, restarts>>

GENESIS == <<>>

Link == [seq : Nat, prev : Seq(Entries), hash : Seq(Entries),
         payload : Entries, metaSig : BOOLEAN]
Staged == [payload : Entries, seq : Nat, prev : Seq(Entries)]
Statement == [seq : Nat, head : Seq(Entries)]
Signing == [seq : Nat, head : Seq(Entries), by : Entries \cup {Shutdown}]

(* The payloads of the first n links: what an intact hash of link n covers. *)
Covered(d, n) == [i \in 1..n |-> d[i].payload]

LegacyFile ==
  [n \in 1..Len(Legacy) |->
     [seq |-> n, payload |-> Legacy[n], metaSig |-> FALSE,
      prev |-> [i \in 1..(n - 1) |-> Legacy[i]],
      hash |-> [i \in 1..n |-> Legacy[i]]]]

(* get lastHash *)
LastHash == IF links = <<>> THEN GENESIS ELSE links[Len(links)].hash

(* Variant: the window is cut one link early. *)
Push_OffByOne(w, link) ==
  IF Len(w) + 1 >= ChainMemory THEN Tail(Append(w, link)) ELSE Append(w, link)

(* push, then shift once the window is over its limit *)
Push(w, link) ==
  IF Len(w) + 1 > ChainMemory THEN Tail(Append(w, link)) ELSE Append(w, link)

(* The newest ChainMemory links of a file, as init leaves them in memory. *)
Window(d) ==
  LET lost == IF Len(d) > ChainMemory THEN Len(d) - ChainMemory ELSE 0
  IN  [i \in 1..(Len(d) - lost) |-> d[lost + i]]

SignaturesHold(d) == \A n \in 1..Len(d) : d[n].payload \notin Missigned

(* The links that carry a metaSig, and the first of them. *)
MetaSigned(d) == {n \in 1..Len(d) : d[n].metaSig}
FirstSigned(d) ==
  IF MetaSigned(d) = {} THEN 0
  ELSE CHOOSE n \in MetaSigned(d) : \A m \in MetaSigned(d) : n <= m

(* The checks init makes of every line: its place, its hash, the payload's  *)
(* signature under the key recorded beside it, and, once a link has carried *)
(* one, a metaSig.  A metaSig the harbour made verifies.                    *)
Accepts(d) ==
  /\ \A n \in 1..Len(d) :
       /\ d[n].seq = n
       /\ d[n].prev = IF n = 1 THEN GENESIS ELSE d[n - 1].hash
       /\ d[n].hash = Append(d[n].prev, d[n].payload)
  /\ SignaturesHold(d)
  /\ RequireMetaSig =>
       \A m, n \in 1..Len(d) : m < n /\ d[m].metaSig => d[n].metaSig

-------------------------------------------------------------------------------
MemoryAfterStart(d) ==
  /\ seq' = Len(d)
  /\ links' = Window(d)
  /\ firstMeta' = FirstSigned(d)
  /\ UNCHANGED <<queue, running, sinceCp, signing, closing>>

(* Nothing in memory outlives the process. *)
MemoryLost ==
  /\ seq' = 0
  /\ links' = <<>>
  /\ firstMeta' = 0
  /\ queue' = <<>>
  /\ running' = {}
  /\ sinceCp' = 0
  /\ signing' = {}
  /\ closing' = FALSE

Init ==
  /\ up = FALSE
  /\ disk = LegacyFile
  /\ tail = "clean"
  /\ seq = 0
  /\ links = <<>>
  /\ firstMeta = 0
  /\ queue = <<>>
  /\ running = {}
  /\ sinceCp = 0
  /\ signing = {}
  /\ closing = FALSE
  /\ cps = <<>>
  /\ asked = {Legacy[n] : n \in 1..Len(Legacy)}
  /\ acked = {}
  /\ refused = {}
  /\ restarts = 0

(* createHarbor: init reads the whole file and throws on the first line it  *)
(* cannot accept, in which case no harbour starts.                          *)
Start ==
  /\ ~up
  /\ restarts <= MaxRestarts
  /\ tail # "broken"
  /\ Accepts(disk)
  /\ up' = TRUE
  /\ restarts' = restarts + 1
  /\ MemoryAfterStart(disk)
  /\ UNCHANGED <<disk, tail, cps, asked, acked, refused>>

(* Variant: the submitter is told before the entry is written. *)
Submit_AcksAtOnce(e) ==
  /\ up
  /\ e \notin asked
  /\ asked' = asked \cup {e}
  /\ acked' = acked \cup {e}
  /\ queue' = Append(queue, e)
  /\ UNCHANGED <<up, disk, tail, seq, links, firstMeta, running, sinceCp,
                 signing, closing, cps, refused, restarts>>

(* append: the call joins the promise queue. *)
Submit(e) ==
  /\ up
  /\ e \notin asked
  /\ asked' = asked \cup {e}
  /\ queue' = Append(queue, e)
  /\ UNCHANGED <<up, disk, tail, seq, links, firstMeta, running, sinceCp,
                 signing, closing, cps, acked, refused, restarts>>

(* Variant: appends are not chained, each starts when it is called. *)
QueueFree_Unchained == TRUE

(* this._queue.then: the one before has settled. *)
QueueFree == running = {}

(* _appendOne up to its first await.  Only the two awaits, of the hash and  *)
(* of the signature, follow, with nothing shared read between them.         *)
Stage ==
  /\ up
  /\ queue # <<>>
  /\ QueueFree
  /\ running' = running \cup
       {[payload |-> Head(queue), seq |-> seq + 1, prev |-> LastHash]}
  /\ queue' = Tail(queue)
  /\ UNCHANGED <<up, disk, tail, seq, links, firstMeta, sinceCp, signing, closing,
                 cps, asked, acked, refused, restarts>>

LinkOf(r, signed) ==
  [seq |-> r.seq, prev |-> r.prev, hash |-> Append(r.prev, r.payload),
   payload |-> r.payload, metaSig |-> signed]

(* A missing signature is an error only under requireMetaSig. *)
MaySign(signed) == signed \/ ~RequireMetaSig

CommitToMemory(r, link) ==
  /\ seq' = r.seq
  /\ links' = Push(links, link)
  /\ firstMeta' = IF firstMeta = 0 /\ link.metaSig THEN r.seq ELSE firstMeta
  /\ running' = running \ {r}

(* Variant: the file is rewritten from the window in memory. *)
Write_FromWindow(link, cut) ==
  /\ disk' = IF cut = "whole" THEN Push(links, link) ELSE disk
  /\ tail' = IF cut = "whole" THEN "clean" ELSE tail

(* appendLine: the bytes go after whatever the file ends with.  A line     *)
(* written after one that lacks its newline takes that one with it.        *)
Write(link, cut) ==
  /\ disk' = CASE cut = "none" \/ tail = "broken" -> disk
               [] cut # "none" /\ tail = "open" -> SubSeq(disk, 1, Len(disk) - 1)
               [] cut = "partial" /\ tail = "clean" -> disk
               [] OTHER -> Append(disk, link)
  /\ tail' = CASE cut = "none" -> tail
               [] cut # "none" /\ tail # "clean" -> "broken"
               [] cut = "partial" /\ tail = "clean" -> "broken"
               [] cut = "unterminated" /\ tail = "clean" -> "open"
               [] OTHER -> "clean"

(* _appendOne after its awaits, the whole write, and what record does when  *)
(* it resumes: count the link and, at the tenth, build a checkpoint         *)
(* statement from the ledger as it now is; otherwise the submitter is told. *)
Commit(r, signed) ==
  LET link == LinkOf(r, signed)
      due == sinceCp + 1 >= CheckpointEvery
  IN /\ up
     /\ MaySign(signed)
     /\ CommitToMemory(r, link)
     /\ Write(link, "whole")
     /\ sinceCp' = sinceCp + 1
     /\ signing' = IF due THEN signing \cup
                     {[seq |-> r.seq, head |-> link.hash, by |-> r.payload]}
                   ELSE signing
     /\ acked' = IF due THEN acked ELSE acked \cup {r.payload}
     /\ UNCHANGED <<up, queue, closing, cps, asked, refused, restarts>>

(* The signature fails under requireMetaSig and the caller catches it. *)
SignFails(r) ==
  /\ up
  /\ RequireMetaSig
  /\ "sign" \in Caught
  /\ running' = running \ {r}
  /\ refused' = refused \cup {r.payload}
  /\ UNCHANGED <<up, disk, tail, seq, links, firstMeta, queue, sinceCp, signing,
                 closing, cps, asked, acked, restarts>>

(* appendFileSync or fsync throws, or the machine stops inside the write:   *)
(* memory has already advanced.                                             *)
WriteFails(r, signed, cut) ==
  LET link == LinkOf(r, signed)
  IN /\ up
     /\ MaySign(signed)
     /\ Write(link, cut)
     /\ IF "write" \in Caught
        THEN /\ CommitToMemory(r, link)
             /\ refused' = refused \cup {r.payload}
             /\ UNCHANGED <<up, queue, sinceCp, signing, closing>>
        ELSE up' = FALSE /\ MemoryLost /\ UNCHANGED refused
     /\ UNCHANGED <<cps, asked, acked, restarts>>

(* Variant: the length is read when the signature arrives. *)
Stored_LateLength(s) == [seq |-> seq, head |-> s.head]

(* Variant: the statement names the head and forgets which link it is. *)
Stored_HeadOnly(s) == [head |-> s.head]

(* checkpointStore.append: the statement as it was when it was built. *)
Stored(s) == [seq |-> s.seq, head |-> s.head]

(* Variant: a statement older than a stored one is dropped, and with it the *)
(* call that waits for it.                                                  *)
CheckpointSigned_DropsStale(s) ==
  /\ up
  /\ signing' = signing \ {s}
  /\ IF \E k \in 1..Len(cps) : cps[k].seq > s.seq
     THEN UNCHANGED <<cps, sinceCp, acked>>
     ELSE /\ cps' = Append(cps, Stored(s))
          /\ sinceCp' = 0
          /\ acked' = acked \cup {s.by}
  /\ UNCHANGED <<up, disk, tail, seq, links, firstMeta, queue, running, closing,
                 asked, refused, restarts>>

(* signCheckpoint resumes: the statement is stored, the counter is reset,   *)
(* and the record call that waited, if one did, resolves.                   *)
CheckpointSigned(s) ==
  /\ up
  /\ cps' = Append(cps, Stored(s))
  /\ signing' = signing \ {s}
  /\ sinceCp' = 0
  /\ acked' = acked \cup ({s.by} \ {Shutdown})
  /\ UNCHANGED <<up, disk, tail, seq, links, firstMeta, queue, running, closing,
                 asked, refused, restarts>>

(* close(): a last checkpoint, if there is anything to attest.  What comes  *)
(* after it, io.close and the "leave" entries its disconnects append, are   *)
(* Submits; the exit that follows is a Crash.                               *)
Close ==
  /\ up
  /\ seq > 0
  /\ ~closing
  /\ closing' = TRUE
  /\ signing' = signing \cup {[seq |-> seq, head |-> LastHash, by |-> Shutdown]}
  /\ UNCHANGED <<up, disk, tail, seq, links, firstMeta, queue, running, sinceCp,
                 cps, asked, acked, refused, restarts>>

(* The process ends between two synchronous blocks: killed, or a rejection  *)
(* (a failed signature) that no handler catches.                            *)
Crash ==
  /\ up
  /\ up' = FALSE
  /\ MemoryLost
  /\ UNCHANGED <<disk, tail, cps, asked, acked, refused, restarts>>

Next ==
  \/ Start
  \/ \E e \in Entries : Submit(e)
  \/ Stage
  \/ \E r \in running, signed \in BOOLEAN : Commit(r, signed)
  \/ \E r \in running : SignFails(r)
  \/ \E r \in running, signed \in BOOLEAN, cut \in Cuts : WriteFails(r, signed, cut)
  \/ \E s \in signing : CheckpointSigned(s)
  \/ Close
  \/ Crash

Spec == Init /\ [][Next]_vars

(* The event loop runs what is ready and the crypto thread pool answers.    *)
Fairness ==
  /\ WF_vars(Stage)
  /\ WF_vars(\E r \in running, signed \in BOOLEAN : Commit(r, signed))
  /\ \A e \in Entries :
       WF_vars(\E s \in signing : s.by = e /\ CheckpointSigned(s))

FairSpec == Spec /\ Fairness

-------------------------------------------------------------------------------
(* The types of the state. *)
TypeOK ==
  /\ up \in BOOLEAN
  /\ disk \in Seq(Link)
  /\ tail \in {"clean", "open", "broken"}
  /\ seq \in Nat
  /\ links \in Seq(Link)
  /\ firstMeta \in Nat
  /\ queue \in Seq(Entries)
  /\ running \in SUBSET Staged
  /\ sinceCp \in Nat
  /\ signing \in SUBSET Signing
  /\ closing \in BOOLEAN
  /\ cps \in Seq(Statement)
  /\ asked \in SUBSET Entries
  /\ acked \in SUBSET Entries
  /\ refused \in SUBSET Entries
  /\ restarts \in Nat

(* Whatever interleaving of appends wrote the file, and wherever the        *)
(* process stopped, the next start accepts it (init throws on nothing),     *)
(* with two exceptions: a write that was cut inside a line, and an entry    *)
(* the harbour handed to append whose signature does not verify under the   *)
(* key it came with.  One such link, and no harbour starts on the file.     *)
FileOpensIfSigned == tail # "broken" /\ SignaturesHold(disk) => Accepts(disk)

(* An entry whose submitter got { ok: true } is in the file, through every  *)
(* crash and restart: the fsync precedes the ack.                           *)
AckedIsDurable ==
  \A e \in acked : \E n \in 1..Len(disk) : disk[n].payload = e

(* While the harbour runs, the window every trust decision reads is the     *)
(* end of the file: the gates never judge by a link the file does not hold, *)
(* and no link of the file is passed over.                                  *)
WindowIsFileEnd == up => seq = Len(disk) /\ links = Window(disk)

(* Every checkpoint handed out is true of the file: the head it names is    *)
(* the hash of the link it names, however many appends committed and        *)
(* whatever crashed while its signature was awaited.                        *)
CheckpointsTrue ==
  \A k \in 1..Len(cps) :
    /\ cps[k].seq \in 1..Len(disk)
    /\ cps[k].head = Covered(disk, cps[k].seq)

(* An entry that joined the queue is recorded or refused, unless the        *)
(* process stops: no checkpoint race and no failed signature strands it.    *)
EverySubmitSettles ==
  \A e \in Entries :
    (\E i \in 1..Len(queue) : queue[i] = e) ~> (e \in acked \cup refused \/ ~up)

Log == INSTANCE AppendLog WITH
  Initial <- Legacy,
  log <- Covered(disk, Len(disk)),
  promised <- acked,
  attested <- {cps[k].head : k \in 1..Len(cps)}

(* The ledger implements an append-only log: crashes, torn lines and        *)
(* overlapping checkpoints never remove, reorder or rewrite a recorded      *)
(* entry, promise one that is not recorded, or attest another history.      *)
RefinesAppendLog == Log!Spec
===============================================================================
