-------------------------- MODULE LedgerVerifyProofs --------------------------
(***************************************************************************)
(* Proofs about LedgerVerify: how far what chain:verify says of the window *)
(* can be off, and by what.  The invariant of the ledger (LedgerProofs)    *)
(* says what the window is between two steps; what is new here is the walk *)
(* over it, whose awaited hash may be of a link that has moved since.      *)
(***************************************************************************)
EXTENDS LedgerVerify, LedgerProofs

(* Consecutive links whose hashes recompute. *)
Chained(w) ==
  /\ \A n \in 1..Len(w) : w[n].hash = Append(w[n].prev, w[n].payload)
  /\ \A n \in 2..Len(w) : w[n].prev = w[n - 1].hash

Walk == [at : {"off", "links", "signatures"}, i : Nat, total : Nat, intact : Nat,
         recomputed : Seq(Entries), signed : BOOLEAN, grown : Nat, moved : Nat]

VerifyTypeOK ==
  /\ walk \in Walk
  /\ verdict \in [ok : BOOLEAN, total : Nat, intact : Nat, grown : Nat, moved : Nat]

(* n hashes were compared: a link each was found intact, but for one at     *)
(* least, and one a move at most, once the window has moved.                *)
Counted(w, n) ==
  /\ w.intact <= n /\ n <= w.intact + w.moved
  /\ w.moved > 0 => w.intact < n

(* The hash that is awaited is of the link at the walk's position, or the   *)
(* window has moved since its input was read: it is of an earlier link,     *)
(* with a shorter history, and will not be found intact.                    *)
AwaitInv ==
  /\ walk.i \in 1..(Len(links) - 1)
  /\ walk.total + walk.grown = Len(links) - 1
  /\ \/ /\ walk.recomputed = Recompute(walk.i)
        /\ Counted(walk, walk.i - 1)
     \/ /\ Len(walk.recomputed) < Len(Recompute(walk.i))
        /\ Counted(walk, walk.i)
        /\ walk.intact < walk.i

WalkInv ==
  /\ walk.at # "off" => up
  /\ walk.at = "links" => AwaitInv
  /\ walk.at = "signatures" =>
       /\ Counted(walk, walk.total + walk.grown)
       /\ ~walk.signed => ~SignaturesHold(disk)

VInv == IInv /\ VerifyTypeOK /\ WalkInv /\ VerdictOffByOverlaps

-------------------------------------------------------------------------------
(* What the ledger's invariant says of the window.                           *)

(* The window of a chain in full is chained.                                 *)
LEMMA ChainedWindow ==
  ASSUME NEW d \in Seq(Link), FileChain(d)
  PROVE  Chained(Window(d))
<1> DEFINE w == Window(d)
<1>0. /\ w \in Seq(Link)
      /\ Len(w) = IF Len(d) > ChainMemory THEN ChainMemory ELSE Len(d)
      /\ \A i \in 1..Len(w), k \in 1..Len(d) : k - i = Len(d) - Len(w) => w[i] = d[k]
  BY WindowContents
<1> HIDE DEF w
<1> DEFINE o == Len(d) - Len(w)
<1>1. /\ Len(w) \in Nat /\ Len(d) \in Nat
      /\ Len(w) = IF Len(d) > ChainMemory THEN ChainMemory ELSE Len(d)
      /\ \A i \in 1..Len(w), k \in 1..Len(d) : k - i = o => w[i] = d[k]
  BY <1>0
<1>2. o \in Nat /\ \A i \in 1..Len(w) : o + i \in 1..Len(d)
  <2>1. ChainMemory \in Nat
    BY LedgerAssumption
  <2>2. /\ Len(w) \in Nat /\ Len(d) \in Nat
        /\ Len(w) = IF Len(d) > ChainMemory THEN ChainMemory ELSE Len(d)
    BY <1>1
  <2>3. Len(w) <= Len(d)
    BY <2>1, <2>2
  <2>4. QED
    BY <2>2, <2>3
<1>3. \A i \in 1..Len(w) : w[i] = d[o + i]
  BY <1>1, <1>2
<1> HIDE DEF o
<1>4. \A k \in 1..Len(d) : d[k].hash = Append(d[k].prev, d[k].payload)
  BY CoveredStep DEF FileChain
<1>5. \A k \in 1..Len(d) : k # 1 => d[k].prev = d[k - 1].hash
  <2> TAKE k \in 1..Len(d)
  <2>1. k # 1 => k - 1 \in 1..Len(d)
    OBVIOUS
  <2>2. QED
    BY <2>1 DEF FileChain
<1>6. \A n \in 2..Len(w) : w[n].prev = w[n - 1].hash
  <2> TAKE n \in 2..Len(w)
  <2>1. n \in 1..Len(w) /\ n - 1 \in 1..Len(w)
    BY <1>1
  <2>2. o + n # 1 /\ (o + n) - 1 = o + (n - 1)
    BY <1>2
  <2>3. QED
    BY <1>2, <1>3, <1>5, <2>1, <2>2
<1>7. \A n \in 1..Len(w) : w[n].hash = Append(w[n].prev, w[n].payload)
  BY <1>2, <1>3, <1>4
<1>8. QED
  BY <1>6, <1>7 DEF Chained, w


(* In a chained window, the hash recomputed at a position is the one the    *)
(* link there has, and the next link continues it.                          *)
LEMMA RecomputedHash ==
  ASSUME IInv, up, NEW i \in 1..(Len(links) - 1)
  PROVE  /\ i + 1 \in 1..Len(links)
         /\ links[i + 1].hash = Recompute(i)
         /\ links[i + 1].prev = links[i].hash
         /\ Recompute(i) \in Seq(Entries)
<1>1. disk \in Seq(Link) /\ FileChain(disk) /\ links = Window(disk) /\ links \in Seq(Link)
  BY DEF IInv, TypeOK, WindowIsFileEnd
<1>2. Chained(links)
  BY <1>1, ChainedWindow
<1>3. Len(links) \in Nat /\ i + 1 \in 1..Len(links) /\ i + 1 \in 2..Len(links) /\ (i + 1) - 1 = i
  BY <1>1
<1>4. links[i + 1].hash = Recompute(i) /\ links[i + 1].prev = links[i].hash
  BY <1>2, <1>3 DEF Chained, Recompute
<1>5. links[i + 1] \in Link
  BY <1>1, <1>3
<1>6. links[i + 1].hash \in Seq(Entries)
  BY <1>5 DEF Link
<1> QED
  BY <1>3, <1>4, <1>6

(* A missigned link of the window is one of the file.                       *)
LEMMA WindowSignatures ==
  ASSUME IInv, up, ~SignaturesHold(links)
  PROVE  ~SignaturesHold(disk)
<1>1. disk \in Seq(Link) /\ links = Window(disk) /\ Len(disk) \in Nat
  BY DEF IInv, TypeOK, WindowIsFileEnd
<1>2. PICK n \in 1..Len(links) : links[n].payload \in Missigned
  BY DEF SignaturesHold
<1> DEFINE k == n + (Len(disk) - Len(links))
<1>3. /\ links \in Seq(Link)
      /\ Len(links) = IF Len(disk) > ChainMemory THEN ChainMemory ELSE Len(disk)
      /\ \A m \in 1..Len(links), j \in 1..Len(disk) :
           j - m = Len(disk) - Len(links) => links[m] = disk[j]
  BY <1>1, WindowContents
<1>4. ChainMemory \in Nat
  BY LedgerAssumption
<1>5. k \in 1..Len(disk) /\ k - n = Len(disk) - Len(links)
  BY <1>1, <1>2, <1>3, <1>4
<1> HIDE DEF k
<1>6. links[n] = disk[k]
  BY <1>3, <1>5
<1> QED
  BY <1>2, <1>5, <1>6 DEF SignaturesHold

(* No link of the window lacks a metaSig it must have.                      *)
LEMMA NoneMissing ==
  ASSUME IInv, up
  PROVE  MissingMetaSig = {}
<1> SUFFICES ASSUME firstMeta # 0, RequireMetaSig, NEW n \in 1..Len(links),
                    links[n].seq >= firstMeta
             PROVE  links[n].metaSig
  BY DEF MissingMetaSig
<1>1. disk \in Seq(Link) /\ links = Window(disk) /\ Len(disk) \in Nat
  BY DEF IInv, TypeOK, WindowIsFileEnd
<1> DEFINE k == n + (Len(disk) - Len(links))
<1>3. /\ links \in Seq(Link)
      /\ Len(links) = IF Len(disk) > ChainMemory THEN ChainMemory ELSE Len(disk)
      /\ \A m \in 1..Len(links), j \in 1..Len(disk) :
           j - m = Len(disk) - Len(links) => links[m] = disk[j]
  BY <1>1, WindowContents
<1>4. ChainMemory \in Nat
  BY LedgerAssumption
<1>5. k \in 1..Len(disk) /\ k - n = Len(disk) - Len(links)
  BY <1>1, <1>3, <1>4
<1> HIDE DEF k
<1>6. links[n] = disk[k] /\ disk[k].seq = k
  BY <1>3, <1>5 DEF IInv, FileChain
<1>7. firstMeta \in 1..Len(disk) /\ disk[firstMeta].metaSig
  BY DEF IInv, FirstMetaSigned
<1>8. firstMeta = k \/ firstMeta < k
  BY <1>5, <1>6, <1>7
<1>9. firstMeta < k => disk[k].metaSig
  BY <1>5, <1>7 DEF IInv, MetaSticky
<1> QED
  BY <1>6, <1>7, <1>8, <1>9

(* What the file holds it goes on holding.                                  *)
LEMMA BadStays ==
  ASSUME WholeWrites, IInv, [Next]_vars, ~SignaturesHold(disk)
  PROVE  ~SignaturesHold(disk)'
<1>1. disk \in Seq(Link) /\ Len(disk) \in Nat
  BY DEF IInv, TypeOK
<1>2. \/ disk' = disk
      \/ \E r \in running, signed \in BOOLEAN : disk' = Append(disk, LinkOf(r, signed))
  <2>1. ASSUME NEW r \in running, NEW signed \in BOOLEAN, Commit(r, signed)
        PROVE  disk' = Append(disk, LinkOf(r, signed))
    BY <2>1 DEF Commit, Write, IInv
  <2>2. ASSUME NEW r \in running, NEW signed \in BOOLEAN, NEW cut \in Cuts,
               WriteFails(r, signed, cut)
        PROVE  disk' = disk \/ disk' = Append(disk, LinkOf(r, signed))
    <3>1. tail = "clean" /\ cut \in {"none", "partial", "whole"}
      BY <2>2, LedgerAssumption DEF WriteFails, WholeWrites, IInv
    <3>2. QED
      BY <2>2, <3>1 DEF WriteFails, Write
  <2>3. QED
    BY <2>1, <2>2
    DEF Next, vars, Start, Submit, Stage, SignFails, CheckpointSigned, Close, Crash
<1>3. PICK n \in 1..Len(disk) : disk[n].payload \in Missigned
  BY DEF SignaturesHold
<1>4. n \in 1..Len(disk') /\ disk'[n] = disk[n]
  BY <1>1, <1>2
<1> QED
  BY <1>3, <1>4 DEF SignaturesHold

(* While the process goes on, the window is pushed to or left alone.        *)
LEMMA WindowStep ==
  ASSUME TypeOK, Next, up, up'
  PROVE  links' = links \/ \E l \in Link : links' = Push(links, l)
<1>1. ASSUME NEW r \in running, NEW signed \in BOOLEAN, CommitToMemory(r, LinkOf(r, signed))
      PROVE  \E l \in Link : links' = Push(links, l)
  BY <1>1, LinkType DEF CommitToMemory, TypeOK
<1> QED
  BY <1>1
  DEF Next, Start, Submit, Stage, Commit, SignFails, WriteFails, CheckpointSigned, Close, Crash

-------------------------------------------------------------------------------
(* The walk.                                                                 *)

(* The loop goes on from position i, with the links before it counted, or   *)
(* it is left.                                                              *)
LEMMA WalkGoesOn ==
  ASSUME IInv, up, UNCHANGED vars, NEW w \in Walk, NEW i \in Nat \ {0}, Continue(w, i),
         w.total + w.grown = LinkTotal, Counted(w, i - 1),
         i <= Len(links) \/ (links = <<>> /\ i = 1)
  PROVE  walk' \in Walk /\ WalkInv'
<1>1. links \in Seq(Link) /\ Len(links) \in Nat /\ links' = links /\ disk' = disk /\ up'
  BY DEF IInv, TypeOK, vars
<1>2. CASE i < Len(links)
  <2>1. walk' = [w EXCEPT !.at = "links", !.i = i, !.recomputed = Recompute(i)]
    BY <1>2 DEF Continue
  <2>2. i \in 1..(Len(links) - 1)
    BY <1>1, <1>2
  <2>3. Recompute(i) \in Seq(Entries)
    BY <2>2, RecomputedHash
  <2>4. /\ walk' \in Walk /\ walk'.at = "links" /\ walk'.i = i
        /\ walk'.recomputed = Recompute(i) /\ walk'.total = w.total
        /\ walk'.intact = w.intact /\ walk'.grown = w.grown /\ walk'.moved = w.moved
    BY <2>1, <2>3 DEF Walk
  <2>5. w.total + w.grown = Len(links) - 1
    BY <1>1, <1>2 DEF LinkTotal
  <2>6. Recompute(walk.i)' = Recompute(i)
    BY <1>1, <2>4 DEF Recompute
  <2>7. AwaitInv'
    BY <1>1, <2>2, <2>4, <2>5, <2>6 DEF AwaitInv, Counted
  <2> QED
    BY <1>1, <2>4, <2>7 DEF WalkInv
<1>3. CASE ~(i < Len(links))
  <2>1. walk' = [w EXCEPT !.at = "signatures", !.signed = SignaturesHold(links)]
    BY <1>3 DEF Continue
  <2>2. /\ walk' \in Walk /\ walk'.at = "signatures" /\ walk'.signed = SignaturesHold(links)
        /\ walk'.total = w.total /\ walk'.intact = w.intact
        /\ walk'.grown = w.grown /\ walk'.moved = w.moved
    BY <2>1 DEF Walk, SignaturesHold
  <2>3. w.total + w.grown = i - 1
    BY <1>1, <1>3 DEF LinkTotal
  <2>4. Counted(walk, walk.total + walk.grown)'
    BY <2>2, <2>3 DEF Counted
  <2>5. ~walk'.signed => ~SignaturesHold(disk)
    BY <2>2, WindowSignatures
  <2>6. SignaturesHold(disk)' <=> SignaturesHold(disk)
    BY <1>1 DEF SignaturesHold
  <2> QED
    BY <1>1, <2>2, <2>4, <2>5, <2>6 DEF WalkInv
<1> QED
  BY <1>2, <1>3

(* A step of the walk leaves the ledger alone. *)
LEMMA LedgerAlone ==
  ASSUME WholeWrites, VInv, UNCHANGED <<vars, verdict>>
  PROVE  IInv' /\ VerdictOffByOverlaps'
<1>1. IInv'
  BY IInvStep DEF VInv
<1>2. disk' = disk /\ verdict' = verdict
  BY DEF vars
<1> QED
  BY <1>1, <1>2 DEF VInv, VerdictOffByOverlaps, SignaturesHold

LEMMA WalkStarts ==
  ASSUME WholeWrites, VInv, VerifyStart
  PROVE  VInv'
<1> DEFINE w == [NoWalk EXCEPT !.total = LinkTotal]
<1>1. /\ UNCHANGED vars /\ Continue(w, 1) /\ up /\ verdict' = verdict
  BY DEF VerifyStart
<1>2. links \in Seq(Link) /\ Len(links) \in Nat
  BY DEF VInv, IInv, TypeOK
<1>3. LinkTotal \in Nat
  BY <1>2 DEF LinkTotal
<1>4. w \in Walk /\ w.total = LinkTotal /\ w.grown = 0 /\ w.intact = 0 /\ w.moved = 0
  BY <1>3, EmptySeq DEF NoWalk, GENESIS, Walk
<1> HIDE DEF w
<1>5. w.total + w.grown = LinkTotal /\ Counted(w, 1 - 1)
  BY <1>3, <1>4 DEF Counted
<1>6. 1 <= Len(links) \/ links = <<>>
  BY <1>2
<1>7. walk' \in Walk /\ WalkInv'
  BY <1>1, <1>4, <1>5, <1>6, WalkGoesOn DEF VInv
<1> QED
  BY <1>1, <1>7, LedgerAlone DEF VInv, VerifyTypeOK

LEMMA WalkSteps ==
  ASSUME WholeWrites, VInv, VerifyStep
  PROVE  VInv'
<1> DEFINE i == walk.i
           good == /\ links[i + 1].prev = links[i].hash
                   /\ walk.recomputed = links[i + 1].hash
           w == IF good THEN [walk EXCEPT !.intact = @ + 1] ELSE walk
<1>1. /\ UNCHANGED vars /\ Continue(w, i + 1) /\ walk.at = "links" /\ verdict' = verdict
  BY DEF VerifyStep
<1>2. walk \in Walk /\ up /\ AwaitInv /\ IInv
  BY <1>1 DEF VInv, VerifyTypeOK, WalkInv
<1>3. i \in 1..(Len(links) - 1) /\ walk.total + walk.grown = Len(links) - 1
  BY <1>2 DEF AwaitInv
<1>4. /\ i + 1 \in 1..Len(links) /\ Len(links) \in Nat
      /\ links[i + 1].hash = Recompute(i) /\ links[i + 1].prev = links[i].hash
  BY <1>2, <1>3, RecomputedHash DEF IInv, TypeOK
<1>5. good <=> walk.recomputed = Recompute(i)
  BY <1>4
<1>6. /\ w \in Walk /\ w.total = walk.total /\ w.grown = walk.grown /\ w.moved = walk.moved
      /\ w.intact = IF good THEN walk.intact + 1 ELSE walk.intact
  BY <1>2 DEF Walk
<1>7. walk.intact \in Nat /\ walk.moved \in Nat /\ i \in Nat \ {0}
  BY <1>2, <1>3 DEF Walk
<1>8. \/ walk.recomputed = Recompute(i) /\ Counted(walk, i - 1)
      \/ /\ Len(walk.recomputed) < Len(Recompute(i))
         /\ Counted(walk, i) /\ walk.intact < i
  BY <1>2 DEF AwaitInv
<1>9. Len(Recompute(i)) \in Nat
  BY <1>2, <1>3, RecomputedHash
<1> HIDE DEF good, w, i
<1>10. Counted(w, (i + 1) - 1)
  <2>1. CASE walk.recomputed = Recompute(i) /\ Counted(walk, i - 1)
    BY <1>5, <1>6, <1>7, <2>1 DEF Counted
  <2>2. CASE Len(walk.recomputed) < Len(Recompute(i)) /\ Counted(walk, i) /\ walk.intact < i
    <3>1. walk.recomputed # Recompute(i)
      BY <1>9, <2>2
    <3>2. QED
      BY <1>5, <1>6, <1>7, <2>2, <3>1 DEF Counted
  <2> QED
    BY <1>8, <2>1, <2>2
<1>11. /\ w.total + w.grown = LinkTotal /\ i + 1 \in Nat \ {0} /\ i + 1 <= Len(links)
  BY <1>3, <1>4, <1>6, <1>7 DEF LinkTotal
<1>12. walk' \in Walk /\ WalkInv'
  BY <1>1, <1>2, <1>6, <1>10, <1>11, WalkGoesOn
<1> QED
  BY <1>1, <1>12, LedgerAlone DEF VInv, VerifyTypeOK

LEMMA WalkEnds ==
  ASSUME WholeWrites, VInv, VerifyEnd
  PROVE  VInv'
<1>1. /\ UNCHANGED vars /\ walk.at = "signatures" /\ walk' = NoWalk
      /\ verdict' = [ok |-> /\ walk.intact = walk.total
                            /\ walk.signed
                            /\ MissingMetaSig = {},
                     total |-> walk.total, intact |-> walk.intact,
                     grown |-> walk.grown, moved |-> walk.moved]
  BY DEF VerifyEnd
<1>2. /\ walk \in Walk /\ up /\ IInv /\ Counted(walk, walk.total + walk.grown)
      /\ ~walk.signed => ~SignaturesHold(disk)
  BY <1>1 DEF VInv, VerifyTypeOK, WalkInv
<1>3. MissingMetaSig = {}
  BY <1>2, NoneMissing
<1>4. IInv' /\ disk' = disk
  BY <1>1, IInvStep DEF VInv, vars
<1>5. SignaturesHold(disk)' <=> SignaturesHold(disk)
  BY <1>4 DEF SignaturesHold
<1>6. /\ walk.total \in Nat /\ walk.intact \in Nat /\ walk.grown \in Nat
      /\ walk.moved \in Nat /\ walk.signed \in BOOLEAN
  BY <1>2 DEF Walk
<1>7. /\ verdict'.total = walk.total /\ verdict'.intact = walk.intact
      /\ verdict'.grown = walk.grown /\ verdict'.moved = walk.moved
      /\ verdict'.ok <=> walk.intact = walk.total /\ walk.signed
  BY <1>1, <1>3
<1>8. VerdictOffByOverlaps'
  BY <1>2, <1>5, <1>6, <1>7 DEF VerdictOffByOverlaps, Counted
<1>9. VerifyTypeOK'
  BY <1>1, <1>6, EmptySeq DEF VerifyTypeOK, Walk, NoWalk, GENESIS
<1>10. WalkInv'
  BY <1>1 DEF WalkInv, NoWalk
<1> QED
  BY <1>4, <1>8, <1>9, <1>10 DEF VInv

(* A step of the ledger that touches the window while a hash is awaited.    *)
LEMMA WindowUnderWalk ==
  ASSUME VInv, LedgerStep, IInv', up', walk.at = "links"
  PROVE  walk' \in Walk /\ WalkInv'
<1> DEFINE i == walk.i
<1>1. up /\ AwaitInv /\ walk \in Walk /\ IInv /\ links \in Seq(Link) /\ Len(links) \in Nat
  BY DEF VInv, VerifyTypeOK, WalkInv, IInv, TypeOK
<1>2. i \in 1..(Len(links) - 1) /\ walk.total + walk.grown = Len(links) - 1
  BY <1>1 DEF AwaitInv
<1>3. /\ i + 1 \in 1..Len(links) /\ links[i + 1].hash = Recompute(i)
      /\ Recompute(i) \in Seq(Entries) /\ Len(Recompute(i)) \in Nat
  BY <1>1, <1>2, RecomputedHash
<1>4. /\ walk.total \in Nat /\ walk.intact \in Nat /\ walk.grown \in Nat /\ walk.moved \in Nat
  BY <1>1 DEF Walk
<1>5. CASE links' = links
  <2>1. walk' = walk
    BY <1>5 DEF LedgerStep
  <2>2. AwaitInv'
    BY <1>1, <1>5, <2>1 DEF AwaitInv, Recompute, Counted
  <2> QED
    BY <1>1, <2>1, <2>2 DEF WalkInv
<1>6. ASSUME NEW l \in Link, links' = Push(links, l)
      PROVE  walk' \in Walk /\ WalkInv'
  <2> DEFINE a == Append(links, l)
  <2>1. /\ a \in Seq(Link) /\ a # <<>> /\ Len(a) = Len(links) + 1
        /\ \A n \in 1..Len(links) : a[n] = links[n]
    BY <1>1, AppendProperties
  <2>2. links' = a \/ links' = Tail(a)
    BY <1>6 DEF Push
  <2> HIDE DEF a
  <2>3. CASE links' = a
    <3>1. walk' = [walk EXCEPT !.grown = @ + 1]
      BY <1>1, <2>1, <2>3 DEF LedgerStep
    <3>2. /\ walk' \in Walk /\ walk'.at = "links" /\ walk'.i = i /\ walk'.total = walk.total
          /\ walk'.recomputed = walk.recomputed /\ walk'.intact = walk.intact
          /\ walk'.grown = walk.grown + 1 /\ walk'.moved = walk.moved
      BY <1>1, <3>1 DEF Walk
    <3>3. Recompute(walk.i)' = Recompute(i)
      BY <1>3, <2>1, <2>3, <3>2 DEF Recompute
    <3>4. Len(links') = Len(links) + 1 /\ i \in 1..(Len(links') - 1)
      BY <1>1, <1>2, <2>1, <2>3
    <3>5. walk'.total + walk'.grown = Len(links') - 1
      BY <1>1, <1>2, <1>4, <3>2, <3>4
    <3>6. AwaitInv'
      BY <1>1, <3>2, <3>3, <3>4, <3>5 DEF AwaitInv, Counted
    <3> QED
      BY <3>2, <3>6 DEF WalkInv
  <2>4. CASE links' = Tail(a) /\ links' # links
    <3>1. /\ Len(links') = Len(links) /\ links' \in Seq(Link)
          /\ \A n \in 1..Len(links) : links'[n] = a[n + 1]
      BY <1>1, <2>1, <2>4, HeadTailProperties
    <3>2. walk' = [walk EXCEPT !.moved = @ + 1]
      BY <1>1, <2>4, <3>1 DEF LedgerStep
    <3>3. /\ walk' \in Walk /\ walk'.at = "links" /\ walk'.i = i /\ walk'.total = walk.total
          /\ walk'.recomputed = walk.recomputed /\ walk'.intact = walk.intact
          /\ walk'.grown = walk.grown /\ walk'.moved = walk.moved + 1
      BY <1>1, <3>2 DEF Walk
    <3>4. i \in 1..(Len(links') - 1)
      BY <1>2, <3>1
    <3>5. links'[i] = links[i + 1]
      <4>1. i \in 1..Len(links) /\ i + 1 \in 1..Len(links)
        BY <1>1, <1>2
      <4>2. links'[i] = a[i + 1]
        BY <3>1, <4>1
      <4>3. a[i + 1] = links[i + 1]
        BY <2>1, <4>1
      <4> QED
        BY <4>2, <4>3
    <3>6. links'[i + 1].prev = links'[i].hash
      <4>1. disk' \in Seq(Link) /\ FileChain(disk)' /\ links' = Window(disk)'
        BY DEF IInv, TypeOK, WindowIsFileEnd
      <4>2. FileChain(disk') /\ links' = Window(disk')
        BY <4>1 DEF FileChain, Covered, Window
      <4>3. Chained(links')
        BY <4>1, <4>2, ChainedWindow
      <4>4. i + 1 \in 2..Len(links') /\ (i + 1) - 1 = i
        BY <1>1, <3>1, <3>4
      <4> QED
        BY <4>3, <4>4 DEF Chained
    <3>7. Recompute(walk.i)' = Append(Recompute(i), links'[i + 1].payload)
      BY <1>3, <3>3, <3>5, <3>6 DEF Recompute
    <3>8. links'[i + 1].payload \in Entries
      <4>1. i + 1 \in 1..Len(links')
        BY <1>3, <3>1
      <4>2. links'[i + 1] \in Link
        BY <3>1, <4>1
      <4> QED
        BY <4>2 DEF Link
    <3>9. Len(Recompute(walk.i)') = Len(Recompute(i)) + 1
      BY <1>3, <3>7, <3>8, AppendProperties
    <3>10. Len(walk.recomputed) \in Nat /\ Len(walk.recomputed) <= Len(Recompute(i))
      <4>1. walk.recomputed \in Seq(Entries)
        BY <1>1 DEF Walk
      <4>2. Len(walk.recomputed) \in Nat
        BY <4>1
      <4> QED
        BY <1>1, <1>3, <4>2 DEF AwaitInv
    <3>11. walk.intact < i /\ i <= walk.intact + (walk.moved + 1)
      BY <1>1, <1>2, <1>4 DEF AwaitInv, Counted
    <3>12. Counted(walk, walk.i)'
      BY <1>2, <1>4, <3>3, <3>11 DEF Counted
    <3>13. AwaitInv'
      BY <1>2, <1>3, <3>1, <3>3, <3>4, <3>9, <3>10, <3>11, <3>12 DEF AwaitInv
    <3> QED
      BY <3>3, <3>13 DEF WalkInv
  <2> QED
    BY <1>5, <2>2, <2>3, <2>4
<1> QED
  BY <1>1, <1>5, <1>6, WindowStep DEF LedgerStep, IInv

LEMMA LedgerUnderWalk ==
  ASSUME WholeWrites, VInv, LedgerStep
  PROVE  VInv'
<1>1. IInv'
  BY IInvStep DEF VInv, LedgerStep
<1>2. verdict' = verdict /\ Next
  BY DEF LedgerStep
<1>3. ~SignaturesHold(disk) => ~SignaturesHold(disk)'
  BY <1>2, BadStays DEF VInv
<1>4. VerdictOffByOverlaps'
  BY <1>2, <1>3 DEF VInv, VerdictOffByOverlaps
<1>5. walk' \in Walk /\ WalkInv'
  <2>1. CASE ~up'
    <3>1. walk' = NoWalk
      BY <2>1 DEF LedgerStep
    <3>2. QED
      BY <3>1, EmptySeq DEF WalkInv, NoWalk, Walk, GENESIS
  <2>2. CASE up' /\ walk.at = "links"
    BY <1>1, <2>2, WindowUnderWalk
  <2>3. CASE up' /\ walk.at # "links"
    <3>1. walk' = walk
      BY <2>3 DEF LedgerStep
    <3>2. QED
      BY <1>3, <2>3, <3>1 DEF VInv, VerifyTypeOK, WalkInv, Counted
  <2> QED
    BY <2>1, <2>2, <2>3
<1> QED
  BY <1>1, <1>2, <1>4, <1>5 DEF VInv, VerifyTypeOK

LEMMA VStep ==
  ASSUME WholeWrites, VInv, [VerifyNext]_allVars
  PROVE  VInv'
<1>1. CASE UNCHANGED allVars
  <2>1. UNCHANGED <<vars, verdict>> /\ walk' = walk
    BY <1>1 DEF allVars
  <2>2. links' = links /\ disk' = disk /\ up' = up
    BY <2>1 DEF vars
  <2>3. WalkInv'
    BY <2>1, <2>2 DEF VInv, WalkInv, AwaitInv, Recompute, Counted, SignaturesHold
  <2>4. QED
    BY <2>1, <2>3, LedgerAlone DEF VInv, VerifyTypeOK
<1>2. QED
  BY <1>1, WalkStarts, WalkSteps, WalkEnds, LedgerUnderWalk DEF VerifyNext

LEMMA VInit == VerifyInit => VInv
<1> SUFFICES ASSUME VerifyInit PROVE VInv
  OBVIOUS
<1>1. IInv
  BY InitIInv DEF VerifyInit
<1>2. QED
  BY <1>1, EmptySeq
  DEF VerifyInit, VInv, VerifyTypeOK, Walk, WalkInv, VerdictOffByOverlaps, NoWalk, GENESIS

(* For every window, every interleaving of appends, checkpoints, crashes    *)
(* and restarts with a walk, and any number of calls: the count of links    *)
(* chain:verify found intact is off by the appends it overlapped, within    *)
(* the bounds stated, and no signature or metaSig makes it say no but one   *)
(* that does not verify.                                                    *)
THEOREM WalkMisjudgesOverlapsOnly ==
  ASSUME WholeWrites
  PROVE  VerifySpec => []VerdictOffByOverlaps
<1>1. VInv /\ [VerifyNext]_allVars => VInv'
  BY VStep
<1>2. VInv => VerdictOffByOverlaps
  BY DEF VInv
<1>3. QED
  BY <1>1, <1>2, VInit, PTL DEF VerifySpec
===============================================================================
