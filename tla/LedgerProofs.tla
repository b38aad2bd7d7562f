----------------------------- MODULE LedgerProofs -----------------------------
(***************************************************************************)
(* Proofs about Ledger, for any entries, window and checkpoint period: the *)
(* file, what memory holds of it, what is answered, and the refinement.    *)
(***************************************************************************)
EXTENDS Ledger, SequenceTheorems, WellFoundedInduction, TLAPS

(* A write either leaves whole lines and possibly half of one at the end,  *)
(* or, where the caller catches a failed write, does not fail.                  *)
WholeWrites == "unterminated" \notin Cuts /\ ("write" \in Caught => Cuts = {})

-------------------------------------------------------------------------------
(* The sequence of payloads covered by the first n links has length n.     *)
LEMMA CoveredType ==
  ASSUME NEW d \in Seq(Link), NEW n \in 0..Len(d)
  PROVE  Covered(d, n) \in Seq(Entries) /\ Len(Covered(d, n)) = n
<1>1. \A i \in 1..n : d[i].payload \in Entries
  <2>1. \A i \in 1..Len(d) : d[i] \in Link
    OBVIOUS
  <2>2. QED
    BY <2>1 DEF Link
<1>2. Covered(d, n) \in [1..n -> Entries]
  BY <1>1 DEF Covered
<1>3. QED
  BY <1>2, n \in Nat

(* Covering one more link appends its payload: the hash rule of a link.    *)
LEMMA CoveredStep ==
  ASSUME NEW d \in Seq(Link), NEW n \in 1..Len(d)
  PROVE  Covered(d, n) = Append(Covered(d, n - 1), d[n].payload)
<1>1. /\ Covered(d, n) \in Seq(Entries)
      /\ Len(Covered(d, n)) = n
      /\ Covered(d, n - 1) \in Seq(Entries)
      /\ Len(Covered(d, n - 1)) = n - 1
  BY CoveredType
<1>2. d[n].payload \in Entries
  <2>1. d[n] \in Link
    OBVIOUS
  <2>2. QED
    BY <2>1 DEF Link
<1>3. \A i \in 1..n : Covered(d, n)[i] = Append(Covered(d, n - 1), d[n].payload)[i]
  BY <1>1, <1>2 DEF Covered
<1>4. QED
  BY <1>1, <1>2, <1>3

(* A link at the end changes nothing of what the earlier ones cover.       *)
LEMMA CoveredAppend ==
  ASSUME NEW d \in Seq(Link), NEW l \in Link, NEW n \in 0..Len(d)
  PROVE  Covered(Append(d, l), n) = Covered(d, n)
<1>1. \A i \in 1..n : Append(d, l)[i] = d[i]
  OBVIOUS
<1>2. QED
  BY <1>1 DEF Covered

(* The window holds the newest links, at most ChainMemory of them.         *)
LEMMA WindowContents ==
  ASSUME NEW d \in Seq(Link)
  PROVE  /\ Window(d) \in Seq(Link)
         /\ Len(Window(d)) = IF Len(d) > ChainMemory THEN ChainMemory ELSE Len(d)
         /\ \A i \in 1..Len(Window(d)), k \in 1..Len(d) :
              k - i = Len(d) - Len(Window(d)) => Window(d)[i] = d[k]
<1>0. ChainMemory \in Nat \ {0}
  BY LedgerAssumption
<1> USE <1>0
<1> DEFINE lost == IF Len(d) > ChainMemory THEN Len(d) - ChainMemory ELSE 0
<1>1. lost \in 0..Len(d)
  OBVIOUS
<1>2. Window(d) = [i \in 1..(Len(d) - lost) |-> d[lost + i]]
  BY DEF Window
<1>3. Window(d) \in [1..(Len(d) - lost) -> Link]
  BY <1>1, <1>2
<1>4. Window(d) \in Seq(Link) /\ Len(Window(d)) = Len(d) - lost
  BY <1>1, <1>3
<1>5. ASSUME NEW i \in 1..Len(Window(d)), NEW k \in 1..Len(d),
             k - i = Len(d) - Len(Window(d))
      PROVE  Window(d)[i] = d[k]
  <2>1. k = lost + i /\ i \in 1..(Len(d) - lost)
    BY <1>1, <1>4, <1>5
  <2>2. Window(d)[i] = d[lost + i]
    BY <1>2, <2>1
  <2>3. QED
    BY <2>1, <2>2
<1>6. QED
  BY <1>1, <1>4, <1>5

(* The window of a longer file is the window, pushed.                      *)
LEMMA WindowAppend ==
  ASSUME NEW d \in Seq(Link), NEW l \in Link
  PROVE  Window(Append(d, l)) = Push(Window(d), l)
<1>0. ChainMemory \in Nat \ {0}
  BY LedgerAssumption
<1> USE <1>0
<1> DEFINE e == Append(d, l)
           w == Window(d)
           v == Window(e)
<1>1. e \in Seq(Link) /\ Len(e) = Len(d) + 1
  OBVIOUS
<1>2. \A i \in 1..Len(e) : e[i] = IF i <= Len(d) THEN d[i] ELSE l
  OBVIOUS
<1>3. /\ w \in Seq(Link)
      /\ Len(w) = IF Len(d) > ChainMemory THEN ChainMemory ELSE Len(d)
      /\ \A i \in 1..Len(w), k \in 1..Len(d) :
           k - i = Len(d) - Len(w) => w[i] = d[k]
  BY WindowContents
<1>4. /\ v \in Seq(Link)
      /\ Len(v) = IF Len(e) > ChainMemory THEN ChainMemory ELSE Len(e)
      /\ \A i \in 1..Len(v), k \in 1..Len(e) :
           k - i = Len(e) - Len(v) => v[i] = e[k]
  BY <1>1, WindowContents
<1> HIDE DEF e, w, v
<1>5. CASE Len(w) + 1 > ChainMemory
  <2> DEFINE t == Tail(Append(w, l))
  <2>1. t \in Seq(Link) /\ Len(t) = Len(w)
    <3>1. /\ Append(w, l) \in Seq(Link) /\ Append(w, l) # <<>>
          /\ Len(Append(w, l)) = Len(w) + 1 /\ Len(w) \in Nat
      BY <1>3, AppendProperties
    <3>2. t \in Seq(Link) /\ Len(t) = Len(Append(w, l)) - 1
      BY <3>1, HeadTailProperties
    <3>3. QED
      BY <3>1, <3>2
  <2>2. /\ \A i, j \in 1..Len(w) : j = i + 1 => t[i] = w[j]
        /\ Len(w) > 0 => t[Len(w)] = l
    <3>1. /\ Append(w, l) \in Seq(Link) \ {<<>>}
          /\ Len(Append(w, l)) = Len(w) + 1
          /\ \A i \in 1..Len(w) : Append(w, l)[i] = w[i]
          /\ Append(w, l)[Len(w) + 1] = l
      BY <1>3, AppendProperties
    <3>2. \A i \in 1..(Len(Append(w, l)) - 1) : t[i] = Append(w, l)[i + 1]
      <4> DEFINE a == Append(w, l)
      <4>1. a \in Seq(Link) /\ a # <<>>
        BY <3>1
      <4> HIDE DEF a
      <4>2. \A i \in 1..(Len(a) - 1) : Tail(a)[i] = a[i + 1]
        BY <4>1, HeadTailProperties
      <4>3. QED
        BY <4>2 DEF a
    <3>3. QED
      BY <1>3, <3>1, <3>2
  <2>3. Len(v) = Len(w)
    BY <1>1, <1>3, <1>4, <1>5
  <2> HIDE DEF t
  <2>4. ASSUME NEW i \in 1..Len(w), NEW k \in 1..Len(e), k - i = Len(e) - Len(v)
        PROVE  t[i] = v[i]
    <3>1. v[i] = e[k]
      BY <1>4, <2>3, <2>4
    <3>2. CASE i < Len(w)
      <4>1. \E j \in 1..Len(w) : j = i + 1
        BY <1>3, <3>2
      <4>2. PICK j \in 1..Len(w) : j = i + 1
        BY <4>1
      <4>3. k \in 1..Len(d) /\ k - j = Len(d) - Len(w)
        BY <1>1, <1>3, <2>3, <2>4, <3>2, <4>2
      <4>4. w[j] = d[k]
        BY <1>3, <4>3
      <4>5. t[i] = w[j]
        BY <2>2, <4>2
      <4>6. e[k] = d[k]
        BY <1>1, <1>2, <4>3
      <4>7. QED
        BY <3>1, <4>4, <4>5, <4>6
    <3>3. CASE i = Len(w)
      <4>1. k = Len(d) + 1
        BY <1>1, <1>3, <2>3, <2>4, <3>3
      <4>2. QED
        BY <1>2, <2>2, <3>1, <3>3, <4>1
    <3>4. QED
      BY <1>3, <3>2, <3>3
  <2>7. \A i \in 1..Len(w) : \E k \in 1..Len(e) : k - i = Len(e) - Len(v)
    <3>1. ASSUME NEW i \in 1..Len(w)
          PROVE  /\ Len(e) - Len(v) + i \in 1..Len(e)
                 /\ (Len(e) - Len(v) + i) - i = Len(e) - Len(v)
      BY <1>1, <1>3, <1>4, <2>3
    <3>2. QED
      BY <3>1
  <2>5. t = v
    BY <1>4, <2>1, <2>3, <2>4, <2>7, SeqEqual
  <2>6. QED
    BY <2>5, <1>5 DEF Push, t, w, v, e
<1>6. CASE ~(Len(w) + 1 > ChainMemory)
  <2> DEFINE t == Append(w, l)
  <2>1. t \in Seq(Link) /\ Len(t) = Len(w) + 1
    BY <1>3
  <2>2. \A i \in 1..(Len(w) + 1) : t[i] = IF i <= Len(w) THEN w[i] ELSE l
    <3>1. /\ \A i \in 1..Len(w) : Append(w, l)[i] = w[i]
          /\ Append(w, l)[Len(w) + 1] = l
      BY <1>3, AppendProperties
    <3>2. \A i \in 1..(Len(w) + 1) : i \in 1..Len(w) \/ i = Len(w) + 1
      BY <1>3
    <3>3. QED
      BY <1>3, <3>1, <3>2
  <2>3. Len(v) = Len(w) + 1 /\ Len(w) = Len(d)
    BY <1>1, <1>3, <1>4, <1>6
  <2> HIDE DEF t
  <2>4. ASSUME NEW i \in 1..(Len(w) + 1)
        PROVE  t[i] = v[i]
    <3>1. i \in 1..Len(e) /\ i \in 1..Len(v) /\ i - i = Len(e) - Len(v)
      BY <1>1, <1>3, <1>4, <2>3
    <3>2. v[i] = e[i]
      BY <1>4, <3>1
    <3>4. ASSUME i <= Len(w)
          PROVE  w[i] = d[i]
      <4>1. i \in 1..Len(w) /\ i \in 1..Len(d) /\ i - i = Len(d) - Len(w)
        BY <1>3, <2>3, <3>4
      <4>2. QED
        BY <1>3, <4>1
    <3>3. QED
      BY <1>2, <2>2, <2>3, <3>1, <3>2, <3>4
  <2>5. t = v
    BY <1>4, <2>1, <2>3, <2>4, SeqEqual
  <2>6. QED
    BY <2>5, <1>6 DEF Push, t, w, v, e
<1>7. QED
  BY <1>5, <1>6

(* The window ends where the file ends: lastHash is the hash of the last   *)
(* link of the file, or GENESIS.                                           *)
LEMMA WindowLast ==
  ASSUME NEW d \in Seq(Link)
  PROVE  /\ (Window(d) = <<>>) <=> (d = <<>>)
         /\ d # <<>> => Window(d)[Len(Window(d))] = d[Len(d)]
<1> DEFINE w == Window(d)
<1>1. ChainMemory \in Nat \ {0}
  BY LedgerAssumption
<1>2. /\ w \in Seq(Link)
      /\ Len(w) = IF Len(d) > ChainMemory THEN ChainMemory ELSE Len(d)
      /\ \A i \in 1..Len(w), k \in 1..Len(d) :
           k - i = Len(d) - Len(w) => w[i] = d[k]
  BY WindowContents
<1> HIDE DEF w
<1>3. (w = <<>>) <=> (d = <<>>)
  <2>1. (w = <<>>) <=> (Len(w) = 0)
    BY <1>2, EmptySeq
  <2>2. (d = <<>>) <=> (Len(d) = 0)
    BY EmptySeq
  <2>3. QED
    BY <1>1, <1>2, <2>1, <2>2
<1>4. ASSUME d # <<>>
      PROVE  w[Len(w)] = d[Len(d)]
  <2>1. Len(w) \in 1..Len(w) /\ Len(d) \in 1..Len(d)
    BY <1>1, <1>2, <1>4, EmptySeq
  <2>2. QED
    BY <1>2, <2>1
<1>5. QED
  BY <1>3, <1>4 DEF w
-------------------------------------------------------------------------------
(* The chain in full: each link has its place, and its hashes cover exactly *)
(* the payloads before and up to it.                                        *)
FileChain(d) ==
  \A n \in 1..Len(d) :
    /\ d[n].seq = n
    /\ d[n].prev = Covered(d, n - 1)
    /\ d[n].hash = Covered(d, n)

(* Once a link is signed, so are all later ones.                            *)
MetaSticky(d) ==
  RequireMetaSig => \A m, n \in 1..Len(d) : m < n /\ d[m].metaSig => d[n].metaSig

Recorded(d, e) == \E n \in 1..Len(d) : d[n].payload = e

(* The link from which on metaSigs are required carries one.                *)
FirstMetaSigned ==
  firstMeta # 0 => firstMeta \in 1..Len(disk) /\ disk[firstMeta].metaSig

(* At most one append has staged, against the end of the file as it is.     *)
StagedIsNext ==
  /\ \A r1, r2 \in running : r1 = r2
  /\ \A r \in running : up /\ r.seq = Len(disk) + 1 /\ r.prev = Covered(disk, Len(disk))

(* Every statement being signed is true of the file, and whoever waits for  *)
(* it is recorded.                                                          *)
SigningTrue ==
  \A s \in signing :
    /\ s.seq \in 1..Len(disk)
    /\ s.head = Covered(disk, s.seq)
    /\ s.by # Shutdown => Recorded(disk, s.by)

IInv ==
  /\ TypeOK
  /\ tail # "open" /\ (up => tail = "clean")
  /\ FileChain(disk)
  /\ MetaSticky(disk)
  /\ FirstMetaSigned
  /\ WindowIsFileEnd
  /\ StagedIsNext
  /\ SigningTrue
  /\ CheckpointsTrue
  /\ AckedIsDurable

(* The end of the window is the end of the chain.                           *)
LEMMA LastHashCovers ==
  ASSUME TypeOK, FileChain(disk), links = Window(disk)
  PROVE  LastHash = Covered(disk, Len(disk))
<1>1. disk \in Seq(Link)
  BY DEF TypeOK
<1>2. CASE disk = <<>>
  <2>1. links = <<>>
    BY <1>1, <1>2, WindowLast
  <2>2. Covered(disk, 0) = <<>>
    <3>1. Covered(disk, 0) \in Seq(Entries) /\ Len(Covered(disk, 0)) = 0
      BY <1>1, CoveredType
    <3>2. QED
      BY <3>1, EmptySeq
  <2>3. QED
    BY <1>2, <2>1, <2>2 DEF LastHash, GENESIS
<1>3. CASE disk # <<>>
  <2>1. links # <<>> /\ links[Len(links)] = disk[Len(disk)]
    BY <1>1, <1>3, WindowLast
  <2>2. Len(disk) \in 1..Len(disk)
    BY <1>1, <1>3
  <2>3. QED
    BY <2>1, <2>2 DEF LastHash, FileChain
<1>4. QED
  BY <1>2, <1>3

(* What one more link, staged against the end of the file, does to it.      *)
LEMMA GrowFile ==
  ASSUME NEW d \in Seq(Link), NEW l \in Link, FileChain(d),
         l.seq = Len(d) + 1, l.prev = Covered(d, Len(d)),
         l.hash = Append(l.prev, l.payload)
  PROVE  LET e == Append(d, l)
         IN  /\ e \in Seq(Link) /\ Len(e) = Len(d) + 1
             /\ FileChain(e)
             /\ \A n \in 0..Len(d) : Covered(e, n) = Covered(d, n)
             /\ Covered(e, Len(d) + 1) = l.hash
             /\ \A x : Recorded(d, x) => Recorded(e, x)
             /\ Recorded(e, l.payload)
             /\ MetaSticky(d) /\ (RequireMetaSig => l.metaSig) => MetaSticky(e)
<1> DEFINE e == Append(d, l)
<1>1. e \in Seq(Link) /\ Len(e) = Len(d) + 1
  OBVIOUS
<1>2. \A n \in 1..Len(d) : e[n] = d[n]
  OBVIOUS
<1>3. e[Len(d) + 1] = l
  OBVIOUS
<1>4. \A n \in 0..Len(d) : Covered(e, n) = Covered(d, n)
  BY CoveredAppend
<1> HIDE DEF e
<1>5. Covered(e, Len(d) + 1) = l.hash
  <2>1. Len(d) + 1 \in 1..Len(e) /\ Len(d) + 1 - 1 = Len(d) /\ Len(d) \in 0..Len(d)
    BY <1>1
  <2>2. Covered(e, Len(d) + 1) = Append(Covered(e, Len(d) + 1 - 1), e[Len(d) + 1].payload)
    BY <1>1, <2>1, CoveredStep
  <2>3. QED
    BY <1>3, <1>4, <2>1, <2>2
<1>6. FileChain(e)
  <2> SUFFICES ASSUME NEW n \in 1..Len(e)
               PROVE  /\ e[n].seq = n
                      /\ e[n].prev = Covered(e, n - 1)
                      /\ e[n].hash = Covered(e, n)
    BY DEF FileChain
  <2>1. CASE n \in 1..Len(d)
    <3>1. n \in 0..Len(d) /\ n - 1 \in 0..Len(d)
      BY <2>1
    <3>2. QED
      BY <1>2, <1>4, <2>1, <3>1 DEF FileChain
  <2>2. CASE n = Len(d) + 1
    <3>1. n - 1 = Len(d) /\ Len(d) \in 0..Len(d)
      BY <2>2
    <3>2. QED
      BY <1>3, <1>4, <1>5, <2>2, <3>1
  <2>3. QED
    BY <1>1, <2>1, <2>2
<1>7. \A x : Recorded(d, x) => Recorded(e, x)
  BY <1>1, <1>2 DEF Recorded
<1>8. Recorded(e, l.payload)
  BY <1>1, <1>3 DEF Recorded
<1>9. MetaSticky(d) /\ (RequireMetaSig => l.metaSig) => MetaSticky(e)
  <2> SUFFICES ASSUME MetaSticky(d), RequireMetaSig => l.metaSig, RequireMetaSig,
                      NEW m \in 1..Len(e), NEW n \in 1..Len(e), m < n, e[m].metaSig
               PROVE  e[n].metaSig
    BY DEF MetaSticky
  <2>1. CASE n \in 1..Len(d)
    <3>1. m \in 1..Len(d)
      BY <2>1
    <3>2. QED
      BY <1>2, <2>1, <3>1 DEF MetaSticky
  <2>2. CASE n = Len(d) + 1
    BY <1>3, <2>2
  <2>3. QED
    BY <1>1, <2>1, <2>2
<1>10. QED
  BY <1>1, <1>4, <1>5, <1>6, <1>7, <1>8, <1>9 DEF e

(* A chain in full, with no signature that does not verify, is one that     *)
(* init accepts.                                                            *)
LEMMA ChainAccepted ==
  ASSUME NEW d \in Seq(Link), FileChain(d), MetaSticky(d), SignaturesHold(d)
  PROVE  Accepts(d)
<1> SUFFICES ASSUME NEW n \in 1..Len(d)
             PROVE  /\ d[n].prev = IF n = 1 THEN GENESIS ELSE d[n - 1].hash
                    /\ d[n].hash = Append(d[n].prev, d[n].payload)
  BY DEF Accepts, FileChain, MetaSticky
<1>1. d[n].hash = Append(d[n].prev, d[n].payload)
  BY CoveredStep DEF FileChain
<1>2. CASE n = 1
  <2>1. Covered(d, 0) \in Seq(Entries) /\ Len(Covered(d, 0)) = 0
    BY CoveredType
  <2>2. d[n].prev = Covered(d, 0)
    BY <1>2 DEF FileChain
  <2>3. QED
    BY <1>1, <1>2, <2>1, <2>2, EmptySeq DEF GENESIS
<1>3. CASE n # 1
  <2>1. n - 1 \in 1..Len(d)
    BY <1>3
  <2>2. QED
    BY <1>1, <1>3, <2>1 DEF FileChain
<1>4. QED
  BY <1>2, <1>3

(* init finds the first link with a metaSig, if there is one.               *)
LEMMA FirstSignedFound ==
  ASSUME NEW d \in Seq(Link)
  PROVE  /\ FirstSigned(d) \in Nat
         /\ FirstSigned(d) # 0 => FirstSigned(d) \in MetaSigned(d)
<1>1. CASE MetaSigned(d) = {}
  BY <1>1 DEF FirstSigned
<1>2. CASE MetaSigned(d) # {}
  <2>1. MetaSigned(d) \subseteq Nat
    BY DEF MetaSigned
  <2>2. PICK n \in MetaSigned(d) : \A m \in MetaSigned(d) : <<m, n>> \notin OpToRel(<, Nat)
    BY <1>2, <2>1, NatLessThanWellFounded, WFMin
  <2>3. \A m \in MetaSigned(d) : n <= m
    <3> SUFFICES ASSUME NEW m \in MetaSigned(d) PROVE ~(m < n)
      BY <2>1
    <3>1. m \in Nat /\ n \in Nat
      BY <2>1
    <3> QED
      BY <2>2, <3>1 DEF OpToRel
  <2>4. FirstSigned(d) \in MetaSigned(d)
    BY <1>2, <2>3 DEF FirstSigned
  <2> QED
    BY <2>1, <2>4
<1> QED
  BY <1>1, <1>2
-------------------------------------------------------------------------------
(* The pre-v0.9 file is a chain in full, with no signed link.              *)
LEMMA LegacyIsChain ==
  /\ LegacyFile \in Seq(Link)
  /\ FileChain(LegacyFile)
  /\ MetaSticky(LegacyFile)
<1> DEFINE d == LegacyFile
           G(n) == [i \in 1..n |-> Legacy[i]]
<1>1. Legacy \in Seq(Entries) /\ Len(Legacy) \in Nat
  BY LedgerAssumption
<1>2. \A n \in 0..Len(Legacy) :
        [i \in 1..n |-> Legacy[i]] \in Seq(Entries)
  <2> SUFFICES ASSUME NEW n \in 0..Len(Legacy)
               PROVE  [i \in 1..n |-> Legacy[i]] \in Seq(Entries)
    OBVIOUS
  <2>1. n \in Nat /\ \A i \in 1..n : Legacy[i] \in Entries
    BY <1>1
  <2>2. QED
    BY <2>1, IsASeq
<1>3. \A n \in 1..Len(Legacy) :
        [seq |-> n, payload |-> Legacy[n], metaSig |-> FALSE,
         prev |-> [i \in 1..(n - 1) |-> Legacy[i]],
         hash |-> [i \in 1..n |-> Legacy[i]]] \in Link
  <2> SUFFICES ASSUME NEW n \in 1..Len(Legacy)
               PROVE  [seq |-> n, payload |-> Legacy[n], metaSig |-> FALSE,
                       prev |-> [i \in 1..(n - 1) |-> Legacy[i]],
                       hash |-> [i \in 1..n |-> Legacy[i]]] \in Link
    OBVIOUS
  <2>1. n \in Nat /\ n \in 0..Len(Legacy) /\ n - 1 \in 0..Len(Legacy) /\ Legacy[n] \in Entries
    BY <1>1
  <2>2. /\ [i \in 1..n |-> Legacy[i]] \in Seq(Entries)
        /\ [i \in 1..(n - 1) |-> Legacy[i]] \in Seq(Entries)
    BY <1>2, <2>1
  <2>3. QED
    BY <2>1, <2>2 DEF Link
<1>4. d \in Seq(Link) /\ Len(d) = Len(Legacy)
  <2>1. d \in Seq(Link)
    BY <1>1, <1>3, IsASeq DEF LegacyFile
  <2>2. QED
    BY <1>1, <2>1 DEF LegacyFile
<1>5. \A n \in 1..Len(Legacy) :
        /\ d[n].seq = n
        /\ d[n].payload = Legacy[n]
        /\ d[n].metaSig = FALSE
        /\ d[n].prev = G(n - 1)
        /\ d[n].hash = G(n)
  BY DEF LegacyFile
<1>10. \A n \in 1..Len(Legacy) : d[n].payload = Legacy[n]
  BY <1>5
<1> HIDE DEF d
<1>6. ASSUME NEW n \in 0..Len(Legacy)
      PROVE  Covered(d, n) = G(n)
  <2>1. Covered(d, n) \in Seq(Entries) /\ Len(Covered(d, n)) = n
    BY <1>4, CoveredType
  <2>2. G(n) \in Seq(Entries) /\ Len(G(n)) = n
    BY <1>1, <1>2
  <2>3. \A i \in 1..n : Covered(d, n)[i] = G(n)[i]
    <3>1. \A i \in 1..n : i \in 1..Len(Legacy) /\ d[i].payload = Legacy[i]
      BY <1>1, <1>10
    <3>2. \A i \in 1..n : Covered(d, n)[i] = d[i].payload
      BY DEF Covered
    <3>3. QED
      BY <3>1, <3>2
  <2>4. QED
    BY <2>1, <2>2, <2>3, SeqEqual
<1> HIDE DEF G
<1>7. FileChain(d)
  <2> SUFFICES ASSUME NEW n \in 1..Len(Legacy)
               PROVE  /\ d[n].seq = n
                      /\ d[n].prev = Covered(d, n - 1)
                      /\ d[n].hash = Covered(d, n)
    BY <1>4 DEF FileChain
  <2>1. n \in 0..Len(Legacy) /\ n - 1 \in 0..Len(Legacy)
    BY <1>1
  <2>2. QED
    BY <1>5, <1>6, <2>1
<1>8. MetaSticky(d)
  BY <1>4, <1>5 DEF MetaSticky
<1>9. QED
  BY <1>4, <1>7, <1>8 DEF d

LEMMA InitIInv == Init => IInv
<1> SUFFICES ASSUME Init PROVE IInv
  OBVIOUS
<1> USE DEF Init
<1>1. TypeOK
  <2>1. disk \in Seq(Link)
    BY LegacyIsChain
  <2>2. asked \in SUBSET Entries
    BY LedgerAssumption
  <2>3. QED
    BY <2>1, <2>2, EmptySeq DEF TypeOK
<1>2. FileChain(disk) /\ MetaSticky(disk)
  BY LegacyIsChain
<1>3. CheckpointsTrue
  BY EmptySeq DEF CheckpointsTrue
<1>4. QED
  BY <1>1, <1>2, <1>3
  DEF IInv, FirstMetaSigned, WindowIsFileEnd, StagedIsNext, SigningTrue, AckedIsDurable

(* The link a staged append builds is a link, and a pushed window a window. *)
LEMMA LinkType ==
  ASSUME NEW r \in Staged, NEW signed \in BOOLEAN
  PROVE  LinkOf(r, signed) \in Link
<1>1. /\ r.seq \in Nat /\ r.payload \in Entries /\ r.prev \in Seq(Entries)
  BY DEF Staged
<1>2. Append(r.prev, r.payload) \in Seq(Entries)
  BY <1>1
<1>3. QED
  BY <1>1, <1>2 DEF LinkOf, Link

LEMMA PushType ==
  ASSUME NEW w \in Seq(Link), NEW l \in Link
  PROVE  Push(w, l) \in Seq(Link)
<1>1. Append(w, l) \in Seq(Link) /\ Append(w, l) # <<>>
  BY AppendProperties
<1>2. Tail(Append(w, l)) \in Seq(Link)
  BY <1>1
<1>3. QED
  BY <1>1, <1>2 DEF Push

LEMMA WriteType ==
  ASSUME disk \in Seq(Link), tail \in {"clean", "open", "broken"},
         NEW l \in Link, NEW cut, Write(l, cut)
  PROVE  disk' \in Seq(Link) /\ tail' \in {"clean", "open", "broken"}
<1>1. Append(disk, l) \in Seq(Link)
  OBVIOUS
<1>2. SubSeq(disk, 1, Len(disk) - 1) \in Seq(Link)
  OBVIOUS
<1>3. disk' \in Seq(Link)
  BY <1>1, <1>2 DEF Write
<1>4. tail' \in {"clean", "open", "broken"}
  BY DEF Write
<1>5. QED
  BY <1>3, <1>4

LEMMA MemoryLostType ==
  ASSUME MemoryLost
  PROVE  /\ seq' \in Nat /\ links' \in Seq(Link) /\ firstMeta' \in Nat
         /\ queue' \in Seq(Entries) /\ running' \in SUBSET Staged
         /\ sinceCp' \in Nat /\ signing' \in SUBSET Signing
         /\ closing' \in BOOLEAN
BY EmptySeq DEF MemoryLost

(* Every step keeps the state well typed.                                   *)
LEMMA TypeStep == TypeOK /\ [Next]_vars => TypeOK'
<1> SUFFICES ASSUME TypeOK, [Next]_vars PROVE TypeOK'
  OBVIOUS
<1> USE DEF TypeOK
<1>1. CASE Start
  <2>1. Window(disk) \in Seq(Link) /\ FirstSigned(disk) \in Nat
    BY WindowContents, FirstSignedFound
  <2>2. QED
    BY <1>1, <2>1 DEF Start, MemoryAfterStart
<1>2. ASSUME NEW e \in Entries, Submit(e)
      PROVE  TypeOK'
  BY <1>2 DEF Submit
<1>3. CASE Stage
  <2>1. Head(queue) \in Entries /\ Tail(queue) \in Seq(Entries)
    BY <1>3 DEF Stage
  <2>2. LastHash \in Seq(Entries)
    <3>1. \A i \in 1..Len(links) : links[i] \in Link
      OBVIOUS
    <3>2. links # <<>> => Len(links) \in 1..Len(links)
      OBVIOUS
    <3>3. links # <<>> => links[Len(links)].hash \in Seq(Entries)
      BY <3>1, <3>2 DEF Link
    <3>4. QED
      BY <3>3, EmptySeq DEF LastHash, GENESIS
  <2>3. [payload |-> Head(queue), seq |-> seq + 1, prev |-> LastHash] \in Staged
    BY <2>1, <2>2 DEF Staged
  <2>4. running' \in SUBSET Staged
    BY <1>3, <2>3 DEF Stage
  <2>5. QED
    BY <1>3, <2>1, <2>4 DEF Stage
<1>4. ASSUME NEW r \in running, NEW signed \in BOOLEAN, Commit(r, signed)
      PROVE  TypeOK'
  <2> DEFINE l == LinkOf(r, signed)
  <2>1. r \in Staged /\ r.seq \in Nat /\ r.payload \in Entries
    BY DEF Staged
  <2>2. l \in Link /\ l.hash \in Seq(Entries) /\ l.metaSig \in BOOLEAN
    BY <2>1, LinkType DEF Link
  <2> HIDE DEF l
  <2>3. disk' \in Seq(Link) /\ tail' \in {"clean", "open", "broken"}
    BY <1>4, <2>2, WriteType DEF Commit, l
  <2>4. /\ seq' \in Nat /\ links' \in Seq(Link) /\ firstMeta' \in Nat
        /\ running' \in SUBSET Staged
    BY <1>4, <2>1, <2>2, PushType DEF Commit, CommitToMemory, l
  <2>5. [seq |-> r.seq, head |-> l.hash, by |-> r.payload] \in Signing
    BY <2>1, <2>2 DEF Signing
  <2>6. signing' \in SUBSET Signing /\ acked' \in SUBSET Entries /\ sinceCp' \in Nat
    BY <1>4, <2>1, <2>5 DEF Commit, l
  <2>7. QED
    BY <1>4, <2>3, <2>4, <2>6 DEF Commit
<1>5. ASSUME NEW r \in running, SignFails(r)
      PROVE  TypeOK'
  <2>1. r.payload \in Entries
    BY DEF Staged
  <2>2. QED
    BY <1>5, <2>1 DEF SignFails
<1>6. ASSUME NEW r \in running, NEW signed \in BOOLEAN, NEW cut \in Cuts,
             WriteFails(r, signed, cut)
      PROVE  TypeOK'
  <2> DEFINE l == LinkOf(r, signed)
  <2>1. r \in Staged /\ r.seq \in Nat /\ r.payload \in Entries
    BY DEF Staged
  <2>2. l \in Link /\ l.metaSig \in BOOLEAN
    BY <2>1, LinkType DEF Link
  <2> HIDE DEF l
  <2>3. disk' \in Seq(Link) /\ tail' \in {"clean", "open", "broken"}
    BY <1>6, <2>2, WriteType DEF WriteFails, l
  <2>4. CASE "write" \in Caught
    <3>1. /\ seq' \in Nat /\ links' \in Seq(Link) /\ firstMeta' \in Nat
          /\ running' \in SUBSET Staged /\ refused' \in SUBSET Entries
      BY <1>6, <2>1, <2>2, <2>4, PushType DEF WriteFails, CommitToMemory, l
    <3>2. QED
      BY <1>6, <2>3, <2>4, <3>1 DEF WriteFails
  <2>5. CASE "write" \notin Caught
    BY <1>6, <2>3, <2>5, MemoryLostType DEF WriteFails
  <2>6. QED
    BY <2>4, <2>5
<1>7. ASSUME NEW s \in signing, CheckpointSigned(s)
      PROVE  TypeOK'
  <2>1. s \in Signing /\ Stored(s) \in Statement
    BY DEF Signing, Stored, Statement
  <2>2. cps' \in Seq(Statement)
    BY <1>7, <2>1 DEF CheckpointSigned
  <2>3. {s.by} \ {Shutdown} \subseteq Entries
    BY <2>1 DEF Signing
  <2>4. QED
    BY <1>7, <2>2, <2>3 DEF CheckpointSigned
<1>8. CASE Close
  <2>1. LastHash \in Seq(Entries)
    <3>1. \A i \in 1..Len(links) : links[i] \in Link
      OBVIOUS
    <3>2. links # <<>> => Len(links) \in 1..Len(links)
      OBVIOUS
    <3>3. links # <<>> => links[Len(links)].hash \in Seq(Entries)
      BY <3>1, <3>2 DEF Link
    <3>4. QED
      BY <3>3, EmptySeq DEF LastHash, GENESIS
  <2>2. [seq |-> seq, head |-> LastHash, by |-> Shutdown] \in Signing
    BY <2>1 DEF Signing
  <2>3. signing' \in SUBSET Signing
    BY <1>8, <2>2 DEF Close
  <2>4. QED
    BY <1>8, <2>3 DEF Close
<1>9. CASE Crash
  BY <1>9, MemoryLostType DEF Crash
<1>10. CASE UNCHANGED vars
  BY <1>10 DEF vars
<1>11. QED
  BY <1>1, <1>2, <1>3, <1>4, <1>5, <1>6, <1>7, <1>8, <1>9, <1>10 DEF Next

(* The types of the ledger's state hold in every reachable state: of the    *)
(* constructor, append, init and the checkpoint store.                      *)
THEOREM TypeCorrect == Spec => []TypeOK
<1>1. Init => TypeOK
  BY InitIInv DEF IInv
<1>2. QED
  BY <1>1, TypeStep, PTL DEF Spec
-------------------------------------------------------------------------------
(* What is true of the file, the checkpoints, the acks and the pending      *)
(* statements stays true when the staged link is written at its end.        *)
LEMMA StagedGrows ==
  ASSUME IInv, NEW r \in running, NEW signed \in BOOLEAN, MaySign(signed)
  PROVE  LET l == LinkOf(r, signed)
             e == Append(disk, l)
         IN  /\ l \in Link /\ l.seq = Len(disk) + 1 /\ l.payload = r.payload
             /\ l.seq = r.seq /\ l.metaSig = signed
             /\ e \in Seq(Link) /\ Len(e) = Len(disk) + 1
             /\ FileChain(e) /\ MetaSticky(e)
             /\ l.hash = Covered(e, Len(e))
             /\ Recorded(e, r.payload)
             /\ \A x : Recorded(disk, x) => Recorded(e, x)
             /\ \A n \in 1..Len(disk) : n \in 1..Len(e) /\ Covered(e, n) = Covered(disk, n)
<1> DEFINE l == LinkOf(r, signed)
           e == Append(disk, l)
<1>1. r \in Staged /\ disk \in Seq(Link)
  BY DEF IInv, TypeOK
<1>2. r.seq = Len(disk) + 1 /\ r.prev = Covered(disk, Len(disk))
  BY DEF IInv, StagedIsNext
<1>3. l \in Link
  BY <1>1, LinkType
<1>4. /\ l.seq = r.seq /\ l.prev = r.prev /\ l.payload = r.payload
      /\ l.hash = Append(l.prev, l.payload) /\ l.metaSig = signed
  BY DEF LinkOf
<1>5. RequireMetaSig => l.metaSig
  BY <1>4 DEF MaySign
<1> HIDE DEF l
<1>6. FileChain(disk) /\ MetaSticky(disk)
  BY DEF IInv
<1>7. /\ e \in Seq(Link) /\ Len(e) = Len(disk) + 1
      /\ FileChain(e)
      /\ \A n \in 0..Len(disk) : Covered(e, n) = Covered(disk, n)
      /\ Covered(e, Len(disk) + 1) = l.hash
      /\ \A x : Recorded(disk, x) => Recorded(e, x)
      /\ Recorded(e, l.payload)
      /\ MetaSticky(e)
  BY <1>1, <1>2, <1>3, <1>4, <1>5, <1>6, GrowFile
<1> HIDE DEF e
<1>8. \A n \in 1..Len(disk) : n \in 1..Len(e) /\ Covered(e, n) = Covered(disk, n)
  BY <1>1, <1>7
<1>9. QED
  BY <1>2, <1>3, <1>4, <1>7, <1>8 DEF l, e

(* The parts of the invariant that speak of the file and of what was        *)
(* promised about it, after the staged link has been written.               *)
LEMMA PromisesKept ==
  ASSUME IInv, NEW r \in running, NEW signed \in BOOLEAN, MaySign(signed),
         disk' = Append(disk, LinkOf(r, signed)), UNCHANGED cps,
         acked' \subseteq acked \cup {r.payload}
  PROVE  FileChain(disk)' /\ MetaSticky(disk)' /\ CheckpointsTrue' /\ AckedIsDurable'
<1> DEFINE e == Append(disk, LinkOf(r, signed))
<1>5. /\ FileChain(e) /\ MetaSticky(e) /\ Recorded(e, r.payload)
      /\ \A x : Recorded(disk, x) => Recorded(e, x)
      /\ \A n \in 1..Len(disk) : n \in 1..Len(e) /\ Covered(e, n) = Covered(disk, n)
  BY StagedGrows
<1>6. disk' = e
  OBVIOUS
<1> HIDE DEF e
<1>1. FileChain(disk)' /\ MetaSticky(disk)'
  BY <1>5, <1>6 DEF FileChain, MetaSticky, Covered
<1>2. CheckpointsTrue'
  <2>1. \A k \in 1..Len(cps) :
          cps[k].seq \in 1..Len(e) /\ cps[k].head = Covered(e, cps[k].seq)
    BY <1>5 DEF IInv, CheckpointsTrue
  <2>2. QED
    BY <1>6, <2>1 DEF CheckpointsTrue, Covered
<1>3. AckedIsDurable'
  <2>1. \A x \in acked : Recorded(disk, x)
    BY DEF IInv, AckedIsDurable, Recorded
  <2>2. \A x \in acked' : Recorded(e, x)
    BY <1>5, <2>1
  <2>3. QED
    BY <1>6, <2>2 DEF AckedIsDurable, Recorded
<1>4. QED
  BY <1>1, <1>2, <1>3

(* A step that leaves the file, the checkpoints and the acks alone keeps    *)
(* what is true of them, of the window, and of fewer pending statements.    *)
LEMMA FileUntouched ==
  ASSUME IInv, UNCHANGED <<disk, tail, cps, acked>>
  PROVE  /\ tail' # "open"
         /\ FileChain(disk)' /\ MetaSticky(disk)'
         /\ CheckpointsTrue' /\ AckedIsDurable'
<1>1. tail' # "open"
  BY DEF IInv
<1>2. FileChain(disk)'
  <2>1. FileChain(disk) /\ disk' = disk
    BY DEF IInv
  <2>2. QED
    BY <2>1 DEF FileChain, Covered
<1>3. MetaSticky(disk)'
  BY DEF IInv, MetaSticky
<1>4. CheckpointsTrue'
  BY DEF IInv, CheckpointsTrue, Covered
<1>5. AckedIsDurable'
  BY DEF IInv, AckedIsDurable
<1>6. QED
  BY <1>1, <1>2, <1>3, <1>4, <1>5

LEMMA WindowUntouched ==
  ASSUME IInv, UNCHANGED <<up, disk, tail, seq, links, firstMeta>>
  PROVE  WindowIsFileEnd' /\ FirstMetaSigned' /\ (up' => tail' = "clean")
<1>1. up' => up /\ tail = "clean" /\ seq = Len(disk) /\ links = Window(disk)
  BY DEF IInv, WindowIsFileEnd
<1>2. Window(disk)' = Window(disk)
  BY DEF Window
<1>3. FirstMetaSigned'
  BY DEF IInv, FirstMetaSigned
<1>4. QED
  BY <1>1, <1>2, <1>3 DEF WindowIsFileEnd

LEMMA SigningShrinks ==
  ASSUME IInv, UNCHANGED disk, signing' \subseteq signing
  PROVE  SigningTrue'
BY DEF IInv, SigningTrue, Recorded, Covered

LEMMA StagedShrinks ==
  ASSUME IInv, UNCHANGED <<up, disk>>, running' \subseteq running
  PROVE  StagedIsNext'
BY DEF IInv, StagedIsNext, Covered

LEMMA IInvStep ==
  ASSUME WholeWrites, IInv, [Next]_vars
  PROVE  IInv'
<1>1. TypeOK'
  BY TypeStep DEF IInv
<1>2. CASE Start
  <2>1. /\ UNCHANGED <<disk, tail, cps, acked, running, signing>>
        /\ seq' = Len(disk) /\ links' = Window(disk) /\ tail # "broken" /\ up'
    BY <1>2 DEF Start, MemoryAfterStart
  <2>2. running = {} /\ tail = "clean"
    BY <1>2, <2>1 DEF IInv, StagedIsNext, TypeOK, Start
  <2>3. WindowIsFileEnd'
    BY <2>1 DEF WindowIsFileEnd, Window
  <2>4. StagedIsNext'
    BY <2>1, <2>2 DEF StagedIsNext
  <2>5. FirstMetaSigned'
    <3>1. disk \in Seq(Link) /\ firstMeta' = FirstSigned(disk)
      BY <1>2 DEF IInv, TypeOK, Start, MemoryAfterStart
    <3>2. firstMeta' # 0 => firstMeta' \in MetaSigned(disk)
      BY <3>1, FirstSignedFound
    <3>3. QED
      BY <2>1, <3>2 DEF FirstMetaSigned, MetaSigned
  <2>6. QED
    BY <1>1, <2>1, <2>2, <2>3, <2>4, <2>5, FileUntouched, SigningShrinks DEF IInv
<1>3. ASSUME NEW e \in Entries, Submit(e)
      PROVE  IInv'
  <2>1. UNCHANGED <<up, disk, tail, seq, links, firstMeta, running, signing, cps, acked>>
    BY <1>3 DEF Submit
  <2>2. QED
    BY <1>1, <2>1, FileUntouched, WindowUntouched, SigningShrinks, StagedShrinks
    DEF IInv
<1>4. CASE Stage
  <2>1. UNCHANGED <<up, disk, tail, seq, links, firstMeta, signing, cps, acked>>
    BY <1>4 DEF Stage
  <2>2. LastHash = Covered(disk, Len(disk))
    BY <1>4, LastHashCovers DEF IInv, Stage, WindowIsFileEnd
  <2>3. seq = Len(disk)
    BY <1>4 DEF IInv, Stage, WindowIsFileEnd
  <2>4. StagedIsNext'
    BY <1>4, <2>1, <2>2, <2>3 DEF Stage, QueueFree, StagedIsNext, Covered
  <2>5. QED
    BY <1>1, <2>1, <2>4, FileUntouched, WindowUntouched, SigningShrinks DEF IInv
<1>5. ASSUME NEW r \in running, NEW signed \in BOOLEAN, Commit(r, signed)
      PROVE  IInv'
  <2> DEFINE l == LinkOf(r, signed)
             e == Append(disk, l)
  <2>1. up /\ tail = "clean" /\ MaySign(signed) /\ UNCHANGED <<up, cps>>
    BY <1>5 DEF Commit, IInv
  <2>2. disk' = e /\ tail' = "clean"
    BY <1>5, <2>1 DEF Commit, Write
  <2>3. acked' \subseteq acked \cup {r.payload}
    BY <1>5 DEF Commit
  <2>4. FileChain(disk)' /\ MetaSticky(disk)' /\ CheckpointsTrue' /\ AckedIsDurable'
    BY <2>1, <2>2, <2>3, PromisesKept
  <2>5. /\ l \in Link /\ l.seq = Len(disk) + 1 /\ Len(e) = Len(disk) + 1
        /\ r.seq = l.seq /\ l.hash = Covered(e, Len(e)) /\ Recorded(e, r.payload)
        /\ \A x : Recorded(disk, x) => Recorded(e, x)
        /\ \A n \in 1..Len(disk) : n \in 1..Len(e) /\ Covered(e, n) = Covered(disk, n)
    BY <2>1, StagedGrows
  <2>6. WindowIsFileEnd'
    <3>1. disk \in Seq(Link) /\ links = Window(disk)
      BY <2>1 DEF IInv, TypeOK, WindowIsFileEnd
    <3>2. seq' = Len(disk') /\ links' = Push(links, l)
      BY <1>5, <2>2, <2>5 DEF Commit, CommitToMemory
    <3>3. links' = Window(disk')
      BY <2>2, <2>5, <3>1, <3>2, WindowAppend
    <3>4. QED
      BY <3>2, <3>3 DEF WindowIsFileEnd, Window
  <2>7. StagedIsNext'
    <3>1. running = {r}
      BY DEF IInv, StagedIsNext
    <3>2. running' = {}
      BY <1>5, <3>1 DEF Commit, CommitToMemory
    <3>3. QED
      BY <3>2 DEF StagedIsNext
  <2>8. SigningTrue'
    <3> DEFINE new == [seq |-> r.seq, head |-> l.hash, by |-> r.payload]
    <3>1. signing' \subseteq signing \cup {new}
      BY <1>5 DEF Commit
    <3>2. new.seq = Len(e) /\ new.head = l.hash /\ new.by = r.payload
      BY <2>5
    <3>3. Len(e) \in 1..Len(e)
      <4>1. Len(disk) \in Nat
        BY DEF IInv, TypeOK
      <4>2. QED
        BY <2>5, <4>1
    <3>4. /\ new.seq \in 1..Len(e) /\ new.head = Covered(e, new.seq)
          /\ Recorded(e, new.by)
      BY <2>5, <3>2, <3>3
    <3> HIDE DEF new, e, l
    <3>5. \A s \in signing :
            /\ s.seq \in 1..Len(e) /\ s.head = Covered(e, s.seq)
            /\ s.by # Shutdown => Recorded(e, s.by)
      BY <2>5 DEF IInv, SigningTrue
    <3>6. \A s \in signing' :
            /\ s.seq \in 1..Len(e) /\ s.head = Covered(e, s.seq)
            /\ s.by # Shutdown => Recorded(e, s.by)
      BY <3>1, <3>4, <3>5
    <3>7. QED
      BY <2>2, <3>6 DEF SigningTrue, Covered, Recorded
  <2>9. FirstMetaSigned'
    <3>1. disk \in Seq(Link) /\ r.seq = Len(disk) + 1 /\ l.metaSig \in BOOLEAN /\ l \in Link
      BY <2>5 DEF IInv, TypeOK, Link
    <3>2. firstMeta' = firstMeta \/ (firstMeta' = Len(disk) + 1 /\ l.metaSig)
      BY <1>5, <3>1 DEF Commit, CommitToMemory
    <3> HIDE DEF l
    <3>3. /\ Len(disk') = Len(disk) + 1 /\ disk'[Len(disk) + 1] = l
          /\ \A n \in 1..Len(disk) : disk'[n] = disk[n]
      BY <2>2, <3>1
    <3>4. QED
      BY <3>1, <3>2, <3>3 DEF IInv, FirstMetaSigned
  <2>10. QED
    BY <1>1, <2>1, <2>2, <2>4, <2>6, <2>7, <2>8, <2>9 DEF IInv
<1>6. ASSUME NEW r \in running, SignFails(r)
      PROVE  IInv'
  <2>1. /\ UNCHANGED <<up, disk, tail, seq, links, firstMeta, signing, cps, acked>>
        /\ running' \subseteq running
    BY <1>6 DEF SignFails
  <2>2. QED
    BY <1>1, <2>1, FileUntouched, WindowUntouched, SigningShrinks, StagedShrinks
    DEF IInv
<1>7. ASSUME NEW r \in running, NEW signed \in BOOLEAN, NEW cut \in Cuts,
             WriteFails(r, signed, cut)
      PROVE  IInv'
  <2>1. "write" \notin Caught /\ cut # "unterminated" /\ cut \in {"none", "partial", "whole"}
    BY LedgerAssumption DEF WholeWrites
  <2>2. /\ up' = FALSE /\ running' = {} /\ signing' = {} /\ MaySign(signed)
        /\ firstMeta' = 0 /\ UNCHANGED <<cps, acked>>
    BY <1>7, <2>1 DEF WriteFails, MemoryLost
  <2>3. tail = "clean"
    BY <1>7 DEF WriteFails, IInv
  <2>4. tail' # "open" /\ (disk' = disk \/ disk' = Append(disk, LinkOf(r, signed)))
    BY <1>7, <2>1, <2>3 DEF WriteFails, Write
  <2>5. FileChain(disk)' /\ MetaSticky(disk)' /\ CheckpointsTrue' /\ AckedIsDurable'
    <3>1. CASE disk' = disk
      BY <2>2, <3>1 DEF IInv, FileChain, MetaSticky, Covered, CheckpointsTrue, AckedIsDurable
    <3>2. CASE disk' = Append(disk, LinkOf(r, signed))
      BY <2>2, <3>2, PromisesKept
    <3>3. QED
      BY <2>4, <3>1, <3>2
  <2>6. QED
    BY <1>1, <2>2, <2>4, <2>5
    DEF IInv, FirstMetaSigned, WindowIsFileEnd, StagedIsNext, SigningTrue
<1>8. ASSUME NEW s \in signing, CheckpointSigned(s)
      PROVE  IInv'
  <2>1. UNCHANGED <<disk, tail>> /\ cps' = Append(cps, Stored(s))
    BY <1>8 DEF CheckpointSigned
  <2>2. CheckpointsTrue'
    <3>1. cps \in Seq(Statement) /\ s \in Signing
      BY DEF IInv, TypeOK
    <3>2. Stored(s) \in Statement /\ Stored(s).seq = s.seq /\ Stored(s).head = s.head
      BY <3>1 DEF Stored, Signing, Statement
    <3>3. s.seq \in 1..Len(disk) /\ s.head = Covered(disk, s.seq)
      BY DEF IInv, SigningTrue
    <3>4. \A k \in 1..Len(cps') : IF k \in 1..Len(cps) THEN cps'[k] = cps[k] ELSE cps'[k] = Stored(s)
      BY <2>1, <3>1, <3>2
    <3>5. \A k \in 1..Len(cps') :
            cps'[k].seq \in 1..Len(disk) /\ cps'[k].head = Covered(disk, cps'[k].seq)
      BY <3>2, <3>3, <3>4 DEF IInv, CheckpointsTrue
    <3>6. QED
      BY <2>1, <3>5 DEF CheckpointsTrue, Covered
  <2>3. /\ UNCHANGED <<up, seq, links, firstMeta, running>> /\ signing' = signing \ {s}
        /\ acked' = acked \cup ({s.by} \ {Shutdown})
    BY <1>8 DEF CheckpointSigned
  <2>4. s.by # Shutdown => Recorded(disk, s.by)
    BY DEF IInv, SigningTrue
  <2>5. AckedIsDurable'
    BY <2>1, <2>3, <2>4 DEF IInv, AckedIsDurable, Recorded
  <2>6. WindowIsFileEnd' /\ FirstMetaSigned' /\ (up' => tail' = "clean")
    BY <2>1, <2>3, WindowUntouched
  <2>7. StagedIsNext' /\ SigningTrue'
    BY <2>1, <2>3, StagedShrinks, SigningShrinks
  <2>8. FileChain(disk)' /\ MetaSticky(disk)' /\ tail' # "open"
    <3>1. FileChain(disk) /\ MetaSticky(disk) /\ tail # "open" /\ disk' = disk
      BY <2>1 DEF IInv
    <3>2. QED
      BY <2>1, <3>1 DEF FileChain, MetaSticky, Covered
  <2>9. QED
    BY <1>1, <2>2, <2>5, <2>6, <2>7, <2>8 DEF IInv
<1>9. CASE Close
  <2>1. /\ UNCHANGED <<up, disk, tail, seq, links, firstMeta, running, cps, acked>>
        /\ up /\ seq > 0
        /\ signing' = signing \cup {[seq |-> seq, head |-> LastHash, by |-> Shutdown]}
    BY <1>9 DEF Close
  <2>2. seq = Len(disk) /\ LastHash = Covered(disk, Len(disk))
    BY <2>1, LastHashCovers DEF IInv, WindowIsFileEnd
  <2>3. Len(disk) \in 1..Len(disk)
    BY <2>1, <2>2 DEF IInv, TypeOK
  <2>4. SigningTrue'
    <3> DEFINE new == [seq |-> seq, head |-> LastHash, by |-> Shutdown]
    <3>1. new.seq = Len(disk) /\ new.head = Covered(disk, Len(disk)) /\ new.by = Shutdown
      BY <2>2
    <3>2. signing' = signing \cup {new}
      BY <2>1
    <3> HIDE DEF new
    <3>3. \A s \in signing' :
            /\ s.seq \in 1..Len(disk) /\ s.head = Covered(disk, s.seq)
            /\ s.by # Shutdown => Recorded(disk, s.by)
      BY <2>3, <3>1, <3>2 DEF IInv, SigningTrue
    <3>4. QED
      BY <2>1, <3>3 DEF SigningTrue, Covered, Recorded
  <2>5. QED
    BY <1>1, <2>1, <2>4, FileUntouched, WindowUntouched, StagedShrinks DEF IInv
<1>10. CASE Crash
  <2>1. /\ up' = FALSE /\ running' = {} /\ signing' = {} /\ firstMeta' = 0
        /\ UNCHANGED <<disk, tail, cps, acked>>
    BY <1>10 DEF Crash, MemoryLost
  <2>2. WindowIsFileEnd' /\ FirstMetaSigned' /\ StagedIsNext' /\ SigningTrue'
    BY <2>1 DEF WindowIsFileEnd, FirstMetaSigned, StagedIsNext, SigningTrue
  <2>3. QED
    BY <1>1, <2>1, <2>2, FileUntouched DEF IInv
<1>11. CASE UNCHANGED vars
  <2>1. UNCHANGED <<up, disk, tail, seq, links, firstMeta, running, signing, cps, acked>>
    BY <1>11 DEF vars
  <2>2. QED
    BY <1>1, <2>1, FileUntouched, WindowUntouched, SigningShrinks, StagedShrinks
    DEF IInv
<1>12. QED
  BY <1>2, <1>3, <1>4, <1>5, <1>6, <1>7, <1>8, <1>9, <1>10, <1>11 DEF Next

(* The inductive invariant of the ledger.                                   *)
LEMMA IInvAlways ==
  ASSUME WholeWrites
  PROVE  Spec => []IInv
<1>1. IInv /\ [Next]_vars => IInv'
  BY IInvStep
<1>2. QED
  BY <1>1, InitIInv, PTL DEF Spec

(* For every set of entries, window, checkpoint period and legacy file,     *)
(* every interleaving and every crash: init accepts the file, unless a      *)
(* write was cut inside its last line or it holds an entry that came to     *)
(* append with a signature its own key does not verify.                     *)
THEOREM FileOpens ==
  ASSUME WholeWrites
  PROVE  Spec => []FileOpensIfSigned
<1>1. IInv => FileOpensIfSigned
  BY ChainAccepted DEF IInv, TypeOK, FileOpensIfSigned
<1>2. QED
  BY <1>1, IInvAlways, PTL

(* ... and an entry whose record() resolved is never lost.                  *)
THEOREM AcksDurable ==
  ASSUME WholeWrites
  PROVE  Spec => []AckedIsDurable
<1>1. IInv => AckedIsDurable
  BY DEF IInv
<1>2. QED
  BY <1>1, IInvAlways, PTL

(* ... and the window the trust rules read is the end of the file.          *)
THEOREM WindowFaithful ==
  ASSUME WholeWrites
  PROVE  Spec => []WindowIsFileEnd
<1>1. IInv => WindowIsFileEnd
  BY DEF IInv
<1>2. QED
  BY <1>1, IInvAlways, PTL

(* ... and every stored checkpoint states the true head of the link it      *)
(* names, although links commit while it is being signed.                   *)
THEOREM CheckpointsHold ==
  ASSUME WholeWrites
  PROVE  Spec => []CheckpointsTrue
<1>1. IInv => CheckpointsTrue
  BY DEF IInv
<1>2. QED
  BY <1>1, IInvAlways, PTL

-------------------------------------------------------------------------------
(* What a submitter is told, and that it is told something.                 *)

Queued(e) == \E i \in 1..Len(queue) : queue[i] = e
Writing(e) == \E r \in running : r.payload = e
Awaiting(e) == \E s \in signing : s.by = e

(* No entry is in the file twice, unless the legacy file began that way.    *)
OnceIn(d) ==
  \A m, n \in 1..Len(d) :
    d[m].payload = d[n].payload => m = n \/ (m <= Len(Legacy) /\ n <= Len(Legacy))

(* { ok: true } is said of entries that are in the file, an error of        *)
(* entries that are not.                                                    *)
AnswersAreTrue ==
  /\ \A e \in acked : Recorded(disk, e)
  /\ \A e \in refused : ~Recorded(disk, e)
  /\ OnceIn(disk)

(* An entry waits in one place, and where it waits nothing was said of it   *)
(* and nothing recorded.                                                    *)
PlacesInv ==
  /\ \A i, j \in 1..Len(queue) : queue[i] = queue[j] => i = j
  /\ \A e \in Entries :
       /\ ~(Queued(e) /\ Writing(e))
       /\ Queued(e) \/ Writing(e) => e \in asked /\ ~Recorded(disk, e) /\ e \notin refused
       /\ Recorded(disk, e) => e \in asked /\ e \notin refused
  /\ refused \subseteq asked
  /\ OnceIn(disk)

(* Where an entry goes in one step of a process that goes on: forward in    *)
(* the queue, from its head to the write, from there to an answer or to the *)
(* checkpoint that comes before the answer; answers stay.                   *)
Forward ==
  /\ \A i \in 1..Len(queue) :
       \/ i <= Len(queue') /\ queue'[i] = queue[i]
       \/ i > 1 /\ i - 1 <= Len(queue') /\ queue'[i - 1] = queue[i]
       \/ i = 1 /\ \E r \in running' : r.payload = queue[i]
  /\ \A e \in Entries :
       /\ Writing(e) => Writing(e)' \/ Awaiting(e)' \/ e \in acked' \cup refused'
       /\ Awaiting(e) => Awaiting(e)' \/ e \in acked'
  /\ acked \subseteq acked' /\ refused \subseteq refused'

LEMMA AppendRecords ==
  ASSUME NEW d \in Seq(Link), NEW l \in Link
  PROVE  \A x : Recorded(Append(d, l), x) <=> Recorded(d, x) \/ x = l.payload
<1> DEFINE e == Append(d, l)
<1>1. /\ Len(e) = Len(d) + 1 /\ Len(d) \in Nat /\ e[Len(d) + 1] = l
      /\ \A n \in 1..Len(d) : e[n] = d[n]
  OBVIOUS
<1> HIDE DEF e
<1>2. 1..Len(e) = 1..Len(d) \cup {Len(d) + 1}
  BY <1>1
<1>3. \A x : Recorded(e, x) <=> Recorded(d, x) \/ x = l.payload
  BY <1>1, <1>2 DEF Recorded
<1> QED
  BY <1>3 DEF e

LEMMA AppendOnce ==
  ASSUME NEW d \in Seq(Link), NEW l \in Link, OnceIn(d), ~Recorded(d, l.payload)
  PROVE  OnceIn(Append(d, l))
<1> DEFINE e == Append(d, l)
<1>1. /\ Len(e) = Len(d) + 1 /\ Len(d) \in Nat /\ e[Len(d) + 1] = l
      /\ \A n \in 1..Len(d) : e[n] = d[n]
  OBVIOUS
<1> HIDE DEF e
<1>2. 1..Len(e) = 1..Len(d) \cup {Len(d) + 1}
  BY <1>1
<1>3. \A n \in 1..Len(d) : e[n].payload # l.payload
  BY <1>1 DEF Recorded
<1>4. OnceIn(e)
  BY <1>1, <1>2, <1>3 DEF OnceIn
<1> QED
  BY <1>4 DEF e

LEMMA PlacesInit == Init => PlacesInv
<1> SUFFICES ASSUME Init PROVE PlacesInv
  OBVIOUS
<1>1. /\ queue = <<>> /\ running = {} /\ refused = {} /\ disk = LegacyFile
      /\ asked = {Legacy[n] : n \in 1..Len(Legacy)} /\ Len(Legacy) \in Nat
  BY LedgerAssumption DEF Init
<1>2. Len(disk) = Len(Legacy) /\ \A n \in 1..Len(Legacy) : disk[n].payload = Legacy[n]
  BY <1>1 DEF LegacyFile
<1>3. OnceIn(disk)
  BY <1>1, <1>2 DEF OnceIn
<1>4. \A e \in Entries : Recorded(disk, e) => e \in asked
  BY <1>1, <1>2 DEF Recorded
<1> QED
  BY <1>1, <1>3, <1>4 DEF PlacesInv, Queued, Writing

(* A step that writes nothing and puts nobody in a new place.               *)
LEMMA PlacesKept ==
  ASSUME PlacesInv, UNCHANGED <<disk, asked, refused>>, queue' = queue \/ queue' = <<>>,
         running' \subseteq running
  PROVE  PlacesInv'
<1>1. \A e : /\ Queued(e)' => Queued(e)
             /\ Writing(e)' => Writing(e)
             /\ Recorded(disk, e)' <=> Recorded(disk, e)
  BY DEF Queued, Writing, Recorded
<1>2. OnceIn(disk)'
  BY DEF PlacesInv, OnceIn
<1>3. (\A i, j \in 1..Len(queue) : queue[i] = queue[j] => i = j)'
  BY DEF PlacesInv
<1> QED
  BY <1>1, <1>2, <1>3 DEF PlacesInv

LEMMA PlacesStep ==
  ASSUME WholeWrites, IInv, PlacesInv, [Next]_vars
  PROVE  PlacesInv'
<1>1. CASE Start
  BY <1>1, PlacesKept DEF Start, MemoryAfterStart
<1>2. ASSUME NEW e \in Entries, Submit(e)
      PROVE  PlacesInv'
  <2>1. /\ UNCHANGED <<disk, refused, running>> /\ queue' = Append(queue, e)
        /\ asked' = asked \cup {e} /\ e \notin asked /\ queue \in Seq(Entries)
    BY <1>2 DEF Submit, IInv, TypeOK
  <2>2. /\ Len(queue') = Len(queue) + 1 /\ Len(queue) \in Nat /\ queue'[Len(queue) + 1] = e
        /\ \A i \in 1..Len(queue) : queue'[i] = queue[i]
    BY <2>1
  <2>3. 1..Len(queue') = 1..Len(queue) \cup {Len(queue) + 1}
    BY <2>2
  <2>4. ~Queued(e) /\ ~Writing(e) /\ ~Recorded(disk, e) /\ e \notin refused
    BY <2>1 DEF PlacesInv
  <2>5. \A x : Queued(x)' <=> Queued(x) \/ x = e
    BY <2>2, <2>3 DEF Queued
  <2>6. (\A i, j \in 1..Len(queue) : queue[i] = queue[j] => i = j)'
    BY <2>2, <2>3, <2>4 DEF PlacesInv, Queued
  <2>7. \A x : Writing(x)' = Writing(x) /\ Recorded(disk, x)' = Recorded(disk, x)
    BY <2>1 DEF Writing, Recorded
  <2>8. OnceIn(disk)'
    BY <2>1 DEF PlacesInv, OnceIn
  <2> QED
    BY <2>1, <2>4, <2>5, <2>6, <2>7, <2>8 DEF PlacesInv
<1>3. CASE Stage
  <2> DEFINE h == Head(queue)
  <2>1. /\ UNCHANGED <<disk, asked, refused>> /\ queue # <<>> /\ queue' = Tail(queue)
        /\ queue \in Seq(Entries) /\ running = {}
        /\ running' = {[payload |-> h, seq |-> seq + 1, prev |-> LastHash]}
    BY <1>3 DEF Stage, QueueFree, IInv, TypeOK
  <2>2. /\ Len(queue) \in Nat /\ Len(queue) > 0 /\ Len(queue') = Len(queue) - 1 /\ h = queue[1]
        /\ \A i \in 1..Len(queue') : queue'[i] = queue[i + 1]
    BY <2>1
  <2> HIDE DEF h
  <2>3. \A x : Queued(x)' => Queued(x) /\ x # h
    BY <2>2 DEF Queued, PlacesInv
  <2>4. Queued(h)
    BY <2>2 DEF Queued
  <2>5. \A x : Writing(x)' => x = h
    BY <2>1 DEF Writing
  <2>6. (\A i, j \in 1..Len(queue) : queue[i] = queue[j] => i = j)'
    BY <2>2 DEF PlacesInv
  <2>7. \A x : Recorded(disk, x)' = Recorded(disk, x)
    BY <2>1 DEF Recorded
  <2>8. OnceIn(disk)'
    BY <2>1 DEF PlacesInv, OnceIn
  <2> QED
    BY <2>1, <2>3, <2>4, <2>5, <2>6, <2>7, <2>8 DEF PlacesInv
<1>4. ASSUME NEW r \in running, NEW signed \in BOOLEAN, MaySign(signed),
             disk' = Append(disk, LinkOf(r, signed)), running' \subseteq running \ {r},
             queue' = queue \/ queue' = <<>>, UNCHANGED <<asked, refused>>
      PROVE  PlacesInv'
  <2> DEFINE l == LinkOf(r, signed)
  <2>1. /\ disk \in Seq(Link) /\ r \in Staged /\ running' = {}
        /\ l \in Link /\ l.payload = r.payload /\ r.payload \in Entries
    BY <1>4, StagedGrows DEF IInv, TypeOK, StagedIsNext, Staged
  <2>2. Writing(r.payload)
    BY DEF Writing
  <2>3. /\ ~Recorded(disk, r.payload) /\ ~Queued(r.payload)
        /\ r.payload \in asked /\ r.payload \notin refused
    BY <2>1, <2>2 DEF PlacesInv
  <2>4. disk' = Append(disk, l)
    BY <1>4
  <2> HIDE DEF l
  <2>5. \A x : Recorded(disk', x) <=> Recorded(disk, x) \/ x = r.payload
    BY <2>1, <2>4, AppendRecords
  <2>6. \A x : Recorded(disk, x)' <=> Recorded(disk', x)
    BY DEF Recorded
  <2>7. OnceIn(disk')
    BY <2>1, <2>3, <2>4, AppendOnce DEF PlacesInv
  <2>8. \A x : (Queued(x)' => Queued(x)) /\ ~Writing(x)'
    BY <1>4, <2>1 DEF Queued, Writing
  <2>9. (\A i, j \in 1..Len(queue) : queue[i] = queue[j] => i = j)'
    BY <1>4 DEF PlacesInv
  <2>10. OnceIn(disk)'
    BY <2>7 DEF OnceIn
  <2> QED
    BY <1>4, <2>3, <2>5, <2>6, <2>8, <2>9, <2>10 DEF PlacesInv
<1>5. ASSUME NEW r \in running, NEW signed \in BOOLEAN, Commit(r, signed)
      PROVE  PlacesInv'
  <2>1. tail = "clean"
    BY <1>5 DEF Commit, IInv
  <2> QED
    BY <1>4, <1>5, <2>1 DEF Commit, CommitToMemory, Write
<1>6. ASSUME NEW r \in running, SignFails(r)
      PROVE  PlacesInv'
  <2>1. /\ running' = {} /\ refused' = refused \cup {r.payload} /\ UNCHANGED <<disk, asked, queue>>
        /\ r.payload \in Entries
    BY <1>6 DEF SignFails, IInv, StagedIsNext, TypeOK, Staged
  <2>2. Writing(r.payload)
    BY DEF Writing
  <2>3. ~Recorded(disk, r.payload) /\ ~Queued(r.payload) /\ r.payload \in asked
    BY <2>1, <2>2 DEF PlacesInv
  <2>4. \A x : /\ Queued(x)' = Queued(x) /\ ~Writing(x)'
               /\ Recorded(disk, x)' = Recorded(disk, x)
    BY <2>1 DEF Queued, Writing, Recorded
  <2>5. OnceIn(disk)' /\ (\A i, j \in 1..Len(queue) : queue[i] = queue[j] => i = j)'
    BY <2>1 DEF PlacesInv, OnceIn
  <2> QED
    BY <2>1, <2>3, <2>4, <2>5 DEF PlacesInv
<1>7. ASSUME NEW r \in running, NEW signed \in BOOLEAN, NEW cut \in Cuts,
             WriteFails(r, signed, cut)
      PROVE  PlacesInv'
  <2>1. "write" \notin Caught /\ cut \in {"none", "partial", "whole"}
    BY LedgerAssumption DEF WholeWrites
  <2>2. /\ running' = {} /\ queue' = <<>> /\ MaySign(signed) /\ UNCHANGED <<asked, refused>>
        /\ tail = "clean"
    BY <1>7, <2>1 DEF WriteFails, MemoryLost, IInv
  <2>3. disk' = disk \/ disk' = Append(disk, LinkOf(r, signed))
    BY <1>7, <2>1, <2>2 DEF WriteFails, Write
  <2> QED
    BY <1>4, <2>2, <2>3, PlacesKept
<1>8. ASSUME NEW s \in signing, CheckpointSigned(s)
      PROVE  PlacesInv'
  BY <1>8, PlacesKept DEF CheckpointSigned, MemoryLost
<1>9. CASE Close \/ Crash \/ UNCHANGED vars
  BY <1>9, PlacesKept DEF Close, Crash, MemoryLost, vars
<1> QED
  BY <1>1, <1>2, <1>3, <1>5, <1>6, <1>7, <1>8, <1>9 DEF Next

(* A submitter is told the truth (record, _appendOne): what it got           *)
(* { ok: true } for is in the file, what it got an error for is not, and    *)
(* beyond a legacy file no entry is there twice, through every crash and    *)
(* failed signature.                                                        *)
THEOREM AnswersTrue ==
  ASSUME WholeWrites
  PROVE  Spec => []AnswersAreTrue
<1>1. IInv /\ PlacesInv /\ [Next]_vars => PlacesInv'
  BY PlacesStep
<1>2. IInv /\ PlacesInv => AnswersAreTrue
  BY DEF IInv, TypeOK, AckedIsDurable, PlacesInv, AnswersAreTrue, Recorded
<1> QED
  BY <1>1, <1>2, PlacesInit, IInvAlways, PTL DEF Spec

LEMMA ForwardStep ==
  ASSUME TypeOK, Next, up, up'
  PROVE  Forward
<1> DEFINE Q == \A i \in 1..Len(queue) :
                  \/ i <= Len(queue') /\ queue'[i] = queue[i]
                  \/ i > 1 /\ i - 1 <= Len(queue') /\ queue'[i - 1] = queue[i]
                  \/ i = 1 /\ \E r \in running' : r.payload = queue[i]
<1>q. queue \in Seq(Entries) /\ Len(queue) \in Nat
  BY DEF TypeOK
<1>s. ASSUME queue' = queue PROVE Q
  BY <1>q, <1>s
<1>1. ASSUME NEW e \in Entries, Submit(e)
      PROVE  Forward
  <2>1. /\ UNCHANGED <<running, signing, acked, refused>> /\ queue' = Append(queue, e)
    BY <1>1 DEF Submit
  <2>2. Q
    BY <1>q, <2>1
  <2> QED
    BY <2>1, <2>2 DEF Forward, Writing, Awaiting
<1>2. CASE Stage
  <2>1. /\ UNCHANGED <<signing, acked, refused>> /\ queue # <<>> /\ queue' = Tail(queue)
        /\ running' = running \cup {[payload |-> Head(queue), seq |-> seq + 1, prev |-> LastHash]}
    BY <1>2 DEF Stage
  <2>2. /\ Len(queue) > 0 /\ Len(queue') = Len(queue) - 1 /\ Head(queue) = queue[1]
        /\ \A i \in 1..Len(queue') : queue'[i] = queue[i + 1]
    BY <1>q, <2>1
  <2>3. \E r \in running' : r.payload = queue[1]
    <3> DEFINE new == [payload |-> Head(queue), seq |-> seq + 1, prev |-> LastHash]
    <3>1. new \in running' /\ new.payload = Head(queue)
      BY <2>1
    <3> HIDE DEF new
    <3> QED
      BY <2>2, <3>1
  <2>4. ASSUME NEW i \in 1..Len(queue), i # 1
        PROVE  i > 1 /\ i - 1 <= Len(queue') /\ queue'[i - 1] = queue[i]
    <3>1. i - 1 \in 1..Len(queue') /\ i > 1 /\ (i - 1) + 1 = i
      BY <1>q, <2>2, <2>4
    <3> QED
      BY <2>2, <3>1
  <2>5. Q
    BY <2>3, <2>4
  <2> QED
    BY <2>1, <2>5 DEF Forward, Writing, Awaiting
<1>3. ASSUME NEW r \in running, running' = running \ {r}, UNCHANGED queue,
             signing \subseteq signing', acked \subseteq acked', refused \subseteq refused',
             r.payload \in acked' \cup refused' \/ \E s \in signing' : s.by = r.payload
      PROVE  Forward
  <2>1. \A e : Writing(e) => Writing(e)' \/ Awaiting(e)' \/ e \in acked' \cup refused'
    BY <1>3 DEF Writing, Awaiting
  <2>2. \A e : Awaiting(e) => Awaiting(e)'
    BY <1>3 DEF Awaiting
  <2> QED
    BY <1>s, <1>3, <2>1, <2>2 DEF Forward
<1>4. ASSUME NEW r \in running, NEW signed \in BOOLEAN, Commit(r, signed)
      PROVE  Forward
  <2>1. /\ running' = running \ {r} /\ UNCHANGED <<queue, refused>>
        /\ signing \subseteq signing' /\ acked \subseteq acked'
    BY <1>4 DEF Commit, CommitToMemory
  <2>2. r.payload \in acked' \/ \E s \in signing' : s.by = r.payload
    <3> DEFINE new == [seq |-> r.seq, head |-> LinkOf(r, signed).hash, by |-> r.payload]
    <3>1. CASE sinceCp + 1 >= CheckpointEvery
      <4>1. new \in signing' /\ new.by = r.payload
        BY <1>4, <3>1 DEF Commit
      <4> HIDE DEF new
      <4> QED
        BY <4>1
    <3>2. CASE ~(sinceCp + 1 >= CheckpointEvery)
      BY <1>4, <3>2 DEF Commit
    <3> QED
      BY <3>1, <3>2
  <2> QED
    BY <1>3, <2>1, <2>2
<1>5. ASSUME NEW r \in running, SignFails(r)
      PROVE  Forward
  BY <1>3, <1>5 DEF SignFails
<1>6. ASSUME NEW r \in running, NEW signed \in BOOLEAN, NEW cut \in Cuts,
             WriteFails(r, signed, cut)
      PROVE  Forward
  BY <1>3, <1>6 DEF WriteFails, CommitToMemory
<1>7. ASSUME NEW s \in signing, CheckpointSigned(s)
      PROVE  Forward
  <2>1. /\ signing' = signing \ {s} /\ acked' = acked \cup ({s.by} \ {Shutdown})
        /\ UNCHANGED <<queue, running, refused>>
    BY <1>7 DEF CheckpointSigned
  <2>2. \A e \in Entries : Awaiting(e) => Awaiting(e)' \/ e \in acked'
    BY <2>1, LedgerAssumption DEF Awaiting
  <2> QED
    BY <1>s, <2>1, <2>2 DEF Forward, Writing
<1>8. CASE Close
  <2>1. UNCHANGED <<queue, running, acked, refused>> /\ signing \subseteq signing'
    BY <1>8 DEF Close
  <2> QED
    BY <1>s, <2>1 DEF Forward, Writing, Awaiting
<1> QED
  BY <1>1, <1>2, <1>4, <1>5, <1>6, <1>7, <1>8 DEF Next, Start, Crash

(* The safety half of EverySubmitSettles, whatever fails and however writes *)
(* are cut: while the process goes on, no step loses an entry that was      *)
(* submitted, sends it back or takes back an answer.                        *)
THEOREM NoneStranded == Spec => [][up /\ up' => Forward]_vars
<1>1. TypeOK /\ [Next]_vars => [up /\ up' => Forward]_vars
  BY ForwardStep
<1> QED
  BY <1>1, TypeCorrect, PTL DEF Spec

-------------------------------------------------------------------------------
(* The beginning of what a file covers is what its beginning covers.        *)
LEMMA CoveredPrefix ==
  ASSUME NEW d \in Seq(Link), NEW n \in 1..Len(d)
  PROVE  Covered(d, n) \in Log!Prefixes(Covered(d, Len(d)))
<1> DEFINE s == Covered(d, Len(d))
<1>1. Len(d) \in Nat /\ Len(d) \in 0..Len(d) /\ n \in 0..Len(d)
  OBVIOUS
<1>2. s \in Seq(Entries) /\ Len(s) = Len(d)
  BY <1>1, CoveredType
<1>3. Covered(d, n) \in Seq(Entries) /\ Len(Covered(d, n)) = n
  BY <1>1, CoveredType
<1>4. \A i \in 1..n : Covered(d, n)[i] = s[i]
  BY <1>1 DEF Covered
<1> HIDE DEF s
<1>5. /\ SubSeq(s, 1, n) \in Seq(Entries) /\ Len(SubSeq(s, 1, n)) = n
      /\ \A i \in 1..n : SubSeq(s, 1, n)[i] = s[i]
  BY <1>1, <1>2
<1>6. Covered(d, n) = SubSeq(s, 1, n)
  BY <1>3, <1>4, <1>5, SeqEqual
<1>7. QED
  BY <1>1, <1>2, <1>6 DEF Log!Prefixes, s

LEMMA InitRefines == Init => Log!Init
<1> SUFFICES ASSUME Init PROVE Log!Init
  OBVIOUS
<1>1. disk = LegacyFile /\ acked = {} /\ cps = <<>>
  BY DEF Init
<1>2. Legacy \in Seq(Entries) /\ Len(disk) = Len(Legacy) /\ disk \in Seq(Link)
  <2>1. Legacy \in Seq(Entries) /\ Len(Legacy) \in Nat
    BY LedgerAssumption
  <2>2. disk \in Seq(Link)
    BY <1>1, LegacyIsChain
  <2>3. DOMAIN disk = 1..Len(Legacy)
    BY <1>1 DEF LegacyFile
  <2>4. DOMAIN disk = 1..Len(disk) /\ Len(disk) \in Nat
    BY <2>2
  <2>5. QED
    BY <2>1, <2>2, <2>3, <2>4
<1>3. Covered(disk, Len(disk)) \in Seq(Entries)
      /\ Len(Covered(disk, Len(disk))) = Len(disk)
  BY <1>2, CoveredType
<1>4. \A i \in 1..Len(Legacy) : Covered(disk, Len(disk))[i] = Legacy[i]
  <2>1. \A i \in 1..Len(Legacy) : disk[i].payload = Legacy[i]
    BY <1>1 DEF LegacyFile
  <2>2. \A i \in 1..Len(disk) : Covered(disk, Len(disk))[i] = disk[i].payload
    BY DEF Covered
  <2>3. QED
    BY <1>2, <2>1, <2>2
<1>5. Covered(disk, Len(disk)) = Legacy
  BY <1>2, <1>3, <1>4, SeqEqual
<1>6. {cps[k].head : k \in 1..Len(cps)} = {}
  BY <1>1, EmptySeq
<1>7. QED
  BY <1>1, <1>5, <1>6 DEF Log!Init

(* Writing the staged link records its payload, told to its submitter now   *)
(* or later.                                                                *)
LEMMA WriteRecords ==
  ASSUME IInv, NEW r \in running, NEW signed \in BOOLEAN, MaySign(signed),
         disk' = Append(disk, LinkOf(r, signed)), UNCHANGED cps,
         acked' \in {acked, acked \cup {r.payload}}
  PROVE  Log!Next
<1> DEFINE l == LinkOf(r, signed)
           e == Append(disk, l)
<1>1. l.hash = Covered(e, Len(e))
  BY StagedGrows
<1>2. l.hash = Append(Covered(disk, Len(disk)), r.payload)
  BY DEF LinkOf, IInv, StagedIsNext
<1>3. r.payload \in Entries
  BY DEF IInv, TypeOK, Staged
<1> HIDE DEF l
<1>4. disk' = e
  BY DEF l
<1> HIDE DEF e
<1>5. Covered(disk, Len(disk))' = Append(Covered(disk, Len(disk)), r.payload)
  BY <1>1, <1>2, <1>4 DEF Covered
<1>6. QED
  BY <1>3, <1>5 DEF Log!Next, Log!Record

LEMMA StepRefines ==
  ASSUME WholeWrites, IInv, [Next]_vars
  PROVE  [Log!Next]_(Log!vars)
<1>1. ASSUME UNCHANGED <<disk, acked, cps>>
      PROVE  UNCHANGED Log!vars
  BY <1>1 DEF Log!vars, Covered
<1>2. CASE Start
  BY <1>1, <1>2 DEF Start
<1>3. ASSUME NEW e \in Entries, Submit(e)
      PROVE  UNCHANGED Log!vars
  BY <1>1, <1>3 DEF Submit
<1>4. CASE Stage
  BY <1>1, <1>4 DEF Stage
<1>5. ASSUME NEW r \in running, NEW signed \in BOOLEAN, Commit(r, signed)
      PROVE  Log!Next
  <2>1. tail = "clean" /\ MaySign(signed) /\ UNCHANGED cps
    BY <1>5 DEF Commit, IInv
  <2>2. disk' = Append(disk, LinkOf(r, signed))
    BY <1>5, <2>1 DEF Commit, Write
  <2>3. acked' \in {acked, acked \cup {r.payload}}
    BY <1>5 DEF Commit
  <2>4. QED
    BY <2>1, <2>2, <2>3, WriteRecords
<1>6. ASSUME NEW r \in running, SignFails(r)
      PROVE  UNCHANGED Log!vars
  BY <1>1, <1>6 DEF SignFails
<1>7. ASSUME NEW r \in running, NEW signed \in BOOLEAN, NEW cut \in Cuts,
             WriteFails(r, signed, cut)
      PROVE  [Log!Next]_(Log!vars)
  <2>1. cut \in {"none", "partial", "whole"} /\ tail = "clean" /\ MaySign(signed)
    BY <1>7, LedgerAssumption DEF WholeWrites, WriteFails, IInv
  <2>2. UNCHANGED <<cps, acked>>
    BY <1>7 DEF WriteFails
  <2>3. CASE disk' = disk
    BY <1>1, <2>2, <2>3
  <2>4. CASE disk' = Append(disk, LinkOf(r, signed))
    BY <2>1, <2>2, <2>4, WriteRecords
  <2>5. QED
    BY <1>7, <2>1, <2>3, <2>4 DEF WriteFails, Write
<1>8. ASSUME NEW s \in signing, CheckpointSigned(s)
      PROVE  Log!Next
  <2>1. UNCHANGED disk /\ cps' = Append(cps, Stored(s))
    BY <1>8 DEF CheckpointSigned
  <2>2. cps \in Seq(Statement) /\ s \in Signing /\ disk \in Seq(Link)
    BY DEF IInv, TypeOK
  <2>3. Stored(s) \in Statement /\ Stored(s).head = s.head
    BY <2>2 DEF Stored, Signing, Statement
  <2>4. s.seq \in 1..Len(disk) /\ s.head = Covered(disk, s.seq)
    BY DEF IInv, SigningTrue
  <2>5. s.head \in Log!Prefixes(Covered(disk, Len(disk)))
    BY <2>2, <2>4, CoveredPrefix
  <2>6. {cps[k].head : k \in 1..Len(cps)}' = {cps[k].head : k \in 1..Len(cps)} \cup {s.head}
    <3>1. Len(cps') = Len(cps) + 1 /\ cps'[Len(cps) + 1] = Stored(s)
      BY <2>1, <2>2, <2>3
    <3>2. \A k \in 1..Len(cps) : cps'[k] = cps[k]
      BY <2>1, <2>2, <2>3
    <3>3. Len(cps) \in Nat
      BY <2>2
    <3>4. QED
      BY <2>3, <3>1, <3>2, <3>3
  <2>7. UNCHANGED Covered(disk, Len(disk))
    BY <2>1 DEF Covered
  <2>8. \/ UNCHANGED acked
        \/ \E x \in Entries : Log!Promise(x)
    <3>1. CASE s.by = Shutdown
      BY <1>8, <3>1 DEF CheckpointSigned
    <3>2. CASE s.by # Shutdown
      <4>1. s.by \in Entries /\ acked' = acked \cup {s.by}
        BY <1>8, <2>2, <3>2 DEF CheckpointSigned, Signing
      <4>2. PICK n \in 1..Len(disk) : disk[n].payload = s.by
        BY <3>2 DEF IInv, SigningTrue, Recorded
      <4>3. Covered(disk, Len(disk))[n] = s.by /\ n \in DOMAIN Covered(disk, Len(disk))
        BY <4>2 DEF Covered
      <4>4. QED
        BY <4>1, <4>3 DEF Log!Promise
    <3>3. QED
      BY <3>1, <3>2
  <2>9. QED
    BY <2>5, <2>6, <2>7, <2>8 DEF Log!Next, Log!Attest
<1>9. CASE Close
  BY <1>1, <1>9 DEF Close
<1>10. CASE Crash
  BY <1>1, <1>10 DEF Crash
<1>11. CASE UNCHANGED vars
  BY <1>1, <1>11 DEF vars
<1>12. QED
  BY <1>2, <1>3, <1>4, <1>5, <1>6, <1>7, <1>8, <1>9, <1>10, <1>11 DEF Next

(* The ledger implements the abstract append-only log, for every value of   *)
(* the constants.                                                           *)
THEOREM Refinement ==
  ASSUME WholeWrites
  PROVE  Spec => RefinesAppendLog
<1>1. IInv /\ [Next]_vars => [Log!Next]_(Log!vars)
  BY StepRefines
<1>2. QED
  BY <1>1, InitRefines, IInvAlways, PTL DEF Spec, RefinesAppendLog, Log!Spec
===============================================================================
