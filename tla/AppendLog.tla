------------------------------ MODULE AppendLog ------------------------------
(***************************************************************************)
(* What the harbour promises about its record, with no mention of queues,  *)
(* files, signatures or crashes: a log that only grows at its end, of      *)
(* which some entries have been promised to their submitter and some       *)
(* prefixes have been attested under the harbour's root key.  Ledger.tla   *)
(* is shown to implement it.                                               *)
(***************************************************************************)
EXTENDS Naturals, Sequences

CONSTANTS
  Entries,   \* everything that can be recorded
  Initial    \* the log found on first start

VARIABLES
  log,       \* the recorded entries, oldest first
  promised,  \* entries whose submitter was told they are recorded
  attested   \* prefixes of the log signed as checkpoints

vars == <<log, promised, attested>>

Prefixes(s) == {SubSeq(s, 1, n) : n \in 0..Len(s)}

Init ==
  /\ log = Initial
  /\ promised = {}
  /\ attested = {}

Record(e) ==
  /\ log' = Append(log, e)
  /\ promised' \in {promised, promised \cup {e}}
  /\ UNCHANGED attested

Promise(e) ==
  /\ e \in {log[i] : i \in DOMAIN log}
  /\ promised' = promised \cup {e}

Attest ==
  /\ attested' \in {attested \cup {p} : p \in Prefixes(log)}
  /\ UNCHANGED log
  /\ \/ UNCHANGED promised
     \/ \E e \in Entries : Promise(e)

Next == Attest \/ \E e \in Entries : Record(e)

Spec == Init /\ [][Next]_vars
==============================================================================
