------------------------------ MODULE MCTeamRun -------------------------------
(* Two coders of different vendors, a reviewer, a tester and a planner, in   *)
(* the wave plans of composeAssignments, of the A2A bridge, of serialExec    *)
(* and of a team that only audits.                                           *)
EXTENDS TeamRun

CONSTANTS c1, c2, rv, ts, pl

MCSeats == {c1, c2, rv, ts, pl}
MCWriters == {c1, c2}
MCVerifiers == {rv, ts}
MCFollowUp == {c1}
MCHarness == [s \in MCSeats |-> IF s \in {c1, ts, pl} THEN "claude" ELSE "codex"]

Loop == <<{c1, c2}, {rv, ts}>>
OneVendor == <<{c1, c2}, {rv}>>
Bridge == <<{c1}, {rv, ts}>>
Serial == <<{c1}, {rv}, {c2}, {ts}>>
Unseen == <<{c1}, {rv}, {c2}>>
TwoReaders == <<{c1}, {rv}, {ts}>>
Audit == <<{rv, ts}>>
Planned == <<{pl}, {c1}, {rv}>>

MCShapes == {Loop, OneVendor, Bridge, Serial, Unseen, TwoReaders, Audit, Planned}
PlannedOnly == {Planned}
MCAuthorities == {NoBudget, 4}
MCCharges == {0, 4}
===============================================================================
