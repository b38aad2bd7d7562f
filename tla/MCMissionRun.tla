----------------------------- MODULE MCMissionRun -----------------------------
(* Two tasks of one wave, one of them gated, and a role that a               *)
(* reorganization adds behind the gated one.                                 *)
EXTENDS MissionRun, TLC

CONSTANTS a, g, x

MCPlan == {a, g}
MCExtra == {x}
MCDeps == (a :> {}) @@ (g :> {}) @@ (x :> {g})
MCGated == {g}
MCRetries == {1, 3}
===============================================================================
