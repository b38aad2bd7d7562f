------------------------------ MODULE MCSteward -------------------------------
(* The steward with one typed run and up to two heartbeat runs in flight.    *)
EXTENDS Steward

MCLevels == {0, 2}
===============================================================================
