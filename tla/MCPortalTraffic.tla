--------------------------- MODULE MCPortalTraffic ---------------------------
(***************************************************************************)
(* PortalTraffic for TLC: no plan, so one schedule whose resets are far    *)
(* off, and the mixes of callers of the three runs.                        *)
(***************************************************************************)
EXTENDS PortalTraffic, TLC

MCReadings == 0 .. MaxBytes
MCBoundaries == [s \in Schedules |-> {0, MaxTime + 1}]

MCStream == {[callers |-> {"delete"}, time |-> MaxTime]}
MCRefresh == {[callers |-> {"refresh"}, time |-> MaxTime]}
\* A few edits among late events, and everything at once for a shorter time.
MCCallers == {[callers |-> {"update", "reset"}, time |-> MaxTime],
              [callers |-> Callers, time |-> MaxTime - 1]}
=============================================================================
