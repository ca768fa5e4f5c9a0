---------------------------- MODULE MCSseManager ----------------------------
(* SseManager for TLC: which objects stand for each other, and the calmer  *)
(* process in which liveness is asked for.  There the user only            *)
(* disconnects: a connect request by hand could only help, and a deleted   *)
(* row or a restart ends every obligation of the liveness properties, so   *)
(* leaving them out keeps the graph small and loses nothing.               *)
EXTENDS SseManager, TLC

Symmetry == Permutations(Conns) \cup Permutations(Listeners)

CalmNext == Next /\ requests' = {}

Closing == mgr' = "booting" => mgr = "booting"

CalmInit == Init /\ \A e \in Endpoints : status[e] # "absent"

ClosingSpec == CalmInit /\ [][CalmNext /\ Closing]_vars /\ Fairness
=============================================================================
