---------------------------- MODULE MCPortalLedger ----------------------------
(***************************************************************************)
(* PortalLedger for TLC, with the values of MCPortalTraffic.               *)
(***************************************************************************)
EXTENDS MCPortalTraffic, PortalLedger
=============================================================================
