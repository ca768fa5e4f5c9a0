------------------------ MODULE MCRegistrationTokens ------------------------
(* RegistrationTokens for TLC.  Tokens and calls are interchangeable, but  *)
(* the run has a liveness property, for which symmetry would be unsound.   *)
EXTENDS RegistrationTokens, TLC
=============================================================================
