--------------------------- MODULE MCAlertOutbox ---------------------------
(***************************************************************************)
(* AlertOutbox for TLC.  Two dispatchers share the rows of two or three    *)
(* alerts; one alert may be refused by the receiver for ever.              *)
(***************************************************************************)
EXTENDS AlertOutbox, TLC

Symmetry == Permutations(Worker)
=============================================================================
