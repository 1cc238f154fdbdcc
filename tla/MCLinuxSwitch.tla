--------------------------- MODULE MCLinuxSwitch ---------------------------
(* The system's python, a good source and one that does not prove itself,  *)
(* each of another version; two keys.                                      *)
EXTENDS SwitchMark, TLC

CONSTANTS system, good, bad

MCVersionOf == system :> 1 @@ good :> 2 @@ bad :> 3
=============================================================================
