-------------------------------- MODULE Tenancy --------------------------------
(***************************************************************************)
(* What the record-keeping components of the API have in common: the       *)
(* establishments (University rows), their students, and the requests the  *)
(* API instances can process at one time.                                  *)
(***************************************************************************)
EXTENDS Integers, FiniteSets

CONSTANTS
    Universities,
    Students,
    Handlers,
    None

ASSUME NoneAssumption == None \notin Universities \union Students
=============================================================================
