-------------------------------- MODULE MCCore --------------------------------
(***************************************************************************)
(* One name and three handlers of the application: two that race for the   *)
(* name, and a third that comes before, between or after them.             *)
(***************************************************************************)
EXTENDS Core

CONSTANTS db
MCNames == {db}
=============================================================================
