-------------------------- MODULE MCAccountDeletion ---------------------------
(***************************************************************************)
(* Constants of the runs of AccountDeletion.                               *)
(***************************************************************************)
EXTENDS AccountDeletion

CONSTANTS u1, u2, i1, i2, loop
=============================================================================
