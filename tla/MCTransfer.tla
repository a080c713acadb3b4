----------------------------- MODULE MCTransfer -----------------------------
(* Instances of Transfer for TLC. *)
EXTENDS Transfer, TLC

CONSTANTS f1, f2

=============================================================================
