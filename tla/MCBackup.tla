------------------------------ MODULE MCBackup ------------------------------
(* A small instance with exports for TLC. *)
EXTENDS Backup

=============================================================================
