------------------------------ MODULE MCBackup ------------------------------
(***************************************************************************)
(* Constants of the model-checking run of Migrations and Backup.           *)
(***************************************************************************)
EXTENDS Backup

OneCli == {"cli"}
=============================================================================
