------------------------------ MODULE MCConfigTx ------------------------------
(* Small instances of ConfigTx for TLC. *)
EXTENDS ConfigTx
=============================================================================
