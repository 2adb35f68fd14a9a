---------------------------- MODULE MCConfigSave ----------------------------
(* Small instances of ConfigSave for TLC. *)
EXTENDS ConfigSave, TLC
=============================================================================
