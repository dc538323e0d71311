--------------------------- MODULE MCConfigLoader ---------------------------
(***************************************************************************)
(* Small instances of ConfigLoader: three attempts, two reconnects and one *)
(* change of the setting.                                                  *)
(***************************************************************************)
EXTENDS ConfigLoader
=============================================================================
