------------------------ MODULE MCBackupMaintenance ------------------------
(* Versions 0 to 2 of each part of an installation. *)
EXTENDS BackupMaintenance
=============================================================================
