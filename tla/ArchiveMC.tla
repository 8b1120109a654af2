----------------------------- MODULE ArchiveMC ------------------------------
(* Small instances of Archive for TLC.                                     *)
EXTENDS Archive
=============================================================================
