-------------------------- MODULE MCDownloadQueue --------------------------
(* Small instances of DownloadQueue for TLC.                               *)
EXTENDS DownloadQueue
=============================================================================
