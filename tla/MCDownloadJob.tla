--------------------------- MODULE MCDownloadJob ---------------------------
(* Small instances of DownloadJob for TLC: what a lie or a torn save costs. *)
EXTENDS DownloadJob

=============================================================================
