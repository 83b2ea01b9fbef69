-------------------------- MODULE MCDownloadEngine --------------------------
(* Instances of DownloadEngine for TLC. *)
EXTENDS DownloadEngine

=============================================================================
