------------------------ MODULE MCPersistedBytesIdb ------------------------
(* Instances of PersistedBytesIdb for TLC. *)
EXTENDS PersistedBytesIdb

=============================================================================
