------------------------- MODULE MCWatchUpload -------------------------
(* Small instances of WatchUpload for TLC. *)
EXTENDS WatchUpload
=============================================================================
