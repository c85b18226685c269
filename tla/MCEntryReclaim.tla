--------------------------- MODULE MCEntryReclaim ---------------------------
(* An instance of EntryReclaim for TLC. *)
EXTENDS EntryReclaim
=============================================================================
