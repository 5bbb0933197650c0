---------------------------- MODULE MCRunWatcher ----------------------------
(* Small instances of RunWatcher. *)
EXTENDS RunWatcher

CONSTANTS d1, c1
=============================================================================
