----------------------------- MODULE MCLogBuffer ------------------------------
EXTENDS LogBuffer

(* The first thread makes every call; the others commit, and ask for what     *)
(* is there to be flushed, so that somebody is there to wait with it.         *)
FirstCallsAll(t) ==
  CASE t = 1 -> {"none", "wrnosync", "flush"}
    [] t = 2 -> {"flush", "log_flush"}
    [] OTHER -> {"flush", "log_flush_all"}

AllCommit(t) == {"none", "flush"}
=============================================================================
