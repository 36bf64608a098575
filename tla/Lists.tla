-------------------------------- MODULE Lists --------------------------------
(* The lists of src/dbinc/shqueue.h, as sequences.                            *)
EXTENDS Naturals, Sequences

Members(s) == {s[i] : i \in DOMAIN s}

(* The elements of s that are in S, in their order.  A recursive function     *)
(* and not SelectSeq, so that ListTheorems can prove what it returns.         *)
Only(s, S) ==
  LET only[i \in 0 .. Len(s)] ==
        IF i = 0 THEN << >>
        ELSE IF s[i] \in S THEN Append(only[i-1], s[i]) ELSE only[i-1]
  IN  only[Len(s)]

(* SH_TAILQ_INSERT_AFTER the first element.                                   *)
InsertSecond(s, x) == IF s = << >> THEN <<x>> ELSE <<Head(s), x>> \o Tail(s)
=============================================================================
