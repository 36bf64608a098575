------------------------------- MODULE MCLogApply -------------------------------
(* Two masters whose logs part after the first record.                     *)
EXTENDS LogApply

MCGeneration == {1, 2}

R(kind, gen) == [kind |-> kind, gen |-> gen]

MCMasterLog(g) ==
  IF g = 1 THEN <<R("ckp", 1), R("commit", 1), R("other", 1), R("commit", 1)>>
           ELSE <<R("ckp", 1), R("commit", 2), R("newfile", 2), R("ckp", 2)>>
=============================================================================
