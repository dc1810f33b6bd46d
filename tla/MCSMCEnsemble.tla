--------------------------- MODULE MCSMCEnsemble ---------------------------
(***************************************************************************)
(* SMCEnsemble for TLC: two particles, two threads, and two calls, with    *)
(* everything switched on and off: a run that stops after two splits, and  *)
(* one that continues it; one call ends in merge-split, one in a split.    *)
(***************************************************************************)
EXTENDS SMCEnsemble

Call(flag, first, second) ==
    [seq_alpha |-> flag, hard |-> flag, extra |-> flag,
     runs |-> <<[steps |-> first, resample |-> FALSE], [steps |-> second, resample |-> TRUE]>>]

TwoCalls == {Call(TRUE, <<"smc", "ms", "smc">>, <<"smc", "ms">>),
             Call(FALSE, <<"smc", "smc">>, <<"smc">>)}
=============================================================================
