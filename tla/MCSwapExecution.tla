-------------------------- MODULE MCSwapExecution --------------------------
(***************************************************************************)
(* Small instances of SwapExecution.                                       *)
(***************************************************************************)
EXTENDS SwapExecution, TLC

\* All executions belong to one intent: several options of one quote.
OneIntent == [e \in Executions |-> CHOOSE i \in Intents : TRUE]

\* On one intent, executions are interchangeable, and so are ticks.
Symmetry == Permutations(Executions) \cup Permutations(Ticks)
=============================================================================
