--------------------------- MODULE MCPhantomSwap ---------------------------
(***************************************************************************)
(* Small instances of PhantomSwap.                                         *)
(***************************************************************************)
EXTENDS PhantomSwap, FiniteSets, TLC

CONSTANT LastCall

Symmetry ==
    Permutations(Executions) \cup Permutations(Calls \ {LastCall}) \cup Permutations(Keys)

\* Two swaps have three callbacks and a fault.  The last callback comes after the
\* others, for one swap alone and without fault; without it no link can be replayed.
LastIsAlone ==
    calls[LastCall].pc # "idle" =>
        /\ \A c \in Calls : calls[c].pc # "idle"
        /\ \E e \in Executions : status[e] = "none"
        /\ faults = 0
=============================================================================
