---------------------------- MODULE TxLifecycle ----------------------------
(***************************************************************************)
(* What the post-trade tracker promises (docs/rdr/rdr-2.md, stages 9 and   *)
(* 5.4), without saying how: a submitted transaction is pending until it   *)
(* is settled once, as confirmed or failed; its user hears of it at most   *)
(* once and only afterwards; and no transaction stays pending for ever.    *)
(* SwapExecution implements this specification.                            *)
(***************************************************************************)
EXTENDS Naturals

CONSTANT Executions          \* one transaction per swap execution

VARIABLES tracked,           \* tracked_transactions.status, "none" before the insert
          notices            \* tracker messages the user was sent about it

lifecycleVars == <<tracked, notices>>

Terminal == {"confirmed", "failed"}

LifecycleInit ==
    /\ tracked = [e \in Executions |-> "none"]
    /\ notices = [e \in Executions |-> 0]

Submit(e) ==
    /\ tracked[e] = "none"
    /\ tracked' = [tracked EXCEPT ![e] = "pending"]
    /\ UNCHANGED notices

Settle(e) ==
    /\ tracked[e] = "pending"
    /\ \E s \in Terminal : tracked' = [tracked EXCEPT ![e] = s]
    /\ UNCHANGED notices

Notify(e) ==
    /\ tracked[e] \in Terminal
    /\ notices[e] = 0
    /\ notices' = [notices EXCEPT ![e] = 1]
    /\ UNCHANGED tracked

LifecycleNext == \E e \in Executions : Submit(e) \/ Settle(e) \/ Notify(e)

LifecycleSafety == LifecycleInit /\ [][LifecycleNext]_lifecycleVars

LifecycleSpec ==
    /\ LifecycleSafety
    /\ \A e \in Executions : WF_lifecycleVars(Settle(e))
=============================================================================
