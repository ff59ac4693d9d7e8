----------------------------- MODULE DeletionGate -----------------------------
(***************************************************************************)
(* What the controller promises to whoever deletes a pod, without its      *)
(* cache, its calls, its crashes or its FSM.  A pod that is protected      *)
(* stays in the API until its deletion has been allowed.  It is allowed    *)
(* only once the pod is being deleted, and only because its process was    *)
(* told to stop and said it was drained, or because its container is       *)
(* known to be off.  Each pod name is used once.                           *)
(*                                                                         *)
(* Variables.                                                              *)
(*   stage[p]      where the API object of p is in its life                *)
(*   protected[p]  it carries the controller's finalizer                   *)
(*   allowed[p]    why its deletion was allowed, "none" if it was not      *)
(*   container[p]  what its container does                                 *)
(***************************************************************************)
CONSTANT Pods

VARIABLES stage, protected, allowed, container

vars == <<stage, protected, allowed, container>>

Init ==
    /\ stage = [p \in Pods |-> "absent"]
    /\ protected = [p \in Pods |-> FALSE]
    /\ allowed = [p \in Pods |-> "none"]
    /\ container = [p \in Pods |-> "off"]

Create(p) ==
    /\ stage[p] = "absent"
    /\ stage' = [stage EXCEPT ![p] = "active"]
    /\ UNCHANGED <<protected, allowed, container>>

Protect(p) ==
    /\ stage[p] = "active"
    /\ protected' = [protected EXCEPT ![p] = TRUE]
    /\ UNCHANGED <<stage, allowed, container>>

Delete(p) ==
    /\ stage[p] = "active"
    /\ stage' = [stage EXCEPT ![p] = "deleting"]
    /\ UNCHANGED <<protected, allowed, container>>

\* What the two reasons for a release are worth.
Justified(p, why) ==
    \/ why = "verified" /\ container[p] # "serving"
    \/ why = "forced" /\ container[p] = "off"

\* A verdict may come when the object is gone already; the first one counts.
Allow(p, why) ==
    /\ stage[p] \in {"deleting", "gone"}
    /\ allowed[p] = "none"
    /\ Justified(p, why)
    /\ allowed' = [allowed EXCEPT ![p] = why]
    /\ UNCHANGED <<stage, protected, container>>

\* The object goes when nothing protects it and its container is off.
Goes(p) ==
    /\ stage[p] = "deleting"
    /\ container[p] = "off"
    /\ stage' = [stage EXCEPT ![p] = "gone"]

Release(p) ==
    /\ stage[p] = "deleting"
    /\ protected[p]
    /\ allowed[p] # "none"
    /\ protected' = [protected EXCEPT ![p] = FALSE]
    /\ Goes(p) \/ UNCHANGED stage
    /\ UNCHANGED <<allowed, container>>

Vanish(p) ==
    /\ ~protected[p]
    /\ Goes(p)
    /\ UNCHANGED <<protected, allowed, container>>

\* A container starts in an active pod, is stopped in one that is being
\* deleted, and ends when it likes.
Container(p) ==
    /\ \/ stage[p] = "active" /\ container[p] = "off"
             /\ container' = [container EXCEPT ![p] = "serving"]
       \/ stage[p] = "deleting" /\ container[p] = "serving"
             /\ container' = [container EXCEPT ![p] = "draining"]
       \/ container[p] # "off"
             /\ container' = [container EXCEPT ![p] = "off"]
    /\ UNCHANGED <<stage, protected, allowed>>

Next ==
    \E p \in Pods :
        \/ Create(p)
        \/ Protect(p)
        \/ Delete(p)
        \/ Allow(p, "verified")
        \/ Allow(p, "forced")
        \/ Release(p)
        \/ Vanish(p)
        \/ Container(p)

Spec == Init /\ [][Next]_vars

=============================================================================
