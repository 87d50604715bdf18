------------------------------ MODULE PideContract ------------------------------
(***************************************************************************)
(* What the pide shop of the final project promises a customer who comes   *)
(* alone: every order is baked and then delivered, once, and the customer  *)
(* is told with the last delivery, neither before nor twice.  It promises  *)
(* nothing any more once something has troubled it.                        *)
(***************************************************************************)
EXTENDS Naturals, FiniteSets

CONSTANT Orders

VARIABLES
    calm,       \* nothing has troubled the shop so far
    todo,       \* the orders that are still to be baked
    baked,      \* the orders that are still to be delivered
    served      \* how many customers have been told

shopVars == <<calm, todo, baked, served>>

Init == calm = TRUE /\ todo = {} /\ baked = {} /\ served = 0

Come(S) ==
    /\ calm /\ todo = {} /\ baked = {} /\ S # {}
    /\ todo' = S
    /\ UNCHANGED <<calm, baked, served>>

Bake(o) ==
    /\ calm /\ o \in todo
    /\ todo' = todo \ {o} /\ baked' = baked \cup {o}
    /\ UNCHANGED <<calm, served>>

Deliver(o) ==
    /\ calm /\ o \in baked
    /\ baked' = baked \ {o}
    /\ served' = IF todo \cup baked = {o} THEN served + 1 ELSE served
    /\ UNCHANGED <<calm, todo>>

Trouble == calm' = FALSE /\ todo' = {} /\ baked' = {} /\ served' = 0

Next ==
    \/ Trouble
    \/ \E o \in todo : Bake(o)
    \/ \E o \in baked : Deliver(o)
    \/ \E S \in SUBSET Orders : Come(S)

Spec == Init /\ [][Next]_shopVars
===============================================================================
