------------------------------ MODULE ParkingLot ------------------------------
(***************************************************************************)
(* What the parking lot of Homework3 promises: vehicles come one at a      *)
(* time; one that comes is parked in the lot of its own kind if that lot   *)
(* has a free place and turned away otherwise; parked vehicles leave at    *)
(* any time.                                                               *)
(***************************************************************************)
EXTENDS Naturals, FiniteSets

CONSTANTS
    Vehicles,
    Types,      \* kinds of vehicles, each with a lot of its own
    Places,     \* the size of each lot
    NULL

VARIABLES
    lot,        \* the vehicles parked in each lot
    guest       \* the vehicle that is being served and its kind, or NULL

lotVars == <<lot, guest>>

Init == lot = [t \in Types |-> {}] /\ guest = NULL

Parked == UNION {lot[t] : t \in Types}

Arrive(v, t) ==
    /\ guest = NULL /\ v \notin Parked
    /\ guest' = <<v, t>>
    /\ UNCHANGED lot

Park(v, t) ==
    /\ guest = <<v, t>> /\ Cardinality(lot[t]) < Places[t]
    /\ lot' = [lot EXCEPT ![t] = @ \cup {v}]
    /\ guest' = NULL

TurnAway(v, t) ==
    /\ guest = <<v, t>> /\ Cardinality(lot[t]) = Places[t]
    /\ guest' = NULL
    /\ UNCHANGED lot

Depart(t, S) ==
    /\ S \subseteq lot[t]
    /\ lot' = [lot EXCEPT ![t] = @ \ S]
    /\ UNCHANGED guest

Next ==
    \/ \E v \in Vehicles, t \in Types :
         Arrive(v, t) \/ Park(v, t) \/ TurnAway(v, t)
    \/ \E t \in Types : \E S \in SUBSET lot[t] : Depart(t, S)

Spec == Init /\ [][Next]_lotVars
===============================================================================
