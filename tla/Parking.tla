-------------------------------- MODULE Parking --------------------------------
(***************************************************************************)
(* The parking lot of Homework3/hw3.c.  Car owners bring vehicles of two   *)
(* kinds through one ring of pointers; each kind has an attendant, who     *)
(* takes whatever stands at the front of the ring.  Semaphores announce a  *)
(* vehicle to its attendant and the end of the parking to its owner.       *)
(*                                                                         *)
(* Each semaphore operation and each section under queue_lock or           *)
(* parking_lock is one step.  A vehicle is a piece of memory: malloc takes *)
(* one that is not allocated, free gives it back.  Time is left out: any   *)
(* parked vehicles may have stayed long enough.  SIGINT ends the process.  *)
(***************************************************************************)
EXTENDS Naturals, FiniteSets

CONSTANTS
    Owners,                 \* the car owner threads
    Vehicles,               \* what malloc may return
    PICKUP_CAPACITY, AUTOMOBILE_CAPACITY, QUEUE_CAPACITY,
    NULL

ASSUME CapacityAssumption ==
    /\ PICKUP_CAPACITY \in Nat \ {0}
    /\ AUTOMOBILE_CAPACITY \in Nat \ {0}
    /\ QUEUE_CAPACITY \in Nat \ {0}

Types == {"pickup", "automobile"}       \* also the two attendants

ASSUME NullAssumption == NULL \notin Vehicles \cup Owners \cup Types

Places == [t \in Types |-> IF t = "pickup" THEN PICKUP_CAPACITY
                                           ELSE AUTOMOBILE_CAPACITY]
Cells == 0 .. QUEUE_CAPACITY - 1

VARIABLES
    vehicle_arrival_lock,   \* the owner that holds it, or NULL
    owner, brings, vtype,   \* each owner: its step, its vehicle, of what kind
    heap,                   \* the vehicles that are allocated
    vehicle_queue, queue_front, queue_rear,
    freeSlot, newVehicle, inCharge, done,   \* the semaphores
    attendant, vehicle,     \* each attendant: its step and its vehicle
    parking, mFree          \* the slots of each lot, and their free count

ring == <<vehicle_queue, queue_front, queue_rear>>
lots == <<parking, mFree>>
ownerVars == <<vehicle_arrival_lock, owner, brings, vtype>>
attendantVars == <<attendant, vehicle>>
vars == <<vehicle_arrival_lock, owner, brings, vtype, heap, vehicle_queue,
          queue_front, queue_rear, freeSlot, newVehicle, inCharge, done,
          attendant, vehicle, parking, mFree>>

Init ==
    /\ vehicle_arrival_lock = NULL
    /\ owner = [o \in Owners |-> "away"]
    /\ brings = [o \in Owners |-> NULL]
    /\ vtype = [o \in Owners |-> NULL]
    /\ heap = {}
    /\ vehicle_queue = [i \in Cells |-> NULL]
    /\ queue_front = 0 /\ queue_rear = 0
    /\ freeSlot = QUEUE_CAPACITY
    /\ newVehicle = [t \in Types |-> 0]
    /\ inCharge = [t \in Types |-> 1]
    /\ done = [t \in Types |-> 0]
    /\ attendant = [t \in Types |-> "await"]
    /\ vehicle = [t \in Types |-> NULL]
    /\ parking = [t \in Types |-> [i \in 1 .. Places[t] |-> NULL]]
    /\ mFree = Places

-----------------------------------------------------------------------------
OwnerGoes(o, from, to) ==
    owner[o] = from /\ owner' = [owner EXCEPT ![o] = to]

AttendantGoes(t, from, to) ==
    attendant[t] = from /\ attendant' = [attendant EXCEPT ![t] = to]

(* sem_wait and sem_post on the semaphore that s has for t.                *)
Wait(s, t) == s[t] > 0 /\ s' = [s EXCEPT ![t] = @ - 1]
Post(s, t) == s' = [s EXCEPT ![t] = @ + 1]

(* The place in the ring after i.                                          *)
After(i) == (i + 1) % QUEUE_CAPACITY

(* Mutant: nothing serializes the arrivals.                                *)
ArriveUnserialized(o) ==
    /\ OwnerGoes(o, "away", "arrived")
    /\ vehicle_arrival_lock' = o
    /\ \E v \in Vehicles \ heap, t \in Types :
         /\ brings' = [brings EXCEPT ![o] = v]
         /\ vtype' = [vtype EXCEPT ![o] = t]
         /\ heap' = heap \cup {v}
    /\ UNCHANGED <<ring, freeSlot, newVehicle, inCharge, done, attendantVars,
                   lots>>

(* A vehicle of some kind: from here to its release the owner keeps the    *)
(* arrival lock.                                                           *)
Arrive(o) ==
    /\ OwnerGoes(o, "away", "arrived")
    /\ vehicle_arrival_lock = NULL /\ vehicle_arrival_lock' = o
    /\ \E v \in Vehicles \ heap, t \in Types :
         /\ brings' = [brings EXCEPT ![o] = v]
         /\ vtype' = [vtype EXCEPT ![o] = t]
         /\ heap' = heap \cup {v}
    /\ UNCHANGED <<ring, freeSlot, newVehicle, inCharge, done, attendantVars,
                   lots>>

TakeSlot(o) ==
    /\ OwnerGoes(o, "arrived", "enqueue")
    /\ freeSlot > 0 /\ freeSlot' = freeSlot - 1
    /\ UNCHANGED <<vehicle_arrival_lock, brings, vtype, heap, ring, newVehicle,
                   inCharge, done, attendantVars, lots>>

Enqueue(o) ==
    /\ OwnerGoes(o, "enqueue", "announce")
    /\ vehicle_queue' = [vehicle_queue EXCEPT ![queue_rear] = brings[o]]
    /\ queue_rear' = After(queue_rear)
    /\ UNCHANGED <<vehicle_arrival_lock, brings, vtype, heap, queue_front,
                   freeSlot, newVehicle, inCharge, done, attendantVars, lots>>

Announce(o) ==
    /\ OwnerGoes(o, "announce", "waiting")
    /\ Post(newVehicle, vtype[o])
    /\ UNCHANGED <<vehicle_arrival_lock, brings, vtype, heap, ring, freeSlot,
                   inCharge, done, attendantVars, lots>>

(* The parking is done: the next vehicle may arrive.                       *)
Leave(o) ==
    /\ OwnerGoes(o, "waiting", "away")
    /\ Wait(done, vtype[o])
    /\ vehicle_arrival_lock' = NULL
    /\ brings' = [brings EXCEPT ![o] = NULL]
    /\ vtype' = [vtype EXCEPT ![o] = NULL]
    /\ UNCHANGED <<heap, ring, freeSlot, newVehicle, inCharge,
                   attendantVars, lots>>

-----------------------------------------------------------------------------
AwaitNew(t) ==
    /\ AttendantGoes(t, "await", "charge")
    /\ Wait(newVehicle, t)
    /\ UNCHANGED <<ownerVars, heap, ring, freeSlot, inCharge, done, vehicle,
                   lots>>

TakeCharge(t) ==
    /\ AttendantGoes(t, "charge", "take")
    /\ Wait(inCharge, t)
    /\ UNCHANGED <<ownerVars, heap, ring, freeSlot, newVehicle, done, vehicle,
                   lots>>

Take(t) ==
    /\ AttendantGoes(t, "take", "free_slot")
    /\ vehicle' = [vehicle EXCEPT ![t] = vehicle_queue[queue_front]]
    /\ queue_front' = After(queue_front)
    /\ UNCHANGED <<ownerVars, heap, vehicle_queue, queue_rear, freeSlot,
                   newVehicle, inCharge, done, lots>>

FreeSlot(t) ==
    /\ AttendantGoes(t, "free_slot", "park")
    /\ freeSlot' = freeSlot + 1
    /\ UNCHANGED <<ownerVars, heap, ring, newVehicle, inCharge, done, vehicle,
                   lots>>

FreeSlots(t) == {i \in 1 .. Places[t] : parking[t][i] = NULL}
FirstFree(t) == CHOOSE i \in FreeSlots(t) : \A j \in FreeSlots(t) : i <= j

(* The counter decides whether there is room, the slots where it is.       *)
Park(t) ==
    /\ AttendantGoes(t, "park", "discharge")
    /\ mFree[t] > 0
    /\ IF FreeSlots(t) = {} THEN UNCHANGED lots
       ELSE /\ parking' = [parking EXCEPT ![t][FirstFree(t)] = vehicle[t]]
            /\ mFree' = [mFree EXCEPT ![t] = @ - 1]
    /\ UNCHANGED <<ownerVars, heap, ring, freeSlot, newVehicle, inCharge, done,
                   vehicle>>

TurnAway(t) ==
    /\ AttendantGoes(t, "park", "discharge")
    /\ ~(mFree[t] > 0)
    /\ heap' = heap \ {vehicle[t]}
    /\ UNCHANGED <<ownerVars, ring, freeSlot, newVehicle, inCharge, done,
                   vehicle, lots>>

Discharge(t) ==
    /\ AttendantGoes(t, "discharge", "done")
    /\ Post(inCharge, t)
    /\ UNCHANGED <<ownerVars, heap, ring, freeSlot, newVehicle, done, vehicle,
                   lots>>

(* Mutant: the owner of the other kind is told.                            *)
DoneToOther(t) ==
    /\ AttendantGoes(t, "done", "check_pickup")
    /\ Post(done, CHOOSE u \in Types : u # t)
    /\ UNCHANGED <<ownerVars, heap, ring, freeSlot, newVehicle, inCharge,
                   vehicle, lots>>

Done(t) ==
    /\ AttendantGoes(t, "done", "check_pickup")
    /\ Post(done, t)
    /\ UNCHANGED <<ownerVars, heap, ring, freeSlot, newVehicle, inCharge,
                   vehicle, lots>>

(* Mutant: the slot keeps its pointer to the freed vehicle.                *)
RemoveKeepsSlot(t, S) ==
    /\ heap' = heap \ {parking[t][i] : i \in S}
    /\ mFree' = [mFree EXCEPT ![t] = @ + Cardinality(S)]
    /\ UNCHANGED parking

(* The vehicles in the slots S of lot t leave.                             *)
Remove(t, S) ==
    /\ heap' = heap \ {parking[t][i] : i \in S}
    /\ parking' = [parking EXCEPT
                     ![t] = [i \in 1 .. Places[t] |->
                               IF i \in S THEN NULL ELSE parking[t][i]]]
    /\ mFree' = [mFree EXCEPT ![t] = @ + Cardinality(S)]

(* checkAndRemoveExpiredVehicles: each attendant looks at both lots.       *)
Check(a, t, from, to) ==
    /\ AttendantGoes(a, from, to)
    /\ \E S \in SUBSET (1 .. Places[t] \ FreeSlots(t)) : Remove(t, S)
    /\ vehicle' = [vehicle EXCEPT ![a] = NULL]
    /\ UNCHANGED <<ownerVars, ring, freeSlot, newVehicle, inCharge, done>>

-----------------------------------------------------------------------------
OwnerStep(o) ==
    Arrive(o) \/ TakeSlot(o) \/ Enqueue(o) \/ Announce(o) \/ Leave(o)

AttendantStep(t) ==
    \/ AwaitNew(t) \/ TakeCharge(t) \/ Take(t) \/ FreeSlot(t)
    \/ Park(t) \/ TurnAway(t) \/ Discharge(t) \/ Done(t)
    \/ Check(t, "pickup", "check_pickup", "check_automobile")
    \/ Check(t, "automobile", "check_automobile", "await")

Next == (\E o \in Owners : OwnerStep(o)) \/ (\E t \in Types : AttendantStep(t))

Spec == Init /\ [][Next]_vars

(* Attendants and an owner that has arrived go on when they can; nobody    *)
(* has to bring a vehicle, and no vehicle has to leave.                    *)
FairSpec ==
    /\ Spec
    /\ \A o \in Owners : WF_vars(TakeSlot(o) \/ Enqueue(o) \/ Announce(o)
                                 \/ Leave(o))
    /\ \A t \in Types : WF_vars(AttendantStep(t))

-----------------------------------------------------------------------------
(* Where the vehicle of the owner that holds the arrival lock is.          *)
OwnerAt(S) == \E o \in Owners : owner[o] \in S
Announced(S) == \E t \in Types : newVehicle[t] = 1 \/ attendant[t] \in S

OnRing == OwnerAt({"announce"}) \/ Announced({"charge", "take"})
HoldsSlot ==
    OwnerAt({"enqueue", "announce"}) \/ Announced({"charge", "take", "free_slot"})
InService ==
    \/ OwnerAt({"arrived", "enqueue", "announce"})
    \/ Announced({"charge", "take", "free_slot", "park"})

Guest == brings[vehicle_arrival_lock]
Lot(t) == {parking[t][i] : i \in 1 .. Places[t]} \ {NULL}
Parked == UNION {Lot(t) : t \in Types}

Busy(t) == attendant[t] \in {"charge", "take", "free_slot", "park",
                             "discharge", "done"}
Awaited(t) == \E o \in Owners : owner[o] = "waiting" /\ vtype[o] = t
One(b) == IF b THEN 1 ELSE 0

TypeOK ==
    /\ vehicle_arrival_lock \in Owners \cup {NULL}
    /\ owner \in [Owners -> {"away", "arrived", "enqueue", "announce",
                             "waiting"}]
    /\ brings \in [Owners -> Vehicles \cup {NULL}]
    /\ vtype \in [Owners -> Types \cup {NULL}]
    /\ heap \subseteq Vehicles
    /\ vehicle_queue \in [Cells -> Vehicles \cup {NULL}]
    /\ queue_front \in Cells /\ queue_rear \in Cells
    /\ freeSlot \in 0 .. QUEUE_CAPACITY
    /\ newVehicle \in [Types -> {0, 1}]
    /\ inCharge \in [Types -> {0, 1}]
    /\ done \in [Types -> {0, 1}]
    /\ attendant \in [Types -> {"await", "charge", "take", "free_slot", "park",
                                "discharge", "done", "check_pickup",
                                "check_automobile"}]
    /\ vehicle \in [Types -> Vehicles \cup {NULL}]
    /\ parking = [t \in Types |-> parking[t]]
    /\ \A t \in Types : parking[t] \in [1 .. Places[t] -> Vehicles \cup {NULL}]
    /\ mFree \in [Types -> Nat]

(* An owner that is not away holds the lock, and has a vehicle.            *)
Serialized ==
    \A o \in Owners : /\ owner[o] # "away" <=> vehicle_arrival_lock = o
                      /\ owner[o] # "away" => brings[o] # NULL /\ vtype[o] # NULL

(* One announcement, one attendant at work or one release for the owner    *)
(* that waits, of its kind, and none of another kind.                      *)
OneToken ==
    \A t \in Types :
        newVehicle[t] + One(Busy(t)) + done[t] = One(Awaited(t))

SemaphoresExact ==
    /\ freeSlot = QUEUE_CAPACITY - One(HoldsSlot)
    /\ \A t \in Types :
        inCharge[t] = One(attendant[t] \notin {"take", "free_slot", "park",
                                               "discharge"})

(* hw3.c:126: an attendant takes the front of the ring without a look at   *)
(* it; it is the vehicle of the owner that waits.                          *)
RingExact ==
    /\ queue_rear = IF OnRing THEN After(queue_front) ELSE queue_front
    /\ OnRing => vehicle_queue[queue_front] = Guest
    /\ \A t \in Types :
         attendant[t] \in {"free_slot", "park"} => vehicle[t] = Guest

(* Every allocated vehicle is in one place, and no freed one in any.       *)
MemoryExact ==
    /\ heap = Parked \cup (IF InService THEN {Guest} ELSE {})
    /\ InService => Guest \notin Parked
    /\ \A t, u \in Types : \A i \in 1 .. Places[t], j \in 1 .. Places[u] :
         parking[t][i] = parking[u][j] /\ parking[t][i] # NULL
             => t = u /\ i = j

(* The counters agree with the slots, so a vehicle is turned away only     *)
(* when its lot is full, and never lost (Park with no slot).               *)
FreeExact == \A t \in Types : mFree[t] = Cardinality(FreeSlots(t))

IInv ==
    /\ TypeOK /\ Serialized /\ OneToken /\ SemaphoresExact /\ RingExact
    /\ MemoryExact /\ FreeExact

(* The lot behaves as ParkingLot says: each vehicle goes to the lot of its *)
(* own kind, or is turned away exactly when that lot is full.              *)
Contract == INSTANCE ParkingLot WITH
    lot <- [t \in Types |-> Lot(t)],
    guest <- IF InService THEN <<Guest, vtype[vehicle_arrival_lock]>> ELSE NULL
LotRefinement == Contract!Spec

(* Whoever comes gets rid of the vehicle, and the next may come.           *)
OwnersServed ==
    \A o \in Owners : owner[o] = "arrived" ~> owner[o] = "away"
===============================================================================
