---------------------------- MODULE Parking_proofs ----------------------------
(***************************************************************************)
(* Proofs about Parking, for any owners, vehicles and capacities.          *)
(***************************************************************************)
EXTENDS Parking, FiniteSetTheorems, WellFoundedInduction, TLAPS

AtWork == {"charge", "take", "free_slot", "park", "discharge", "done"}
Quiet(t) == newVehicle[t] = 0 /\ ~Busy(t) /\ done[t] = 0

(* Nobody but the holder of the arrival lock is on the way.                *)
LEMMA HolderAlone ==
  ASSUME Serialized, NEW o \in Owners, owner[o] # "away"
  PROVE  /\ vehicle_arrival_lock = o
         /\ \A S : "away" \notin S => (OwnerAt(S) <=> owner[o] \in S)
         /\ \A t \in Types : Awaited(t) <=> (owner[o] = "waiting" /\ vtype[o] = t)
  BY DEF Serialized, OwnerAt, Awaited

(* Nothing is going on for an owner that is not waiting, or when no one is *)
(* there.                                                                  *)
LEMMA QuietUnlessAwaited ==
  ASSUME TypeOK, OneToken, NEW t \in Types, ~Awaited(t)
  PROVE  Quiet(t)
  <1>1. newVehicle[t] \in {0, 1} /\ done[t] \in {0, 1}
    BY DEF TypeOK
  <1> QED
    BY <1>1 DEF OneToken, Quiet, One

(* Who has a token serves the owner that waits, alone.                     *)
LEMMA ServesWaiting ==
  ASSUME TypeOK, Serialized, OneToken, NEW t \in Types, ~Quiet(t)
  PROVE  \E o \in Owners :
           /\ owner[o] = "waiting" /\ vtype[o] = t /\ vehicle_arrival_lock = o
           /\ \A S : "away" \notin S => (OwnerAt(S) <=> "waiting" \in S)
           /\ \A u \in Types : Awaited(u) <=> u = t
           /\ \A u \in Types \ {t} : Quiet(u)
  <1>1. Awaited(t)
    BY QuietUnlessAwaited
  <1>2. PICK o \in Owners : owner[o] = "waiting" /\ vtype[o] = t
    BY <1>1 DEF Awaited
  <1>3. /\ vehicle_arrival_lock = o
        /\ \A S : "away" \notin S => (OwnerAt(S) <=> "waiting" \in S)
        /\ \A u \in Types : Awaited(u) <=> u = t
    BY <1>2, HolderAlone
  <1>4. \A u \in Types \ {t} : Quiet(u)
    BY <1>3, QuietUnlessAwaited
  <1> QED
    BY <1>2, <1>3, <1>4

LEMMA AfterType ==
  ASSUME NEW i \in Cells
  PROVE  After(i) \in Cells
  BY CapacityAssumption DEF Cells, After

(* Owners: only Arrive and Leave change who is there, with the lock.       *)
LEMMA SerializedStep ==
  ASSUME IInv, Next
  PROVE  Serialized'
  <1> USE NullAssumption DEF IInv, Serialized, TypeOK, OwnerGoes
  <1>1. ASSUME NEW o \in Owners, OwnerStep(o)
        PROVE  Serialized'
    <2>1. CASE Arrive(o)
      BY <2>1 DEF Arrive, Types
    <2>2. CASE Leave(o)
      BY <2>2 DEF Leave
    <2>3. CASE TakeSlot(o) \/ Enqueue(o) \/ Announce(o)
      BY <2>3 DEF TakeSlot, Enqueue, Announce
    <2> QED
      BY <1>1, <2>1, <2>2, <2>3 DEF OwnerStep
  <1>2. ASSUME NEW t \in Types, AttendantStep(t)
        PROVE  UNCHANGED ownerVars
    BY <1>2 DEF AttendantStep, AwaitNew, TakeCharge, Take, FreeSlot, Park, TurnAway,
                Discharge, Done, Check
  <1> QED
    BY <1>1, <1>2 DEF Next, ownerVars

(* The token passes from the announcement to the attendant, to the release *)
(* and out; each step takes it from where it is.                           *)
LEMMA OneTokenStep ==
  ASSUME IInv, Next
  PROVE  OneToken'
  <1> USE DEF IInv, TypeOK, OneToken, One, OwnerGoes, AttendantGoes, Wait, Post
  <1>1. ASSUME NEW o \in Owners, OwnerStep(o)
        PROVE  OneToken'
    <2>1. CASE Arrive(o) \/ TakeSlot(o) \/ Enqueue(o)
      <3>1. \A t \in Types : Awaited(t)' <=> Awaited(t)
        BY <2>1 DEF Arrive, TakeSlot, Enqueue, Awaited
      <3>2. UNCHANGED <<newVehicle, attendant, done>>
        BY <2>1 DEF Arrive, TakeSlot, Enqueue, attendantVars
      <3> QED
        BY <3>1, <3>2 DEF Busy
    <2>2. CASE Announce(o)
      <3>1. \A t \in Types : ~Awaited(t) /\ Quiet(t)
        BY <2>2, HolderAlone, QuietUnlessAwaited DEF Announce
      <3>2. \A t \in Types : Awaited(t)' <=> t = vtype[o]
        BY <2>2, <3>1 DEF Announce, Awaited
      <3>3. UNCHANGED <<attendant, done>>
        BY <2>2 DEF Announce, attendantVars
      <3>4. newVehicle' = [newVehicle EXCEPT ![vtype[o]] = @ + 1]
        BY <2>2 DEF Announce
      <3> QED
        BY <3>1, <3>2, <3>3, <3>4 DEF Busy, Quiet
    <2>3. CASE Leave(o)
      <3>1. \A t \in Types : Awaited(t) <=> t = vtype[o]
        BY <2>3, HolderAlone DEF Leave
      <3>2. \A t \in Types : ~Awaited(t)'
        BY <2>3, HolderAlone DEF Leave, Awaited, Serialized
      <3>3. UNCHANGED <<attendant, newVehicle>>
        BY <2>3 DEF Leave, attendantVars
      <3>4. done[vtype[o]] > 0 /\ done' = [done EXCEPT ![vtype[o]] = @ - 1]
        BY <2>3 DEF Leave
      <3>5. \A t \in Types : t # vtype[o] => Quiet(t)
        BY <3>1, QuietUnlessAwaited
      <3>6. done[vtype[o]] = 1 /\ newVehicle[vtype[o]] = 0 /\ ~Busy(vtype[o])
        <4>1. vtype[o] \in Types /\ Awaited(vtype[o])
          BY <2>3, <3>1 DEF Leave, Serialized
        <4>2. newVehicle[vtype[o]] \in {0, 1} /\ done[vtype[o]] \in {0, 1}
          BY <4>1
        <4> QED
          BY <3>4, <4>1, <4>2
      <3>7. \A t \in Types : done'[t] = 0
        BY <3>4, <3>5, <3>6 DEF Quiet
      <3>8. \A t \in Types : newVehicle'[t] = 0 /\ ~Busy(t)'
        BY <3>3, <3>5, <3>6 DEF Quiet, Busy
      <3> QED
        BY <3>2, <3>7, <3>8
    <2> QED
      BY <1>1, <2>1, <2>2, <2>3 DEF OwnerStep
  <1>2. ASSUME NEW t \in Types, AttendantStep(t)
        PROVE  OneToken'
    <2>1. \A u \in Types : Awaited(u)' <=> Awaited(u)
      BY <1>2 DEF AttendantStep, AwaitNew, TakeCharge, Take, FreeSlot, Park,
         TurnAway, Discharge, Done, Check, ownerVars, Awaited
    <2>2. CASE AwaitNew(t)
      <3>1. /\ newVehicle[t] = 1 /\ newVehicle'[t] = 0
            /\ \A u \in Types \ {t} : newVehicle'[u] = newVehicle[u]
            /\ done' = done
        <4>1. newVehicle[t] \in {0, 1}
          OBVIOUS
        <4> QED
          BY <2>2, <4>1 DEF AwaitNew
      <3>2. /\ ~Busy(t) /\ Busy(t)'
            /\ \A u \in Types \ {t} : Busy(u)' <=> Busy(u)
        BY <2>2 DEF AwaitNew, Busy
      <3>3. \A u \in Types : newVehicle[u] \in {0, 1} /\ done[u] \in {0, 1}
        OBVIOUS
      <3>4. newVehicle'[t] + One(Busy(t)') + done'[t] = newVehicle[t] + One(Busy(t)) + done[t]
        BY <3>1, <3>2, <3>3
      <3> QED
        BY <2>1, <3>1, <3>2, <3>4
    <2>3. CASE TakeCharge(t) \/ Take(t) \/ FreeSlot(t) \/ Park(t) \/ TurnAway(t)
               \/ Discharge(t)
      BY <2>1, <2>3 DEF TakeCharge, Take, FreeSlot, Park, TurnAway, Discharge, Busy
    <2>4. CASE Done(t)
      <3>1. Busy(t) /\ ~Busy(t)' /\ \A u \in Types \ {t} : Busy(u)' <=> Busy(u)
        BY <2>4 DEF Done, Busy
      <3>2. /\ done' = [done EXCEPT ![t] = @ + 1]
            /\ newVehicle' = newVehicle
        BY <2>4 DEF Done
      <3>3. done[t] = 0 /\ newVehicle[t] = 0
        <4>1. newVehicle[t] \in {0, 1} /\ done[t] \in {0, 1}
          OBVIOUS
        <4>2. newVehicle[t] + 1 + done[t] = One(Awaited(t))
          BY <3>1
        <4> QED
          BY <4>1, <4>2
      <3> QED
        BY <2>1, <3>1, <3>2, <3>3
    <2>5. CASE \/ Check(t, "pickup", "check_pickup", "check_automobile")
               \/ Check(t, "automobile", "check_automobile", "await")
      BY <2>1, <2>5 DEF Check, Busy
    <2> QED
      BY <1>2, <2>2, <2>3, <2>4, <2>5 DEF AttendantStep
  <1> QED
    BY <1>1, <1>2 DEF Next

(* Where the vehicle in service is, seen from the thread that serves it.   *)
PositionFacts ==
  /\ \A t \in Types : ~Quiet(t) =>
       /\ OnRing <=> newVehicle[t] = 1 \/ attendant[t] \in {"charge", "take"}
       /\ HoldsSlot <=> \/ newVehicle[t] = 1
                        \/ attendant[t] \in {"charge", "take", "free_slot"}
       /\ InService <=> \/ newVehicle[t] = 1
                        \/ attendant[t] \in {"charge", "take", "free_slot",
                                             "park"}
       /\ vehicle_arrival_lock \in Owners
       /\ vtype[vehicle_arrival_lock] = t
       /\ \A u \in Types \ {t} : Quiet(u)
  /\ \A o \in Owners : owner[o] \in {"arrived", "enqueue", "announce"} =>
       /\ OnRing <=> owner[o] = "announce"
       /\ HoldsSlot <=> owner[o] # "arrived"
       /\ InService /\ \A t \in Types : Quiet(t)
       /\ vehicle_arrival_lock = o
  /\ (\A t \in Types : Quiet(t)) =>
       \/ \E o \in Owners : owner[o] \in {"arrived", "enqueue", "announce"}
       \/ ~OnRing /\ ~HoldsSlot /\ ~InService

LEMMA Positions == TypeOK /\ Serialized /\ OneToken => PositionFacts
  <1> SUFFICES ASSUME TypeOK, Serialized, OneToken
               PROVE  PositionFacts
    OBVIOUS
  <1>1. ASSUME NEW t \in Types, ~Quiet(t)
        PROVE  /\ OnRing <=> newVehicle[t] = 1 \/ attendant[t] \in {"charge", "take"}
               /\ HoldsSlot <=> \/ newVehicle[t] = 1
                                \/ attendant[t] \in {"charge", "take", "free_slot"}
               /\ InService <=> \/ newVehicle[t] = 1
                                \/ attendant[t] \in {"charge", "take",
                                                     "free_slot", "park"}
               /\ vehicle_arrival_lock \in Owners
               /\ vtype[vehicle_arrival_lock] = t
               /\ \A u \in Types \ {t} : Quiet(u)
    <2>1. PICK o \in Owners :
           /\ owner[o] = "waiting" /\ vtype[o] = t /\ vehicle_arrival_lock = o
           /\ \A S : "away" \notin S => (OwnerAt(S) <=> "waiting" \in S)
           /\ \A u \in Types \ {t} : Quiet(u)
      BY <1>1, ServesWaiting
    <2>2. /\ ~OwnerAt({"announce"}) /\ ~OwnerAt({"enqueue", "announce"})
          /\ ~OwnerAt({"arrived", "enqueue", "announce"})
      BY <2>1
    <2> QED
      BY <1>1, <2>1, <2>2 DEF OnRing, HoldsSlot, InService, Announced, Quiet, Busy
  <1>2. ASSUME NEW o \in Owners, owner[o] \in {"arrived", "enqueue", "announce"}
        PROVE  /\ OnRing <=> owner[o] = "announce"
               /\ HoldsSlot <=> owner[o] # "arrived"
               /\ InService /\ \A t \in Types : Quiet(t)
               /\ vehicle_arrival_lock = o
    <2>1. /\ vehicle_arrival_lock = o
          /\ OwnerAt({"announce"}) <=> owner[o] = "announce"
          /\ OwnerAt({"enqueue", "announce"}) <=> owner[o] # "arrived"
          /\ OwnerAt({"arrived", "enqueue", "announce"})
          /\ \A t \in Types : ~Awaited(t)
      BY <1>2, HolderAlone
    <2>2. \A t \in Types : Quiet(t)
      BY <2>1, QuietUnlessAwaited
    <2> QED
      BY <2>1, <2>2 DEF OnRing, HoldsSlot, InService, Announced, Quiet, Busy
  <1>3. ASSUME \A t \in Types : Quiet(t),
               \A o \in Owners : owner[o] \notin {"arrived", "enqueue", "announce"}
        PROVE  ~OnRing /\ ~HoldsSlot /\ ~InService
    BY <1>3 DEF OnRing, HoldsSlot, InService, OwnerAt, Announced, Quiet, Busy
  <1> QED
    BY <1>1, <1>2, <1>3 DEF PositionFacts

LEMMA PositionsNext == (TypeOK /\ Serialized /\ OneToken => PositionFacts)'
  BY Positions, PTL

(* How the lots look after a vehicle is parked and after some have left.   *)
LotsType ==
  /\ parking = [t \in Types |-> parking[t]]
  /\ \A t \in Types : parking[t] \in [1 .. Places[t] -> Vehicles \cup {NULL}]

LEMMA ParkedLots ==
  ASSUME LotsType, NEW t \in Types, NEW i \in 1 .. Places[t],
         NEW v \in Vehicles \cup {NULL}, parking' = [parking EXCEPT ![t][i] = v]
  PROVE  /\ LotsType'
         /\ \A u \in Types \ {t} : parking'[u] = parking[u]
         /\ \A j \in 1 .. Places[t] :
              parking'[t][j] = IF j = i THEN v ELSE parking[t][j]
  <1>1. /\ parking'[t] = [parking[t] EXCEPT ![i] = v]
        /\ \A u \in Types \ {t} : parking'[u] = parking[u]
        /\ parking' = [u \in Types |-> parking'[u]]
    BY DEF LotsType
  <1> QED
    BY <1>1 DEF LotsType

LEMMA RemovedLots ==
  ASSUME LotsType, NEW t \in Types, NEW S \in SUBSET (1 .. Places[t] \ FreeSlots(t)),
         Remove(t, S)
  PROVE  /\ LotsType'
         /\ \A u \in Types \ {t} : parking'[u] = parking[u]
         /\ \A j \in 1 .. Places[t] :
              parking'[t][j] = IF j \in S THEN NULL ELSE parking[t][j]
  <1>1. /\ parking'[t] = [j \in 1 .. Places[t] |->
                            IF j \in S THEN NULL ELSE parking[t][j]]
        /\ \A u \in Types \ {t} : parking'[u] = parking[u]
        /\ parking' = [u \in Types |-> parking'[u]]
    BY DEF LotsType, Remove
  <1>2. parking'[t] \in [1 .. Places[t] -> Vehicles \cup {NULL}]
    BY <1>1 DEF LotsType
  <1>3. \A u \in Types : parking'[u] \in [1 .. Places[u] -> Vehicles \cup {NULL}]
    BY <1>1, <1>2 DEF LotsType
  <1> QED
    BY <1>1, <1>3 DEF LotsType

LEMMA PlacesFinite ==
  ASSUME NEW t \in Types
  PROVE  /\ Places[t] \in Nat \ {0}
         /\ IsFiniteSet(1 .. Places[t]) /\ Cardinality(1 .. Places[t]) = Places[t]
  <1>1. Places[t] \in Nat \ {0}
    BY CapacityAssumption DEF Places
  <1> QED
    BY <1>1, FS_Interval

(* There is a first one among the free slots.                              *)
LEMMA FirstFreeIsFree ==
  ASSUME NEW t \in Types, FreeSlots(t) # {}
  PROVE  FirstFree(t) \in FreeSlots(t)
  <1> DEFINE all == 1 .. Places[t]
             upTo(k) == FreeSlots(t) \cap (1 .. k)
             initial == {upTo(k) : k \in FreeSlots(t)}
  <1>1. IsFiniteSet(all) /\ FreeSlots(t) \subseteq all
    BY PlacesFinite DEF FreeSlots
  <1>2. initial \subseteq FiniteSubsetsOf(all) /\ initial # {}
    <2>1. FiniteSubsetsOf(all) = SUBSET all
      BY <1>1, FS_FiniteSubsetsOfFinite
    <2>2. \A k \in FreeSlots(t) : upTo(k) \subseteq all
      BY <1>1
    <2>3. initial \subseteq SUBSET all /\ initial # {}
      BY <2>2
    <2> QED
      BY <2>1, <2>3
  <1>3. PICK I \in initial : \A J \in initial :
          <<J, I>> \notin StrictSubsetOrdering(all)
    <2> HIDE DEF initial
    <2> QED
      BY <1>2, FS_StrictSubsetOrderingWellFounded, WFMin
  <1>4. PICK k \in FreeSlots(t) : I = upTo(k)
    OBVIOUS
  <1>5. ASSUME NEW j \in FreeSlots(t), ~(k <= j)
        PROVE  FALSE
    <2>1. upTo(j) \subseteq upTo(k) /\ k \in upTo(k) /\ k \notin upTo(j)
      BY <1>1, <1>5
    <2>2. upTo(j) \in SUBSET all /\ upTo(k) \in SUBSET all
      BY <1>1
    <2>3. upTo(j) \in initial
      OBVIOUS
    <2> HIDE DEF upTo, initial, all
    <2>4. <<upTo(j), upTo(k)>> \notin StrictSubsetOrdering(all)
      BY <1>3, <1>4, <2>3
    <2>5. upTo(j) # upTo(k)
      BY <2>1
    <2> QED
      BY <2>1, <2>2, <2>4, <2>5 DEF StrictSubsetOrdering
  <1>6. \E i \in FreeSlots(t) : \A j \in FreeSlots(t) : i <= j
    BY <1>5
  <1> QED
    BY <1>6 DEF FirstFree

LEMMA TypeStep ==
  ASSUME IInv, Next
  PROVE  TypeOK'
  <1> USE NullAssumption, CapacityAssumption
      DEF IInv, TypeOK, OwnerGoes, AttendantGoes, ring, lots, ownerVars, attendantVars
  <1>1. ASSUME NEW o \in Owners, OwnerStep(o)
        PROVE  TypeOK'
    <2>1. CASE Arrive(o)
      BY <2>1 DEF Arrive
    <2>2. CASE TakeSlot(o)
      BY <2>2 DEF TakeSlot
    <2>3. CASE Enqueue(o)
      BY <2>3, AfterType DEF Enqueue
    <2>4. CASE Announce(o)
      <3>1. vtype[o] \in Types /\ newVehicle[vtype[o]] = 0
        BY <2>4, Positions DEF PositionFacts, Announce, Serialized, Quiet
      <3> QED
        BY <2>4, <3>1 DEF Announce, Post
    <2>5. CASE Leave(o)
      <3>1. vtype[o] \in Types
        BY <2>5 DEF Leave, Serialized
      <3> QED
        BY <2>5, <3>1 DEF Leave, Wait
    <2> QED
      BY <1>1, <2>1, <2>2, <2>3, <2>4, <2>5 DEF OwnerStep
  <1>2. ASSUME NEW t \in Types, AttendantStep(t)
        PROVE  TypeOK'
    <2>1. CASE AwaitNew(t)
      BY <2>1 DEF AwaitNew, Wait
    <2>2. CASE TakeCharge(t)
      BY <2>2 DEF TakeCharge, Wait
    <2>3. CASE Take(t)
      BY <2>3, AfterType DEF Take
    <2>4. CASE FreeSlot(t)
      <3>1. HoldsSlot
        BY <2>4, Positions DEF PositionFacts, FreeSlot, Quiet, Busy
      <3>2. freeSlot = QUEUE_CAPACITY - 1
        BY <3>1 DEF SemaphoresExact, One
      <3> QED
        BY <2>4, <3>2 DEF FreeSlot
    <2>5. CASE Park(t)
      <3>1. LotsType'
        <4>1. LotsType /\ vehicle[t] \in Vehicles \cup {NULL}
          BY DEF LotsType
        <4>2. CASE FreeSlots(t) = {}
          BY <2>5, <4>1, <4>2 DEF Park, LotsType
        <4>3. CASE FreeSlots(t) # {}
          <5>1. FirstFree(t) \in 1 .. Places[t]
            BY <4>3, FirstFreeIsFree DEF FreeSlots
          <5>2. parking' = [parking EXCEPT ![t][FirstFree(t)] = vehicle[t]]
            BY <2>5, <4>3 DEF Park
          <5> HIDE DEF IInv, TypeOK
          <5> QED
            BY <4>1, <5>1, <5>2, ParkedLots
        <4> QED
          BY <4>2, <4>3
      <3>2. mFree' \in [Types -> Nat]
        BY <2>5 DEF Park
      <3> QED
        BY <2>5, <3>1, <3>2 DEF Park, LotsType
    <2>6. CASE TurnAway(t)
      BY <2>6 DEF TurnAway
    <2>7. CASE Discharge(t)
      <3>1. inCharge[t] = 0
        BY <2>7 DEF Discharge, SemaphoresExact, One
      <3> QED
        BY <2>7, <3>1 DEF Discharge, Post
    <2>8. CASE Done(t)
      <3>1. Busy(t)
        BY <2>8 DEF Done, Busy
      <3>2. newVehicle[t] \in {0, 1} /\ done[t] \in {0, 1}
        OBVIOUS
      <3>3. newVehicle[t] + 1 + done[t] = One(Awaited(t))
        BY <3>1 DEF OneToken, One
      <3>4. done[t] = 0
        BY <3>2, <3>3 DEF One
      <3> QED
        BY <2>8, <3>4 DEF Done, Post
    <2>9. ASSUME NEW u \in Types, NEW from, NEW to \in {"check_automobile", "await"},
                 Check(t, u, from, to)
          PROVE  TypeOK'
      <3>1. PICK S \in SUBSET (1 .. Places[u] \ FreeSlots(u)) : Remove(u, S)
        BY <2>9 DEF Check
      <3>2. IsFiniteSet(S) /\ Cardinality(S) \in Nat
        BY PlacesFinite, FS_Subset, FS_CardinalityType
      <3>3. LotsType'
        <4>1. LotsType
          BY DEF LotsType
        <4> HIDE DEF IInv, TypeOK
        <4> QED
          BY <3>1, <4>1, RemovedLots
      <3>4. mFree' \in [Types -> Nat]
        BY <3>1, <3>2 DEF Remove
      <3>5. heap' \subseteq Vehicles
        BY <3>1 DEF Remove
      <3> QED
        BY <2>9, <3>3, <3>4, <3>5 DEF Check, LotsType
    <2> QED
      BY <1>2, <2>1, <2>2, <2>3, <2>4, <2>5, <2>6, <2>7, <2>8, <2>9
      DEF AttendantStep, Types
  <1> QED
    BY <1>1, <1>2 DEF Next

(* How far the vehicle in service has come.                                *)
Stage(onRing, holdsSlot, inService) ==
  (OnRing <=> onRing) /\ (HoldsSlot <=> holdsSlot) /\ (InService <=> inService)

LEMMA PositionsAround ==
  ASSUME IInv, Next
  PROVE  /\ TypeOK' /\ Serialized' /\ OneToken'
         /\ PositionFacts /\ PositionFacts'
  <1>1. TypeOK' /\ Serialized' /\ OneToken'
    BY TypeStep, SerializedStep, OneTokenStep
  <1>2. TypeOK /\ Serialized /\ OneToken
    BY DEF IInv
  <1> QED
    BY <1>1, <1>2, Positions, PositionsNext

LEMMA OwnerMoves ==
  ASSUME IInv, Next, NEW o \in Owners, OwnerStep(o)
  PROVE  /\ Arrive(o) => /\ Stage(FALSE, FALSE, FALSE)
                         /\ Stage(FALSE, FALSE, TRUE)' /\ Guest' = brings'[o]
         /\ TakeSlot(o) => /\ Stage(FALSE, FALSE, TRUE)
                           /\ Stage(FALSE, TRUE, TRUE)' /\ Guest' = Guest
         /\ Enqueue(o) => /\ Stage(FALSE, TRUE, TRUE) /\ Stage(TRUE, TRUE, TRUE)'
                          /\ Guest' = Guest /\ Guest = brings[o]
         /\ Announce(o) => /\ Stage(TRUE, TRUE, TRUE) /\ Stage(TRUE, TRUE, TRUE)'
                           /\ Guest' = Guest
         /\ Leave(o) => Stage(FALSE, FALSE, FALSE) /\ Stage(FALSE, FALSE, FALSE)'
         /\ \A t \in Types : ~Busy(t)
         /\ UNCHANGED attendantVars
  <1>1. PositionFacts /\ PositionFacts' /\ Serialized /\ Serialized'
    BY PositionsAround DEF IInv
  <1>2. owner \in [Owners -> {"away", "arrived", "enqueue", "announce", "waiting"}]
    BY DEF IInv, TypeOK
  <1>3. CASE Arrive(o)
    <2>1. \A t \in Types : ~Awaited(t)
      BY <1>1, <1>3, NullAssumption DEF Arrive, Serialized, Awaited
    <2>2. \A t \in Types : Quiet(t)
      BY <2>1, QuietUnlessAwaited DEF IInv
    <2>3. \A p \in Owners : owner[p] = "away"
      BY <1>1, <1>3, NullAssumption DEF Arrive, Serialized
    <2>4. Stage(FALSE, FALSE, FALSE)
      BY <1>1, <2>2, <2>3 DEF PositionFacts, Stage
    <2>5. owner'[o] = "arrived" /\ vehicle_arrival_lock' = o
      BY <1>2, <1>3 DEF Arrive, OwnerGoes
    <2>6. Stage(FALSE, FALSE, TRUE)' /\ Guest' = brings'[o]
      BY <1>1, <2>5 DEF PositionFacts, Stage, Guest
    <2> QED
      BY <1>3, <2>2, <2>4, <2>6
      DEF Arrive, TakeSlot, Enqueue, Announce, Leave, OwnerGoes, Quiet
  <1>4. CASE TakeSlot(o) \/ Enqueue(o) \/ Announce(o)
    <2>1. owner[o] \in {"arrived", "enqueue", "announce"}
      BY <1>4 DEF TakeSlot, Enqueue, Announce, OwnerGoes
    <2>2. /\ vehicle_arrival_lock = o /\ \A t \in Types : Quiet(t)
          /\ Stage(owner[o] = "announce", owner[o] # "arrived", TRUE)
      BY <1>1, <2>1 DEF PositionFacts, Stage
    <2>3. UNCHANGED <<vehicle_arrival_lock, brings, attendantVars>>
      BY <1>4 DEF TakeSlot, Enqueue, Announce
    <2>4. Guest = brings[o] /\ Guest' = Guest
      BY <2>2, <2>3 DEF Guest
    <2>5. CASE Announce(o)
      <3>1. newVehicle' = [newVehicle EXCEPT ![vtype[o]] = @ + 1]
        BY <2>5 DEF Announce, Post
      <3>2. vtype[o] \in Types /\ newVehicle \in [Types -> {0, 1}]
        BY <1>1, <2>1 DEF Serialized, IInv, TypeOK
      <3>3. newVehicle'[vtype[o]] = 1
        BY <2>2, <3>1, <3>2 DEF Quiet
      <3>4. Stage(TRUE, TRUE, TRUE)'
        BY <1>1, <3>2, <3>3 DEF PositionFacts, Stage, Quiet
      <3> QED
        BY <2>2, <2>3, <2>4, <2>5, <3>4
        DEF Arrive, TakeSlot, Enqueue, Announce, Leave, OwnerGoes, Quiet
    <2>6. CASE TakeSlot(o) \/ Enqueue(o)
      <3>1. owner'[o] \in {"enqueue", "announce"}
        BY <1>2, <2>6 DEF TakeSlot, Enqueue, OwnerGoes
      <3>2. Stage(owner[o] = "announce", owner[o] # "arrived", TRUE)'
        BY <1>1, <3>1 DEF PositionFacts, Stage
      <3>3. TakeSlot(o) => owner[o] = "arrived" /\ owner'[o] = "enqueue"
        BY <1>2 DEF TakeSlot, OwnerGoes
      <3>4. Enqueue(o) => owner[o] = "enqueue" /\ owner'[o] = "announce"
        BY <1>2 DEF Enqueue, OwnerGoes
      <3>5. ~Arrive(o) /\ ~Announce(o) /\ ~Leave(o)
        BY <2>6 DEF Arrive, TakeSlot, Enqueue, Announce, Leave, OwnerGoes
      <3> QED
        BY <2>2, <2>3, <2>4, <2>6, <3>2, <3>3, <3>4, <3>5 DEF Quiet, Stage
    <2> QED
      BY <1>4, <2>5, <2>6
  <1>5. CASE Leave(o)
    <2>1. vtype[o] \in Types /\ owner[o] = "waiting" /\ done[vtype[o]] > 0
      BY <1>1, <1>5 DEF Leave, OwnerGoes, Wait, Serialized, IInv, TypeOK
    <2>2. ~Quiet(vtype[o])
      BY <2>1 DEF Quiet
    <2>3. newVehicle[vtype[o]] = 0 /\ ~Busy(vtype[o])
      <3>1. newVehicle[vtype[o]] \in {0, 1} /\ done[vtype[o]] \in {0, 1}
        BY <2>1 DEF IInv, TypeOK
      <3> QED
        BY <2>1, <3>1 DEF IInv, OneToken, One
    <2>4. Stage(FALSE, FALSE, FALSE) /\ \A t \in Types : ~Busy(t)
      BY <1>1, <2>1, <2>2, <2>3 DEF PositionFacts, Stage, Busy, Quiet
    <2>5. UNCHANGED <<newVehicle, attendantVars>>
      BY <1>5 DEF Leave
    <2>6. \A p \in Owners : owner'[p] = "away"
      BY <1>1, <1>2, <1>5, NullAssumption DEF Leave, OwnerGoes, Serialized
    <2>7. \A t \in Types : newVehicle'[t] = 0 /\ ~Busy(t)'
      BY <1>1, <2>2, <2>1, <2>3, <2>4, <2>5
      DEF PositionFacts, Quiet, Busy, attendantVars
    <2>8. Stage(FALSE, FALSE, FALSE)'
      BY <2>6, <2>7
      DEF Stage, OnRing, HoldsSlot, InService, OwnerAt, Announced, Busy
    <2> QED
      BY <1>5, <2>4, <2>5, <2>8
      DEF Arrive, TakeSlot, Enqueue, Announce, Leave, OwnerGoes
  <1> QED
    BY <1>3, <1>4, <1>5 DEF OwnerStep

Checks(a) == \/ Check(a, "pickup", "check_pickup", "check_automobile")
             \/ Check(a, "automobile", "check_automobile", "await")

LEMMA AttendantMoves ==
  ASSUME IInv, Next, NEW t \in Types, AttendantStep(t)
  PROVE  /\ AwaitNew(t) \/ TakeCharge(t) =>
              Stage(TRUE, TRUE, TRUE) /\ Stage(TRUE, TRUE, TRUE)'
         /\ Take(t) => Stage(TRUE, TRUE, TRUE) /\ Stage(FALSE, TRUE, TRUE)'
         /\ FreeSlot(t) => Stage(FALSE, TRUE, TRUE) /\ Stage(FALSE, FALSE, TRUE)'
         /\ Park(t) \/ TurnAway(t) =>
              Stage(FALSE, FALSE, TRUE) /\ Stage(FALSE, FALSE, FALSE)'
         /\ Discharge(t) \/ Done(t) =>
              Stage(FALSE, FALSE, FALSE) /\ Stage(FALSE, FALSE, FALSE)'
         /\ Checks(t) => /\ OnRing' <=> OnRing
                         /\ HoldsSlot' <=> HoldsSlot
                         /\ InService' <=> InService
         /\ Checks(t) \/ \A u \in Types \ {t} : ~Busy(u)
         /\ UNCHANGED ownerVars /\ Guest' = Guest
  <1>1. PositionFacts /\ PositionFacts'
    BY PositionsAround
  <1>2. /\ newVehicle \in [Types -> {0, 1}] /\ done \in [Types -> {0, 1}]
        /\ attendant \in [Types -> {"await", "charge", "take", "free_slot", "park",
                              "discharge", "done", "check_pickup", "check_automobile"}]
    BY DEF IInv, TypeOK
  <1>3. UNCHANGED ownerVars /\ Guest' = Guest
    BY DEF AttendantStep, AwaitNew, TakeCharge, Take, FreeSlot, Park, TurnAway, Discharge,
           Done, Check, ownerVars, Guest
  <1>4. CASE Checks(t)
    <2>1. /\ attendant[t] \in {"check_pickup", "check_automobile"}
          /\ attendant' = [attendant EXCEPT ![t] = attendant'[t]]
          /\ attendant'[t] \in {"check_automobile", "await"}
          /\ UNCHANGED <<owner, newVehicle>>
      BY <1>2, <1>4 DEF Checks, Check, AttendantGoes, ownerVars
    <2>2. \A u \in Types :
            \/ attendant'[u] = attendant[u]
            \/ {attendant[u], attendant'[u]}
                 \subseteq {"check_pickup", "check_automobile", "await"}
      BY <1>2, <2>1
    <2>3. /\ OnRing' <=> OnRing
          /\ HoldsSlot' <=> HoldsSlot
          /\ InService' <=> InService
      BY <2>1, <2>2 DEF OnRing, HoldsSlot, InService, OwnerAt, Announced
    <2> QED
      BY <1>3, <1>4, <2>1, <2>3
      DEF AwaitNew, TakeCharge, Take, FreeSlot, Park, TurnAway, Discharge, Done, AttendantGoes
  <1>5. CASE ~Checks(t)
    <2>1. ~Quiet(t)
      BY <1>2, <1>5 DEF AttendantStep, Checks, AwaitNew, TakeCharge, Take, FreeSlot, Park,
         TurnAway, Discharge, Done, AttendantGoes, Wait, Quiet, Busy
    <2>2. ~Quiet(t)'
      <3>1. CASE Done(t)
        <4>1. done'[t] = done[t] + 1 /\ done[t] \in {0, 1}
          BY <1>2, <3>1 DEF Done, Post
        <4> QED
          BY <4>1 DEF Quiet
      <3>2. CASE ~Done(t)
        BY <1>2, <1>5, <3>2 DEF AttendantStep, Checks, AwaitNew, TakeCharge, Take, FreeSlot,
           Park, TurnAway, Discharge, AttendantGoes, Quiet, Busy
      <3> QED
        BY <3>1, <3>2
    <2>3. \A u \in Types \ {t} : ~Busy(u)
      BY <1>1, <2>1 DEF PositionFacts, Quiet
    <2>4. attendant[t] # "await" => newVehicle[t] = 0
      <3>1. newVehicle[t] \in {0, 1} /\ done[t] \in {0, 1}
        BY <1>2
      <3>2. attendant[t] # "await" => Busy(t)
        BY <1>5 DEF AttendantStep, Checks, AwaitNew, TakeCharge, Take, FreeSlot, Park,
           TurnAway, Discharge, Done, AttendantGoes, Busy
      <3> QED
        BY <3>1, <3>2 DEF IInv, OneToken, One
    <2>5. Stage(\/ newVehicle[t] = 1 \/ attendant[t] \in {"charge", "take"},
                \/ newVehicle[t] = 1 \/ attendant[t] \in {"charge", "take", "free_slot"},
                \/ newVehicle[t] = 1
                \/ attendant[t] \in {"charge", "take", "free_slot", "park"})
      BY <1>1, <2>1 DEF PositionFacts, Stage
    <2>6. Stage(\/ newVehicle[t] = 1 \/ attendant[t] \in {"charge", "take"},
                \/ newVehicle[t] = 1 \/ attendant[t] \in {"charge", "take", "free_slot"},
                \/ newVehicle[t] = 1
                \/ attendant[t] \in {"charge", "take", "free_slot", "park"})'
      BY <1>1, <2>2 DEF PositionFacts, Stage
    <2>7. CASE AwaitNew(t)
      <3>1. newVehicle[t] = 1 /\ attendant[t] = "await" /\ attendant'[t] = "charge"
        BY <1>2, <2>7 DEF AwaitNew, AttendantGoes, Wait
      <3> QED
        BY <1>3, <1>5, <2>3, <2>5, <2>6, <2>7, <3>1 DEF Stage, TakeCharge, Take, FreeSlot,
           Park, TurnAway, Discharge, Done, AttendantGoes
    <2>8. CASE ~AwaitNew(t)
      <3>1. newVehicle[t] = 0 /\ UNCHANGED newVehicle
        BY <1>5, <2>4, <2>8 DEF AttendantStep, Checks, TakeCharge, Take, FreeSlot, Park,
           TurnAway, Discharge, Done, AttendantGoes
      <3>2. /\ attendant' = [attendant EXCEPT ![t] = attendant'[t]]
            /\ TakeCharge(t) => attendant[t] = "charge" /\ attendant'[t] = "take"
            /\ Take(t) => attendant[t] = "take" /\ attendant'[t] = "free_slot"
            /\ FreeSlot(t) => attendant[t] = "free_slot" /\ attendant'[t] = "park"
            /\ Park(t) \/ TurnAway(t) =>
                 attendant[t] = "park" /\ attendant'[t] = "discharge"
            /\ Discharge(t) => attendant[t] = "discharge" /\ attendant'[t] = "done"
            /\ Done(t) => attendant[t] = "done" /\ attendant'[t] = "check_pickup"
        BY <1>2, <1>5, <2>8 DEF AttendantStep, Checks, TakeCharge, Take, FreeSlot, Park,
           TurnAway, Discharge, Done, AttendantGoes
      <3>3. newVehicle[t] # 1 /\ newVehicle'[t] # 1
        BY <3>1
      <3> QED
        BY <1>3, <1>5, <2>3, <2>5, <2>6, <2>8, <3>2, <3>3 DEF Stage
    <2> QED
      BY <2>7, <2>8
  <1> QED
    BY <1>4, <1>5

LEMMA SemaphoresStep ==
  ASSUME IInv, Next
  PROVE  SemaphoresExact'
  <1>1. SemaphoresExact /\ QUEUE_CAPACITY \in Nat \ {0}
    BY CapacityAssumption DEF IInv
  <1>2. ASSUME NEW o \in Owners, OwnerStep(o)
        PROVE  SemaphoresExact'
    <2>1. UNCHANGED <<attendant, inCharge>>
      BY <1>2, OwnerMoves DEF attendantVars, OwnerStep, Arrive, TakeSlot, Enqueue, Announce,
         Leave
    <2>2. freeSlot' = QUEUE_CAPACITY - One(HoldsSlot)'
      BY <1>1, <1>2, OwnerMoves DEF OwnerStep, Arrive, TakeSlot, Enqueue, Announce, Leave,
         SemaphoresExact, Stage, One
    <2> QED
      BY <1>1, <2>1, <2>2 DEF SemaphoresExact
  <1>3. ASSUME NEW t \in Types, AttendantStep(t)
        PROVE  SemaphoresExact'
    <2>1. freeSlot' = QUEUE_CAPACITY - One(HoldsSlot)'
      <3>1. CASE FreeSlot(t)
        BY <1>1, <1>3, <3>1, AttendantMoves DEF FreeSlot, SemaphoresExact, Stage, One
      <3>2. CASE ~FreeSlot(t)
        <4>1. freeSlot' = freeSlot
          BY <1>3, <3>2 DEF AttendantStep, AwaitNew, TakeCharge, Take, Park, TurnAway,
             Discharge, Done, Check
        <4>2. CASE Checks(t)
          BY <1>1, <1>3, <4>1, <4>2, AttendantMoves DEF SemaphoresExact, Stage, One
        <4>3. CASE AwaitNew(t) \/ TakeCharge(t) \/ Take(t)
          BY <1>1, <1>3, <4>1, <4>3, AttendantMoves DEF SemaphoresExact, Stage, One
        <4>4. CASE Park(t) \/ TurnAway(t) \/ Discharge(t) \/ Done(t)
          BY <1>1, <1>3, <4>1, <4>4, AttendantMoves DEF SemaphoresExact, Stage, One
        <4> QED
          BY <1>3, <3>2, <4>2, <4>3, <4>4 DEF AttendantStep, Checks
      <3> QED
        BY <3>1, <3>2
    <2>2. /\ attendant \in [Types -> {"await", "charge", "take", "free_slot", "park",
                              "discharge", "done", "check_pickup", "check_automobile"}]
          /\ inCharge \in [Types -> {0, 1}]
      BY DEF IInv, TypeOK
    <2>3. ASSUME NEW u \in Types
          PROVE  inCharge'[u] = One(attendant[u] \notin {"take", "free_slot", "park",
                                                         "discharge"})'
      <3>1. CASE TakeCharge(t)
        BY <1>1, <2>2, <3>1 DEF TakeCharge, AttendantGoes, Wait, SemaphoresExact, One
      <3>2. CASE Discharge(t)
        BY <1>1, <2>2, <3>2 DEF Discharge, AttendantGoes, Post, SemaphoresExact, One
      <3>3. CASE ~TakeCharge(t) /\ ~Discharge(t)
        <4>1. inCharge' = inCharge
          BY <1>3, <3>3 DEF AttendantStep, AwaitNew, Take, FreeSlot, Park, TurnAway, Done,
             Check
        <4>2. attendant'[u] \in {"take", "free_slot", "park", "discharge"}
                <=> attendant[u] \in {"take", "free_slot", "park", "discharge"}
          BY <1>3, <2>2, <3>3 DEF AttendantStep, AwaitNew, Take, FreeSlot, Park, TurnAway,
             Done, Check, AttendantGoes
        <4> QED
          BY <1>1, <4>1, <4>2 DEF SemaphoresExact, One
      <3> QED
        BY <3>1, <3>2, <3>3
    <2> QED
      BY <2>1, <2>3 DEF SemaphoresExact
  <1> QED
    BY <1>2, <1>3 DEF Next

LEMMA RingStep ==
  ASSUME IInv, Next
  PROVE  RingExact'
  <1>1. /\ RingExact /\ vehicle_queue \in [Cells -> Vehicles \cup {NULL}]
        /\ queue_front \in Cells /\ vehicle \in [Types -> Vehicles \cup {NULL}]
        /\ attendant \in [Types -> {"await", "charge", "take", "free_slot", "park",
                              "discharge", "done", "check_pickup", "check_automobile"}]
    BY DEF IInv, TypeOK
  <1>2. ASSUME NEW o \in Owners, OwnerStep(o)
        PROVE  RingExact'
    <2>1. \A t \in Types : attendant'[t] \notin {"free_slot", "park"}
      BY <1>2, OwnerMoves DEF attendantVars, Busy
    <2>2. CASE Arrive(o) \/ TakeSlot(o) \/ Leave(o)
      <3>1. UNCHANGED ring /\ ~OnRing /\ ~OnRing'
        BY <1>2, <2>2, OwnerMoves DEF Arrive, TakeSlot, Leave, Stage
      <3> QED
        BY <1>1, <2>1, <3>1 DEF RingExact, ring
    <2>3. CASE Announce(o)
      <3>1. UNCHANGED ring /\ OnRing /\ OnRing' /\ Guest' = Guest
        BY <1>2, <2>3, OwnerMoves DEF Announce, Stage
      <3> QED
        BY <1>1, <2>1, <3>1 DEF RingExact, ring
    <2>4. CASE Enqueue(o)
      <3>1. ~OnRing /\ OnRing' /\ Guest' = brings[o]
        BY <1>2, <2>4, OwnerMoves DEF Stage
      <3>2. queue_front' = queue_front /\ queue_rear = queue_front
        BY <1>1, <2>4, <3>1 DEF Enqueue, RingExact
      <3>3. queue_rear' = After(queue_front') /\ vehicle_queue'[queue_front'] = Guest'
        BY <1>1, <2>4, <3>1, <3>2 DEF Enqueue, After
      <3> QED
        BY <2>1, <3>1, <3>3 DEF RingExact, After
    <2> QED
      BY <1>2, <2>2, <2>3, <2>4 DEF OwnerStep
  <1>3. ASSUME NEW t \in Types, AttendantStep(t)
        PROVE  RingExact'
    <2>1. Guest' = Guest
      BY <1>3, AttendantMoves
    <2>2. CASE Take(t)
      <3>1. OnRing /\ ~OnRing' /\ \A u \in Types \ {t} : ~Busy(u)
        BY <1>3, <2>2, AttendantMoves DEF Stage, Take, Checks, Check, AttendantGoes
      <3>2. queue_rear' = queue_front' /\ vehicle'[t] = Guest
        BY <1>1, <2>2, <3>1 DEF Take, RingExact
      <3>3. \A u \in Types \ {t} : attendant'[u] \notin {"free_slot", "park"}
        BY <1>1, <2>2, <3>1 DEF Take, AttendantGoes, Busy
      <3> QED
        BY <2>1, <3>1, <3>2, <3>3 DEF RingExact
    <2>3. CASE ~Take(t)
      <3>1. UNCHANGED ring /\ (OnRing' <=> OnRing)
        BY <1>3, <2>3, AttendantMoves DEF AttendantStep, AwaitNew, TakeCharge, FreeSlot,
           Park, TurnAway, Discharge, Done, Check, Checks, Stage, ring
      <3>2. ASSUME NEW u \in Types, attendant'[u] \in {"free_slot", "park"}
            PROVE  attendant[u] \in {"free_slot", "park"} /\ vehicle'[u] = vehicle[u]
        <4>1. CASE Checks(t)
          BY <1>1, <3>2, <4>1 DEF Checks, Check, AttendantGoes
        <4>2. CASE ~Checks(t)
          <5>1. vehicle' = vehicle
            BY <1>3, <2>3, <4>2 DEF AttendantStep, Checks, AwaitNew, TakeCharge, FreeSlot,
               Park, TurnAway, Discharge, Done
          <5>2. CASE u # t
            BY <1>1, <1>3, <2>3, <3>2, <4>2, <5>2 DEF AttendantStep, Checks, AwaitNew,
               TakeCharge, FreeSlot, Park, TurnAway, Discharge, Done, AttendantGoes
          <5>3. CASE u = t
            BY <1>1, <1>3, <2>3, <3>2, <4>2, <5>3 DEF AttendantStep, Checks, AwaitNew,
               TakeCharge, FreeSlot, Park, TurnAway, Discharge, Done, AttendantGoes
          <5> QED
            BY <5>1, <5>2, <5>3
        <4> QED
          BY <4>1, <4>2
      <3> QED
        BY <1>1, <2>1, <3>1, <3>2 DEF RingExact, ring, After
    <2> QED
      BY <2>2, <2>3
  <1> QED
    BY <1>2, <1>3 DEF Next

IsParked(x) == x # NULL /\ \E t \in Types : \E i \in 1 .. Places[t] : parking[t][i] = x
ParkedFacts == \A x : x \in Parked <=> IsParked(x)

LEMMA ParkedHolds == ParkedFacts
  <1>1. ASSUME NEW x, NEW t \in Types
        PROVE  x \in Lot(t) <=> x # NULL /\ \E i \in 1 .. Places[t] : parking[t][i] = x
    BY DEF Lot
  <1>2. ASSUME NEW x
        PROVE  x \in Parked <=> \E t \in Types : x \in Lot(t)
    BY DEF Parked
  <1> QED
    BY <1>1, <1>2 DEF ParkedFacts, IsParked

LEMMA ParkedHoldsNext == ParkedFacts'
  BY ParkedHolds, PTL

LEMMA ParkedMember ==
  \A x : /\ x \in Parked <=> IsParked(x)
         /\ x \in Parked' <=> IsParked(x)'
  BY ParkedHolds, ParkedHoldsNext DEF ParkedFacts

LEMMA GuestAllocated ==
  ASSUME IInv, InService
  PROVE  Guest \in heap /\ Guest \in Vehicles /\ Guest # NULL /\ Guest \notin Parked
  BY NullAssumption DEF IInv, MemoryExact, TypeOK

(* With a place left, a slot is found.                                     *)
LEMMA RoomIsFound ==
  ASSUME IInv, NEW t \in Types, mFree[t] > 0
  PROVE  /\ FirstFree(t) \in 1 .. Places[t]
         /\ parking[t][FirstFree(t)] = NULL
         /\ FreeSlots(t) # {}
  <1>1. FreeSlots(t) # {}
    <2>1. mFree[t] = Cardinality(FreeSlots(t))
      BY DEF IInv, FreeExact
    <2>2. Cardinality({}) = 0
      BY FS_EmptySet
    <2> QED
      BY <2>1, <2>2
  <1> QED
    BY <1>1, FirstFreeIsFree DEF FreeSlots

(* What a step does to the slots.                                          *)
LEMMA LotMoves ==
  ASSUME IInv, Next, NEW t \in Types, AttendantStep(t)
  PROVE  /\ Park(t) => \E i \in 1 .. Places[t] :
              /\ parking[t][i] = NULL
              /\ \A u \in Types : \A j \in 1 .. Places[u] :
                   parking'[u][j] = IF u = t /\ j = i THEN Guest ELSE parking[u][j]
              /\ mFree' = [mFree EXCEPT ![t] = @ - 1]
         /\ Checks(t) => \E u \in Types : \E S \in SUBSET (1 .. Places[u] \ FreeSlots(u)) :
              /\ heap' = heap \ {parking[u][i] : i \in S}
              /\ \A w \in Types : \A j \in 1 .. Places[w] :
                   parking'[w][j] = IF w = u /\ j \in S THEN NULL ELSE parking[w][j]
              /\ mFree' = [mFree EXCEPT ![u] = @ + Cardinality(S)]
         /\ Park(t) \/ Checks(t) \/ UNCHANGED lots
  <1>1. LotsType /\ vehicle \in [Types -> Vehicles \cup {NULL}]
    BY DEF IInv, TypeOK, LotsType
  <1>2. CASE Park(t)
    <2>1. vehicle[t] = Guest
      BY <1>2 DEF Park, AttendantGoes, IInv, RingExact
    <2>2. mFree[t] > 0
      BY <1>2 DEF Park
    <2>3. /\ parking' = [parking EXCEPT ![t][FirstFree(t)] = vehicle[t]]
          /\ mFree' = [mFree EXCEPT ![t] = @ - 1]
      BY <1>2, <2>2, RoomIsFound DEF Park
    <2>4. \A u \in Types : \A j \in 1 .. Places[u] :
            parking'[u][j] = IF u = t /\ j = FirstFree(t) THEN Guest ELSE parking[u][j]
      <3>1. FirstFree(t) \in 1 .. Places[t] /\ vehicle[t] \in Vehicles \cup {NULL}
        BY <1>1, <2>2, RoomIsFound
      <3>2. /\ \A u \in Types \ {t} : parking'[u] = parking[u]
            /\ \A j \in 1 .. Places[t] :
                 parking'[t][j] = IF j = FirstFree(t) THEN vehicle[t] ELSE parking[t][j]
        BY <1>1, <2>3, <3>1, ParkedLots
      <3> QED
        BY <2>1, <3>2
    <2> QED
      BY <1>2, <2>2, <2>3, <2>4, RoomIsFound
      DEF Park, Checks, Check, AttendantGoes
  <1>3. CASE Checks(t)
    <2>1. PICK u \in Types : \E S \in SUBSET (1 .. Places[u] \ FreeSlots(u)) : Remove(u, S)
      BY <1>3 DEF Checks, Check, Types
    <2>2. PICK S \in SUBSET (1 .. Places[u] \ FreeSlots(u)) : Remove(u, S)
      BY <2>1
    <2>3. \A w \in Types : \A j \in 1 .. Places[w] :
            parking'[w][j] = IF w = u /\ j \in S THEN NULL ELSE parking[w][j]
      BY <1>1, <2>2, RemovedLots
    <2>4. /\ heap' = heap \ {parking[u][i] : i \in S}
          /\ mFree' = [mFree EXCEPT ![u] = @ + Cardinality(S)]
      BY <2>2 DEF Remove
    <2>5. ~Park(t)
      BY <1>3 DEF Park, Checks, Check, AttendantGoes
    <2> QED
      BY <1>3, <2>3, <2>4, <2>5
  <1>4. CASE ~Park(t) /\ ~Checks(t)
    BY <1>4 DEF AttendantStep, AwaitNew, TakeCharge, Take, FreeSlot, TurnAway, Discharge,
       Done, Checks
  <1> QED
    BY <1>2, <1>3, <1>4

Apart == \A t, u \in Types : \A i \in 1 .. Places[t], j \in 1 .. Places[u] :
           parking[t][i] = parking[u][j] /\ parking[t][i] # NULL => t = u /\ i = j

LEMMA MemoryStep ==
  ASSUME IInv, Next
  PROVE  MemoryExact'
  <1>1. /\ heap = Parked \cup (IF InService THEN {Guest} ELSE {})
        /\ InService => Guest \notin Parked
        /\ Apart
    BY DEF IInv, MemoryExact, Apart
  <1>2. SUFFICES /\ heap' = Parked' \cup (IF InService' THEN {Guest'} ELSE {})
                 /\ InService' => Guest' \notin Parked'
                 /\ Apart'
    BY DEF MemoryExact, Apart
  <1>3. ASSUME UNCHANGED lots
        PROVE  Parked' = Parked /\ Apart'
    BY <1>1, <1>3 DEF Parked, Lot, Apart, lots
  <1>4. ASSUME NEW o \in Owners, OwnerStep(o)
        PROVE  /\ heap' = Parked' \cup (IF InService' THEN {Guest'} ELSE {})
               /\ InService' => Guest' \notin Parked'
               /\ Apart'
    <2>1. UNCHANGED lots
      BY <1>4 DEF OwnerStep, Arrive, TakeSlot, Enqueue, Announce, Leave
    <2>2. CASE Arrive(o)
      <3>1. ~InService /\ InService' /\ Guest' = brings'[o]
        BY <1>4, <2>2, OwnerMoves DEF Stage
      <3>2. brings \in [Owners -> Vehicles \cup {NULL}]
        BY DEF IInv, TypeOK
      <3>3. Guest' \notin heap /\ heap' = heap \cup {Guest'}
        BY <2>2, <3>1, <3>2 DEF Arrive
      <3> QED
        BY <1>1, <1>3, <2>1, <3>1, <3>3
    <2>3. CASE TakeSlot(o) \/ Enqueue(o) \/ Announce(o)
      <3>1. InService /\ InService' /\ Guest' = Guest
        BY <1>4, <2>3, OwnerMoves DEF Stage
      <3>2. heap' = heap
        BY <2>3 DEF TakeSlot, Enqueue, Announce
      <3> QED
        BY <1>1, <1>3, <2>1, <3>1, <3>2
    <2>4. CASE Leave(o)
      <3>1. ~InService /\ ~InService'
        BY <1>4, <2>4, OwnerMoves DEF Stage
      <3>2. heap' = heap
        BY <2>4 DEF Leave
      <3> QED
        BY <1>1, <1>3, <2>1, <3>1, <3>2
    <2> QED
      BY <1>4, <2>2, <2>3, <2>4 DEF OwnerStep
  <1>5. ASSUME NEW t \in Types, AttendantStep(t)
        PROVE  /\ heap' = Parked' \cup (IF InService' THEN {Guest'} ELSE {})
               /\ InService' => Guest' \notin Parked'
               /\ Apart'
    <2>1. Guest' = Guest
      BY <1>5, AttendantMoves
    <2>2. CASE Park(t)
      <3>1. InService /\ ~InService' /\ heap' = heap
        BY <1>5, <2>2, AttendantMoves DEF Stage, Park
      <3>2. PICK i \in 1 .. Places[t] :
              /\ parking[t][i] = NULL
              /\ \A u \in Types : \A j \in 1 .. Places[u] :
                   parking'[u][j] = IF u = t /\ j = i THEN Guest ELSE parking[u][j]
        BY <1>5, <2>2, LotMoves
      <3>3. Guest # NULL /\ Guest \notin Parked
        BY <3>1, GuestAllocated
      <3>4. Parked' = Parked \cup {Guest}
        BY <3>2, <3>3, ParkedMember DEF IsParked
      <3>5. \A u \in Types : \A j \in 1 .. Places[u] : parking[u][j] # Guest
        BY <3>3, ParkedMember DEF IsParked
      <3>6. Apart'
        BY <1>1, <3>2, <3>3, <3>5 DEF Apart
      <3> QED
        BY <1>1, <3>1, <3>4, <3>6
    <2>3. CASE Checks(t)
      <3>0. PICK u \in Types : \E S \in SUBSET (1 .. Places[u] \ FreeSlots(u)) :
              /\ heap' = heap \ {parking[u][i] : i \in S}
              /\ \A w \in Types : \A j \in 1 .. Places[w] :
                   parking'[w][j] = IF w = u /\ j \in S THEN NULL ELSE parking[w][j]
        BY <1>5, <2>3, LotMoves
      <3>1. PICK S \in SUBSET (1 .. Places[u] \ FreeSlots(u)) :
              /\ heap' = heap \ {parking[u][i] : i \in S}
              /\ \A w \in Types : \A j \in 1 .. Places[w] :
                   parking'[w][j] = IF w = u /\ j \in S THEN NULL ELSE parking[w][j]
        BY <3>0
      <3>2. InService' <=> InService
        BY <1>5, <2>3, AttendantMoves
      <3> DEFINE left == {parking[u][i] : i \in S}
      <3>3. left \subseteq Parked
        BY ParkedMember DEF FreeSlots, IsParked
      <3>4. Parked' = Parked \ left
        <4>1. ASSUME NEW x
              PROVE  x \in Parked' <=> x \in Parked \ left
          <5>1. ASSUME x \in Parked'
                PROVE  x \in Parked \ left
            <6>0. PICK w \in Types : \E j \in 1 .. Places[w] :
                    x # NULL /\ parking'[w][j] = x
              BY <5>1, ParkedMember DEF IsParked
            <6>1. PICK j \in 1 .. Places[w] : x # NULL /\ parking'[w][j] = x
              BY <6>0
            <6>2. ~(w = u /\ j \in S) /\ parking[w][j] = x
              BY <3>1, <6>1
            <6>3. x \notin left
              BY <1>1, <6>1, <6>2 DEF Apart
            <6> QED
              BY <6>1, <6>2, <6>3, ParkedMember DEF IsParked
          <5>2. ASSUME x \in Parked \ left
                PROVE  x \in Parked'
            <6>0. PICK w \in Types : \E j \in 1 .. Places[w] :
                    x # NULL /\ parking[w][j] = x
              BY <5>2, ParkedMember DEF IsParked
            <6>1. PICK j \in 1 .. Places[w] : x # NULL /\ parking[w][j] = x
              BY <6>0
            <6>2. parking'[w][j] = x
              BY <3>1, <5>2, <6>1
            <6> QED
              BY <6>1, <6>2, ParkedMember DEF IsParked
          <5> QED
            BY <5>1, <5>2
        <4> QED
          BY <4>1
      <3>5. Apart'
        BY <1>1, <3>1 DEF Apart
      <3>6. heap' = heap \ left
        BY <3>1
      <3> HIDE DEF left
      <3> QED
        BY <1>1, <2>1, <3>2, <3>3, <3>4, <3>5, <3>6
    <2>4. CASE TurnAway(t)
      <3>1. vehicle[t] = Guest
        BY <2>4 DEF TurnAway, AttendantGoes, IInv, RingExact
      <3>2. InService /\ ~InService'
        BY <1>5, <2>4, AttendantMoves DEF Stage
      <3>3. heap' = heap \ {Guest} /\ UNCHANGED lots
        BY <2>4, <3>1 DEF TurnAway
      <3> QED
        BY <1>1, <1>3, <3>2, <3>3
    <2>5. CASE AwaitNew(t) \/ TakeCharge(t) \/ Take(t) \/ FreeSlot(t)
      <3>1. InService /\ InService'
        BY <1>5, <2>5, AttendantMoves DEF Stage
      <3>2. UNCHANGED lots /\ heap' = heap
        BY <2>5 DEF AwaitNew, TakeCharge, Take, FreeSlot
      <3> QED
        BY <1>1, <1>3, <2>1, <3>1, <3>2
    <2>6. CASE Discharge(t) \/ Done(t)
      <3>1. ~InService /\ ~InService'
        BY <1>5, <2>6, AttendantMoves DEF Stage
      <3>2. UNCHANGED lots /\ heap' = heap
        BY <2>6 DEF Discharge, Done
      <3> QED
        BY <1>1, <1>3, <2>1, <3>1, <3>2
    <2> QED
      BY <1>5, <2>2, <2>3, <2>4, <2>5, <2>6 DEF AttendantStep, Checks
  <1> QED
    BY <1>4, <1>5 DEF Next

LEMMA FreeStep ==
  ASSUME IInv, Next
  PROVE  FreeExact'
  <1>1. FreeExact /\ mFree \in [Types -> Nat]
    BY DEF IInv, TypeOK
  <1>2. CASE UNCHANGED lots
    BY <1>1, <1>2 DEF FreeExact, FreeSlots, lots
  <1>3. ASSUME NEW u \in Types
        PROVE  IsFiniteSet(FreeSlots(u))
    BY PlacesFinite, FS_Subset DEF FreeSlots
  <1>4. ASSUME NEW t \in Types, AttendantStep(t), ~(UNCHANGED lots)
        PROVE  FreeExact'
    <2>1. CASE Park(t)
      <3>1. PICK i \in 1 .. Places[t] :
              /\ parking[t][i] = NULL
              /\ \A u \in Types : \A j \in 1 .. Places[u] :
                   parking'[u][j] = IF u = t /\ j = i THEN Guest ELSE parking[u][j]
              /\ mFree' = [mFree EXCEPT ![t] = @ - 1]
        BY <1>4, <2>1, LotMoves
      <3>2. Guest # NULL
        BY <1>4, <2>1, AttendantMoves, GuestAllocated DEF Stage
      <3>3. FreeSlots(t)' = FreeSlots(t) \ {i} /\ i \in FreeSlots(t)
        BY <3>1, <3>2 DEF FreeSlots
      <3>4. Cardinality(FreeSlots(t))' = Cardinality(FreeSlots(t)) - 1
        BY <1>3, <3>3, FS_RemoveElement
      <3>5. \A u \in Types \ {t} : FreeSlots(u)' = FreeSlots(u)
        BY <3>1 DEF FreeSlots
      <3> QED
        BY <1>1, <3>1, <3>4, <3>5 DEF FreeExact
    <2>2. CASE Checks(t)
      <3>1. PICK u \in Types : \E S \in SUBSET (1 .. Places[u] \ FreeSlots(u)) :
              /\ \A w \in Types : \A j \in 1 .. Places[w] :
                   parking'[w][j] = IF w = u /\ j \in S THEN NULL ELSE parking[w][j]
              /\ mFree' = [mFree EXCEPT ![u] = @ + Cardinality(S)]
        BY <1>4, <2>2, LotMoves
      <3>2. PICK S \in SUBSET (1 .. Places[u] \ FreeSlots(u)) :
              /\ \A w \in Types : \A j \in 1 .. Places[w] :
                   parking'[w][j] = IF w = u /\ j \in S THEN NULL ELSE parking[w][j]
              /\ mFree' = [mFree EXCEPT ![u] = @ + Cardinality(S)]
        BY <3>1
      <3>3. FreeSlots(u)' = FreeSlots(u) \cup S /\ FreeSlots(u) \cap S = {}
        BY <3>2 DEF FreeSlots
      <3>4. IsFiniteSet(S)
        BY PlacesFinite, FS_Subset
      <3>5. Cardinality(FreeSlots(u))' = Cardinality(FreeSlots(u)) + Cardinality(S)
        <4>1. /\ Cardinality(FreeSlots(u) \cup S)
                   = Cardinality(FreeSlots(u)) + Cardinality(S)
                     - Cardinality(FreeSlots(u) \cap S)
          BY <1>3, <3>4, FS_Union
        <4>2. Cardinality(FreeSlots(u)) \in Nat /\ Cardinality(S) \in Nat
          BY <1>3, <3>4, FS_CardinalityType
        <4>3. Cardinality(FreeSlots(u) \cap S) = 0
          BY <3>3, FS_EmptySet
        <4>4. Cardinality(FreeSlots(u))' = Cardinality(FreeSlots(u) \cup S)
          BY <3>3
        <4> QED
          BY <4>1, <4>2, <4>3, <4>4
      <3>6. \A w \in Types \ {u} : FreeSlots(w)' = FreeSlots(w)
        BY <3>2 DEF FreeSlots
      <3> QED
        BY <1>1, <3>2, <3>5, <3>6 DEF FreeExact
    <2> QED
      BY <1>4, <2>1, <2>2, LotMoves
  <1>5. ASSUME NEW o \in Owners, OwnerStep(o)
        PROVE  UNCHANGED lots
    BY <1>5 DEF OwnerStep, Arrive, TakeSlot, Enqueue, Announce, Leave
  <1> QED
    BY <1>2, <1>4, <1>5 DEF Next

LEMMA Initially == Init => IInv
  <1> SUFFICES ASSUME Init PROVE IInv
    OBVIOUS
  <1>1. \A t \in Types : Places[t] \in Nat \ {0}
    BY PlacesFinite
  <1>2. TypeOK
    BY <1>1, CapacityAssumption DEF Init, TypeOK, Types, Cells, Places
  <1>3. Serialized /\ \A t \in Types : ~Awaited(t) /\ Quiet(t)
    BY NullAssumption DEF Init, Serialized, Awaited, Quiet, Busy
  <1>4. OneToken
    BY <1>3 DEF OneToken, Quiet, One
  <1>5. ~OnRing /\ ~HoldsSlot /\ ~InService
    BY DEF Init, OnRing, HoldsSlot, InService, OwnerAt, Announced
  <1>6. SemaphoresExact
    BY <1>5, CapacityAssumption DEF Init, SemaphoresExact, One
  <1>7. RingExact
    BY <1>5 DEF Init, RingExact
  <1>8. \A t \in Types : \A i \in 1 .. Places[t] : parking[t][i] = NULL
    BY DEF Init
  <1>9. Parked = {}
    BY <1>8 DEF Parked, Lot
  <1>10. MemoryExact
    BY <1>5, <1>8, <1>9 DEF Init, MemoryExact
  <1>11. ASSUME NEW t \in Types
         PROVE  mFree[t] = Cardinality(FreeSlots(t))
    <2>1. FreeSlots(t) = 1 .. Places[t]
      BY <1>8 DEF FreeSlots
    <2> QED
      BY <2>1, PlacesFinite DEF Init
  <1> QED
    BY <1>2, <1>3, <1>4, <1>6, <1>7, <1>10, <1>11 DEF IInv, FreeExact

LEMMA Stutter ==
  ASSUME IInv, UNCHANGED vars
  PROVE  IInv'
  <1> USE DEF vars
  <1>1. TypeOK' /\ Serialized'
    BY DEF IInv, TypeOK, Serialized
  <1>2. OneToken' /\ SemaphoresExact'
    BY DEF IInv, OneToken, SemaphoresExact, Busy, Awaited, HoldsSlot, OwnerAt, Announced
  <1>3. RingExact'
    BY DEF IInv, RingExact, OnRing, OwnerAt, Announced, Guest
  <1>4. MemoryExact'
    BY DEF IInv, MemoryExact, InService, OwnerAt, Announced, Guest, Parked, Lot
  <1>5. FreeExact'
    BY DEF IInv, FreeExact, FreeSlots
  <1> QED
    BY <1>1, <1>2, <1>3, <1>4, <1>5 DEF IInv

(* Whatever the number of owners, vehicles and places: the semaphores let  *)
(* an attendant take no vehicle but the one announced to it (hw3.c:126),   *)
(* every allocated vehicle is in exactly one place and no freed one in     *)
(* any, and the counter of each lot agrees with its slots.                 *)
THEOREM Invariance == Spec => []IInv
  <1>1. Init => IInv
    BY Initially
  <1>2. IInv /\ [Next]_vars => IInv'
    <2>1. ASSUME IInv, Next
          PROVE  IInv'
      BY <2>1, TypeStep, SerializedStep, OneTokenStep, SemaphoresStep, RingStep,
         MemoryStep, FreeStep DEF IInv
    <2> QED
      BY <2>1, Stutter
  <1> QED
    BY <1>1, <1>2, PTL DEF Spec

-----------------------------------------------------------------------------
(* The lot implements its contract.                                        *)
LEMMA LotCount ==
  ASSUME IInv, NEW t \in Types
  PROVE  Cardinality(Lot(t)) = Places[t] - mFree[t]
  <1> DEFINE taken == (1 .. Places[t]) \ FreeSlots(t)
             in == [i \in taken |-> parking[t][i]]
  <1>1. FreeSlots(t) \subseteq 1 .. Places[t]
    BY DEF FreeSlots
  <1>2. IsFiniteSet(taken) /\ Cardinality(taken) = Places[t] - mFree[t]
    <2>1. (1 .. Places[t]) \cap FreeSlots(t) = FreeSlots(t)
      BY <1>1
    <2>2. mFree[t] = Cardinality(FreeSlots(t))
      BY DEF IInv, FreeExact
    <2>3. IsFiniteSet(1 .. Places[t]) /\ Cardinality(1 .. Places[t]) = Places[t]
      BY PlacesFinite
    <2>4. /\ IsFiniteSet(taken)
          /\ Cardinality(taken)
               = Cardinality(1 .. Places[t]) - Cardinality((1 .. Places[t]) \cap FreeSlots(t))
      BY <2>3, FS_Difference
    <2> QED
      BY <2>1, <2>2, <2>3, <2>4
  <1>3. in \in Bijection(taken, Lot(t))
    <2>1. \A i \in taken : parking[t][i] \in Lot(t)
      BY DEF FreeSlots, Lot
    <2>2. \A i, j \in taken : in[i] = in[j] => i = j
      BY DEF FreeSlots, IInv, MemoryExact
    <2>3. \A v \in Lot(t) : \E i \in taken : in[i] = v
      BY DEF FreeSlots, Lot
    <2> HIDE DEF taken
    <2>4. in \in [taken -> Lot(t)] /\ DOMAIN in = taken
      BY <2>1
    <2> HIDE DEF in
    <2>5. in \in Injection(taken, Lot(t))
      BY <2>2, <2>4 DEF Injection, IsInjective
    <2> QED
      BY <2>3, <2>4, <2>5 DEF Bijection, Surjection
  <1> HIDE DEF taken, in
  <1>4. ExistsBijection(taken, Lot(t))
    BY <1>3 DEF ExistsBijection
  <1> QED
    BY <1>2, <1>4, FS_Bijection

LEMMA LotTurns ==
  ASSUME IInv, Next, NEW t \in Types, AttendantStep(t)
  PROVE  /\ Park(t) => /\ Lot(t)' = Lot(t) \cup {Guest}
                       /\ \A u \in Types \ {t} : Lot(u)' = Lot(u)
         /\ Checks(t) => \E u \in Types : \E S \in SUBSET Lot(u) :
                            /\ Lot(u)' = Lot(u) \ S
                            /\ \A w \in Types \ {u} : Lot(w)' = Lot(w)
         /\ Park(t) \/ Checks(t) \/ \A u \in Types : Lot(u)' = Lot(u)
  <1>1. CASE Park(t)
    <2>1. PICK i \in 1 .. Places[t] :
            /\ parking[t][i] = NULL
            /\ \A u \in Types : \A j \in 1 .. Places[u] :
                 parking'[u][j] = IF u = t /\ j = i THEN Guest ELSE parking[u][j]
      BY <1>1, LotMoves
    <2>2. Guest # NULL
      BY <1>1, AttendantMoves, GuestAllocated DEF Stage
    <2>3. Lot(t)' = Lot(t) \cup {Guest}
      BY <2>1, <2>2 DEF Lot
    <2>4. \A u \in Types \ {t} : Lot(u)' = Lot(u)
      BY <2>1 DEF Lot
    <2> QED
      BY <1>1, <2>3, <2>4 DEF Park, Checks, Check, AttendantGoes
  <1>2. CASE Checks(t)
    <2>1. PICK u \in Types : \E S \in SUBSET (1 .. Places[u] \ FreeSlots(u)) :
            \A w \in Types : \A j \in 1 .. Places[w] :
              parking'[w][j] = IF w = u /\ j \in S THEN NULL ELSE parking[w][j]
      BY <1>2, LotMoves
    <2>2. PICK S \in SUBSET (1 .. Places[u] \ FreeSlots(u)) :
            \A w \in Types : \A j \in 1 .. Places[w] :
              parking'[w][j] = IF w = u /\ j \in S THEN NULL ELSE parking[w][j]
      BY <2>1
    <2> DEFINE left == {parking[u][j] : j \in S}
    <2>3. \A i, j \in 1 .. Places[u] :
            parking[u][i] = parking[u][j] /\ parking[u][i] # NULL => i = j
      BY DEF IInv, MemoryExact
    <2>4. Lot(u)' = Lot(u) \ left
      BY <2>2, <2>3 DEF Lot
    <2>5. left \in SUBSET Lot(u)
      BY DEF Lot, FreeSlots
    <2>6. \A w \in Types \ {u} : Lot(w)' = Lot(w)
      BY <2>2 DEF Lot
    <2> HIDE DEF left
    <2> QED
      BY <1>2, <2>4, <2>5, <2>6 DEF Park, Checks, Check, AttendantGoes
  <1>3. CASE ~Park(t) /\ ~Checks(t)
    BY <1>3, LotMoves DEF lots, Lot
  <1> QED
    BY <1>1, <1>2, <1>3

LEMMA ContractInit == Init => Contract!Init
  <1> SUFFICES ASSUME Init PROVE Contract!Init
    OBVIOUS
  <1>1. ~InService
    BY DEF Init, InService, OwnerAt, Announced
  <1>2. \A t \in Types : Lot(t) = {}
    BY DEF Init, Lot
  <1> QED
    BY <1>1, <1>2 DEF Contract!Init

LEMMA ContractStep ==
  ASSUME IInv, Next
  PROVE  [Contract!Next]_(Contract!lotVars)
  <1> DEFINE lot == [t \in Types |-> Lot(t)]
             guest == IF InService THEN <<Guest, vtype[vehicle_arrival_lock]>> ELSE NULL
  <1>1. ASSUME lot' = lot, guest' = guest
        PROVE  UNCHANGED Contract!lotVars
    BY <1>1 DEF Contract!lotVars
  <1>2. Contract!Parked = Parked
    BY DEF Contract!Parked, Parked
  <1>3. \A t \in Types : lot[t] = Lot(t) /\ lot'[t] = Lot(t)'
    OBVIOUS
  <1>4. ASSUME NEW o \in Owners, OwnerStep(o)
        PROVE  [Contract!Next]_(Contract!lotVars)
    <2>1. lot' = lot
      BY <1>4 DEF OwnerStep, Arrive, TakeSlot, Enqueue, Announce, Leave, lots, Lot
    <2>2. CASE Arrive(o)
      <3>1. PICK v \in Vehicles \ heap, t \in Types :
              brings' = [brings EXCEPT ![o] = v] /\ vtype' = [vtype EXCEPT ![o] = t]
        BY <2>2 DEF Arrive
      <3>2. brings'[o] = v /\ vtype'[o] = t /\ vehicle_arrival_lock' = o
        BY <2>2, <3>1 DEF Arrive, IInv, TypeOK
      <3>3. ~InService /\ InService' /\ Guest' = v
        BY <1>4, <2>2, <3>2, OwnerMoves DEF Stage
      <3>4. v \notin Parked
        BY DEF IInv, MemoryExact
      <3>5. guest = NULL /\ guest' = <<v, t>>
        BY <3>2, <3>3
      <3>6. Contract!Arrive(v, t)
        BY <1>2, <2>1, <3>4, <3>5 DEF Contract!Arrive
      <3> QED
        BY <3>6 DEF Contract!Next
    <2>3. CASE TakeSlot(o) \/ Enqueue(o) \/ Announce(o)
      <3>1. InService /\ InService' /\ Guest' = Guest
        BY <1>4, <2>3, OwnerMoves DEF Stage
      <3>2. UNCHANGED <<vehicle_arrival_lock, vtype>>
        BY <2>3 DEF TakeSlot, Enqueue, Announce
      <3> QED
        BY <1>1, <2>1, <3>1, <3>2
    <2>4. CASE Leave(o)
      <3>1. ~InService /\ ~InService'
        BY <1>4, <2>4, OwnerMoves DEF Stage
      <3> QED
        BY <1>1, <2>1, <3>1
    <2> QED
      BY <1>4, <2>2, <2>3, <2>4 DEF OwnerStep
  <1>5. ASSUME NEW t \in Types, AttendantStep(t)
        PROVE  [Contract!Next]_(Contract!lotVars)
    <2>1. UNCHANGED <<vehicle_arrival_lock, vtype>> /\ Guest' = Guest
      BY <1>5, AttendantMoves DEF ownerVars
    <2>2. ASSUME Park(t) \/ TurnAway(t)
          PROVE  /\ InService /\ ~InService' /\ vtype[vehicle_arrival_lock] = t
                 /\ guest = <<Guest, t>> /\ guest' = NULL
                 /\ Guest \in Vehicles /\ Cardinality(lot[t]) = Places[t] - mFree[t]
                 /\ mFree[t] \in Nat /\ Places[t] \in Nat
      <3>1. InService /\ ~InService'
        BY <1>5, <2>2, AttendantMoves DEF Stage
      <3>2. ~Quiet(t)
        BY <2>2 DEF Park, TurnAway, AttendantGoes, Quiet, Busy
      <3>3. vtype[vehicle_arrival_lock] = t
        BY <3>2, PositionsAround DEF PositionFacts
      <3>4. mFree[t] \in Nat
        BY DEF IInv, TypeOK
      <3> QED
        BY <1>3, <3>1, <3>3, <3>4, GuestAllocated, LotCount, PlacesFinite
    <2>3. CASE Park(t)
      <3>1. lot' = [lot EXCEPT ![t] = @ \cup {Guest}]
        BY <1>5, <2>3, LotTurns
      <3>2. Cardinality(lot[t]) < Places[t]
        BY <2>2, <2>3 DEF Park
      <3>3. Contract!Park(Guest, t)
        <4>1. guest = <<Guest, t>> /\ guest' = NULL
          BY <2>2, <2>3
        <4> QED
          BY <3>1, <3>2, <4>1 DEF Contract!Park, Contract!Cardinality, Cardinality
      <3> QED
        BY <2>2, <2>3, <3>3 DEF Contract!Next
    <2>4. CASE TurnAway(t)
      <3>1. lot' = lot
        BY <2>4 DEF TurnAway, lots, Lot
      <3>2. Cardinality(lot[t]) = Places[t]
        BY <2>2, <2>4 DEF TurnAway
      <3>3. Contract!TurnAway(Guest, t)
        <4>1. guest = <<Guest, t>> /\ guest' = NULL
          BY <2>2, <2>4
        <4> QED
          BY <3>1, <3>2, <4>1 DEF Contract!TurnAway, Contract!Cardinality, Cardinality
      <3> QED
        BY <2>2, <2>4, <3>3 DEF Contract!Next
    <2>5. CASE Checks(t)
      <3>1. guest' = guest
        BY <1>5, <2>1, <2>5, AttendantMoves
      <3>2. PICK u \in Types : \E S \in SUBSET Lot(u) :
              Lot(u)' = Lot(u) \ S /\ \A w \in Types \ {u} : Lot(w)' = Lot(w)
        BY <1>5, <2>5, LotTurns
      <3>3. PICK S \in SUBSET Lot(u) :
              Lot(u)' = Lot(u) \ S /\ \A w \in Types \ {u} : Lot(w)' = Lot(w)
        BY <3>2
      <3>4. lot' = [lot EXCEPT ![u] = @ \ S]
        BY <3>3
      <3>5. Contract!Depart(u, S)
        BY <3>1, <3>3, <3>4 DEF Contract!Depart
      <3>6. S \in SUBSET lot[u]
        BY <3>3
      <3> QED
        BY <3>5, <3>6 DEF Contract!Next
    <2>6. CASE AwaitNew(t) \/ TakeCharge(t) \/ Take(t) \/ FreeSlot(t)
      <3>1. InService /\ InService'
        BY <1>5, <2>6, AttendantMoves DEF Stage
      <3>2. lot' = lot
        BY <2>6 DEF AwaitNew, TakeCharge, Take, FreeSlot, lots, Lot
      <3> QED
        BY <1>1, <2>1, <3>1, <3>2
    <2>7. CASE Discharge(t) \/ Done(t)
      <3>1. ~InService /\ ~InService'
        BY <1>5, <2>7, AttendantMoves DEF Stage
      <3>2. lot' = lot
        BY <2>7 DEF Discharge, Done, lots, Lot
      <3> QED
        BY <1>1, <3>1, <3>2
    <2> QED
      BY <1>5, <2>3, <2>4, <2>5, <2>6, <2>7 DEF AttendantStep, Checks
  <1> QED
    BY <1>4, <1>5 DEF Next

(* The attendants and owners implement the contract of ParkingLot: each    *)
(* vehicle is parked in the lot of its kind, or turned away exactly when   *)
(* that lot is full.                                                       *)
THEOREM Refinement == Spec => LotRefinement
  <1>1. Init => Contract!Init
    BY ContractInit
  <1>2. IInv /\ [Next]_vars => [Contract!Next]_(Contract!lotVars)
    <2>1. ASSUME UNCHANGED vars
          PROVE  UNCHANGED Contract!lotVars
      BY <2>1 DEF vars, Contract!lotVars, Lot, InService, OwnerAt, Announced, Guest
    <2> QED
      BY <2>1, ContractStep
  <1> QED
    BY <1>1, <1>2, Invariance, PTL DEF Spec, LotRefinement, Contract!Spec
===============================================================================
