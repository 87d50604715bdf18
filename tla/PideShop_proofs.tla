---------------------------- MODULE PideShop_proofs ----------------------------
(***************************************************************************)
(* Proofs about PideShop, for any number of chefs, deliverers, customers   *)
(* and orders, any oven and any bag, with customers on the server's host   *)
(* or on others.                                                           *)
(***************************************************************************)
EXTENDS PideShop, FiniteSetTheorems, SequenceTheorems, TLAPS

-----------------------------------------------------------------------------
(* Sets of natural numbers.                                                *)
LEMMA LeastOf ==
  ASSUME NEW S, S \subseteq Nat, S # {}
  PROVE  First(S) \in S /\ \A j \in S : First(S) <= j
  <1> DEFINE R == OpToRel(<, Nat)
  <1>1. IsWellFoundedOn(R, Nat)
    BY NatLessThanWellFounded
  <1>2. \A x, y \in S : y < x => <<y, x>> \in R
    <2> SUFFICES ASSUME NEW x \in S, NEW y \in S, y < x PROVE <<y, x>> \in R
      OBVIOUS
    <2>1. <<y, x>> \in Nat \X Nat /\ <<y, x>>[1] = y /\ <<y, x>>[2] = x
      OBVIOUS
    <2>2. <<y, x>>[1] < <<y, x>>[2]
      BY <2>1
    <2>3. R = {ss \in Nat \X Nat : ss[1] < ss[2]}
      BY DEF OpToRel
    <2> QED
      BY <2>1, <2>2, <2>3
  <1> HIDE DEF R
  <1>3. PICK x \in S : \A y \in S : ~(<<y, x>> \in R)
    BY <1>1, WFMin
  <1>4. \A y \in S : ~(y < x)
    BY <1>2, <1>3
  <1>5. \A y \in S : x <= y
    BY <1>4
  <1>6. \E i \in S : \A j \in S : i <= j
    BY <1>5
  <1> QED
    BY <1>6 DEF First

LEMMA RankFacts ==
  ASSUME NEW S, S \subseteq Nat, IsFiniteSet(S)
  PROVE  /\ Cardinality(S) \in Nat
         /\ \A i \in Nat : Rank(i, S) \in Nat
         /\ \A i \in S : Rank(i, S) < Cardinality(S)
         /\ \A i, j \in S : i < j => Rank(i, S) < Rank(j, S)
         /\ \A i, j \in S : Rank(i, S) = Rank(j, S) => i = j
  <1> DEFINE Below(i) == {j \in S : j < i}
  <1>1. \A i : /\ Below(i) \in SUBSET S /\ IsFiniteSet(Below(i))
               /\ Cardinality(Below(i)) \in Nat /\ Rank(i, S) = Cardinality(Below(i))
    BY FS_Subset, FS_CardinalityType DEF Rank
  <1>2. Cardinality(S) \in Nat
    BY FS_CardinalityType
  <1>3. ASSUME NEW T, NEW U, IsFiniteSet(T), U \in SUBSET T, U # T
        PROVE  Cardinality(U) < Cardinality(T)
    <2>1. /\ Cardinality(U) <= Cardinality(T) /\ Cardinality(U) # Cardinality(T)
          /\ IsFiniteSet(U)
      BY <1>3, FS_Subset
    <2>2. Cardinality(U) \in Nat /\ Cardinality(T) \in Nat
      BY <1>3, <2>1, FS_CardinalityType
    <2> QED
      BY <2>1, <2>2
  <1>4. ASSUME NEW i \in S PROVE Rank(i, S) < Cardinality(S)
    <2>1. i \in S \ Below(i)
      OBVIOUS
    <2> QED
      BY <1>1, <1>3, <2>1
  <1>5. ASSUME NEW i \in S, NEW j \in S, i < j PROVE Rank(i, S) < Rank(j, S)
    <2>a. i \in Nat /\ j \in Nat
      OBVIOUS
    <2>b. ASSUME NEW x \in S, x < i PROVE x < j
      BY <1>5, <2>a, <2>b
    <2>1. Below(i) \in SUBSET Below(j)
      BY <2>b
    <2>2. i \in Below(j) \ Below(i)
      BY <1>5, <2>a
    <2> QED
      BY <1>1, <1>3, <2>1, <2>2
  <1>6. ASSUME NEW i \in S, NEW j \in S, Rank(i, S) = Rank(j, S) PROVE i = j
    <2>1. \A r \in Nat : ~(r < r)
      OBVIOUS
    <2>2. ~(i < j) /\ ~(j < i)
      BY <1>1, <1>5, <1>6, <2>1
    <2>3. i \in Nat /\ j \in Nat
      OBVIOUS
    <2> QED
      BY <2>2, <2>3
  <1> QED
    BY <1>1, <1>2, <1>4, <1>5, <1>6

(* Every rank is taken, by one element.                                    *)
LEMMA NthFacts ==
  ASSUME NEW S, S \subseteq Nat, IsFiniteSet(S)
  PROVE  /\ \A n \in 1 .. Cardinality(S) : Nth(S, n) \in S
         /\ \A n, m \in 1 .. Cardinality(S) : Nth(S, n) = Nth(S, m) => n = m
  <1> DEFINE k == Cardinality(S)
             D == 1 .. k
             f == [i \in S |-> Rank(i, S) + 1]
  <1>1. /\ k \in Nat
        /\ \A i \in S : Rank(i, S) \in Nat /\ Rank(i, S) < k
        /\ \A i, j \in S : Rank(i, S) = Rank(j, S) => i = j
    BY RankFacts
  <1>2. \A i \in S : f[i] \in D
    BY <1>1
  <1>3. \A i, j \in S : f[i] = f[j] => i = j
    BY <1>1
  <1>4. f \in Injection(S, D)
    BY <1>2, <1>3 DEF Injection, IsInjective
  <1>5. IsFiniteSet(D) /\ Cardinality(D) = k
    BY <1>1, FS_Interval
  <1>6. f \in Surjection(S, D)
    <2> HIDE DEF f, D
    <2> QED
      BY <1>4, <1>5, FS_Injection
  <1>7. ASSUME NEW n \in D PROVE Nth(S, n) \in S /\ Rank(Nth(S, n), S) = n - 1
    <2>1. PICK i \in S : f[i] = n
      BY <1>6 DEF Surjection
    <2>2. Rank(i, S) = n - 1
      BY <1>1, <2>1
    <2>3. \E j \in S : Rank(j, S) = n - 1
      BY <2>2
    <2> QED
      BY <2>3 DEF Nth
  <1>8. ASSUME NEW n \in D, NEW m \in D, Nth(S, n) = Nth(S, m) PROVE n = m
    <2>1. n - 1 = m - 1
      BY <1>7, <1>8
    <2> QED
      BY <1>1, <2>1
  <1> QED
    BY <1>7, <1>8

LEMMA Parameters ==
  /\ MAX_OVEN_SLOTS \in Nat \ {0} /\ MAX_OVEN_PEELS \in Nat \ {0}
  /\ MAX_OVEN_CAPACITY \in Nat \ {0} /\ MAX_OVEN_SLOTS <= MAX_OVEN_CAPACITY
  /\ MAX_OVEN_SLOTS <= MAX_OVEN_PEELS
  /\ MAX_DELIVERY_BAG_CAPACITY \in Nat \ {0} /\ MaxOrders \in Nat \ {0}
  /\ Indices \subseteq Nat /\ 0 \in Indices /\ IsFiniteSet(Indices)
  /\ Chefs \cap Deliverers = {} /\ NULL \notin Chefs \cup Deliverers /\ NULL \notin Clients
  /\ IsFiniteSet(Chefs) /\ IsFiniteSet(Clients)
  /\ Used \in SUBSET Indices /\ IsFiniteSet(Used)
  <1>1. MaxOrders \in Nat \ {0} /\ MaxOrders - 1 \in Int
    BY OvenAssumption
  <1>2. Indices \subseteq Nat /\ 0 \in Indices
    BY <1>1 DEF Indices
  <1>3. IsFiniteSet(Indices)
    BY <1>1, FS_Interval DEF Indices
  <1>4. Used \in SUBSET Indices
    BY DEF Used
  <1>5. IsFiniteSet(Used)
    BY <1>3, <1>4, FS_Subset
  <1> QED
    BY <1>1, <1>2, <1>3, <1>4, <1>5, OvenAssumption, ActorsAssumption

-----------------------------------------------------------------------------
(* The kitchen: how many chefs are at some steps, asleep or awake.         *)
ChefSteps == {"order", "slot", "peel", "oven", "cooking", "free_slot", "free_peel", "ready",
              "log"}
HoldSlot == {"peel", "oven", "cooking", "free_slot"}
HoldPeel == {"oven", "cooking", "free_slot", "free_peel"}
Dozing(step) == asleep \cap Chefs_({step})
Awake(step) == Chefs_({step}) \ asleep

LEMMA OneMore ==
  ASSUME NEW S, IsFiniteSet(S), NEW x, x \notin S
  PROVE  /\ IsFiniteSet(S \cup {x}) /\ Cardinality(S) \in Nat
         /\ Cardinality(S \cup {x}) = Cardinality(S) + 1
  BY FS_AddElement, FS_CardinalityType

LEMMA OneLess ==
  ASSUME NEW S, IsFiniteSet(S), NEW x \in S
  PROVE  /\ IsFiniteSet(S \ {x}) /\ Cardinality(S) \in Nat
         /\ Cardinality(S) >= 1
         /\ Cardinality(S \ {x}) = Cardinality(S) - 1
  <1>1. IsFiniteSet(S \ {x}) /\ Cardinality(S \ {x}) = Cardinality(S) - 1
    BY FS_RemoveElement
  <1>2. Cardinality(S) \in Nat /\ Cardinality(S \ {x}) \in Nat
    BY <1>1, FS_CardinalityType
  <1> QED
    BY <1>1, <1>2

LEMMA NotMore ==
  ASSUME NEW S, IsFiniteSet(S), NEW T, T \subseteq S
  PROVE  /\ IsFiniteSet(T) /\ Cardinality(T) \in Nat /\ Cardinality(S) \in Nat
         /\ Cardinality(T) <= Cardinality(S)
  BY FS_Subset, FS_CardinalityType

LEMMA ChefSets ==
  /\ \A T : IsFiniteSet(Chefs_(T)) /\ Cardinality(Chefs_(T)) \in Nat
  /\ \A s : IsFiniteSet(Awake(s)) /\ Cardinality(Awake(s)) \in Nat
  <1>1. \A T : Chefs_(T) \subseteq Chefs
    BY DEF Chefs_
  <1>2. \A s : Awake(s) \subseteq Chefs
    BY <1>1 DEF Awake
  <1> QED
    BY <1>1, <1>2, NotMore, Parameters

LEMMA ChefMoves ==
  ASSUME TypeOK, NEW c \in Chefs, NEW from, NEW to, ChefGoes(c, from, to), NEW T
  PROVE  /\ Cardinality(Chefs_(T)) \in Nat /\ Cardinality(Chefs_(T)') \in Nat
         /\ from \in T /\ to \in T => Cardinality(Chefs_(T)') = Cardinality(Chefs_(T))
         /\ from \notin T /\ to \notin T => Cardinality(Chefs_(T)') = Cardinality(Chefs_(T))
         /\ from \notin T /\ to \in T => Cardinality(Chefs_(T)') = Cardinality(Chefs_(T)) + 1
         /\ from \in T /\ to \notin T => Cardinality(Chefs_(T)') = Cardinality(Chefs_(T)) - 1
                                         /\ Cardinality(Chefs_(T)) >= 1
  <1> DEFINE S == Chefs_(T)
             R == Chefs_(T)'
  <1>1. chef[c] = from /\ chef' = [chef EXCEPT ![c] = to] /\ chef \in [Chefs -> ChefSteps]
    BY DEF ChefGoes, TypeOK, ChefSteps
  <1>2. c \in S <=> from \in T
    BY <1>1 DEF Chefs_
  <1>3. \A b \in Chefs : chef'[b] = IF b = c THEN to ELSE chef[b]
    BY <1>1
  <1>4. /\ to \in T => R = S \cup {c}
        /\ to \notin T => R = S \ {c}
    BY <1>3 DEF Chefs_
  <1>5. IsFiniteSet(S) /\ Cardinality(S) \in Nat
    BY ChefSets
  <1> HIDE DEF S, R
  <1>6. c \in S => S \cup {c} = S
    OBVIOUS
  <1>7. c \notin S => S \ {c} = S
    OBVIOUS
  <1>8. /\ c \in S => Cardinality(S \ {c}) = Cardinality(S) - 1 /\ Cardinality(S) >= 1
        /\ c \notin S => Cardinality(S \cup {c}) = Cardinality(S) + 1
    BY <1>5, OneMore, OneLess
  <1>9. Cardinality(R) \in Nat
    <2>1. CASE to \in T /\ c \in S
      BY <1>4, <1>5, <1>6, <2>1
    <2>2. CASE to \in T /\ c \notin S
      <3>1. Cardinality(R) = Cardinality(S) + 1
        BY <1>4, <1>8, <2>2
      <3> QED
        BY <1>5, <3>1
    <2>3. CASE to \notin T /\ c \in S
      <3>1. Cardinality(R) = Cardinality(S) - 1 /\ Cardinality(S) >= 1
        BY <1>4, <1>8, <2>3
      <3> QED
        BY <1>5, <3>1
    <2>4. CASE to \notin T /\ c \notin S
      BY <1>4, <1>5, <1>7, <2>4
    <2> QED
      BY <2>1, <2>2, <2>3, <2>4
  <1>10. /\ Cardinality(S) \in Nat /\ Cardinality(R) \in Nat
         /\ from \in T /\ to \in T => Cardinality(R) = Cardinality(S)
         /\ from \notin T /\ to \notin T => Cardinality(R) = Cardinality(S)
         /\ from \notin T /\ to \in T => Cardinality(R) = Cardinality(S) + 1
         /\ from \in T /\ to \notin T => Cardinality(R) = Cardinality(S) - 1
                                         /\ Cardinality(S) >= 1
    BY <1>2, <1>4, <1>5, <1>6, <1>7, <1>8, <1>9
  <1> QED
    BY <1>10 DEF S, R

(* Who goes from one step to another is awake; a signal wakes others.      *)
LEMMA AwakeMoves ==
  ASSUME TypeOK, NEW c \in Chefs, c \notin asleep, NEW from, NEW to,
         ChefGoes(c, from, to), asleep' \subseteq asleep, NEW s
  PROVE  /\ Dozing(s)' \subseteq Dozing(s)
         /\ from # s => Cardinality(Awake(s)') >= Cardinality(Awake(s))
         /\ Cardinality(Awake(s)') >= Cardinality(Awake(s)) - 1
         /\ from # s => \A t \in Dozing(s) : asleep' = asleep \ {t}
              => Cardinality(Awake(s)') >= Cardinality(Awake(s)) + 1
         /\ Cardinality(Awake(s)') \in Nat
  <1> DEFINE A == Awake(s)
             B == Awake(s)'
  <1>1. chef[c] = from /\ chef' = [chef EXCEPT ![c] = to] /\ chef \in [Chefs -> ChefSteps]
    BY DEF ChefGoes, TypeOK, ChefSteps
  <1>2. \A b \in Chefs : chef'[b] = IF b = c THEN to ELSE chef[b]
    BY <1>1
  <1>3. Dozing(s)' \subseteq Dozing(s)
    BY <1>2 DEF Dozing, Chefs_
  <1>4. A \ {c} \subseteq B
    BY <1>2 DEF Awake, Chefs_
  <1>5. from # s => c \notin A
    BY <1>1 DEF Awake, Chefs_
  <1>6. ASSUME NEW t \in Dozing(s), from # s, asleep' = asleep \ {t}
        PROVE  t \notin A /\ A \cup {t} \subseteq B
    <2>1. t \in asleep /\ t \in Chefs /\ chef[t] = s /\ t # c
      BY <1>1, <1>6 DEF Dozing, Chefs_
    <2>2. t \notin A /\ t \in B
      BY <1>2, <1>6, <2>1 DEF Awake, Chefs_
    <2> QED
      BY <1>4, <1>5, <1>6, <2>2
  <1>7. IsFiniteSet(A) /\ Cardinality(A) \in Nat
    BY ChefSets
  <1>8. B \subseteq Chefs
    BY DEF Awake, Chefs_
  <1> HIDE DEF A, B
  <1>9. IsFiniteSet(B) /\ Cardinality(B) \in Nat
    BY <1>8, NotMore, Parameters
  <1>10. c \notin A => A \ {c} = A
    OBVIOUS
  <1>11. from # s => Cardinality(B) >= Cardinality(A)
    BY <1>4, <1>5, <1>7, <1>9, <1>10, NotMore
  <1>12. Cardinality(B) >= Cardinality(A) - 1
    <2>1. CASE c \notin A
      BY <1>4, <1>7, <1>9, <1>10, <2>1, NotMore
    <2>2. CASE c \in A
      <3>1. /\ Cardinality(A \ {c}) = Cardinality(A) - 1
            /\ Cardinality(A \ {c}) <= Cardinality(B)
        BY <1>4, <1>7, <1>9, <2>2, NotMore, OneLess
      <3> QED
        BY <1>7, <1>9, <3>1
    <2> QED
      BY <2>1, <2>2
  <1>13. ASSUME NEW t \in Dozing(s), from # s, asleep' = asleep \ {t}
         PROVE  Cardinality(B) >= Cardinality(A) + 1
    <2>1. /\ Cardinality(A \cup {t}) = Cardinality(A) + 1
          /\ Cardinality(A \cup {t}) <= Cardinality(B)
      BY <1>6, <1>7, <1>9, <1>13, NotMore, OneMore
    <2> QED
      BY <1>7, <1>9, <2>1
  <1>14. Cardinality(Awake(s)') >= Cardinality(Awake(s)) - 1 /\ Cardinality(Awake(s)') \in Nat
    BY <1>9, <1>12 DEF A, B
  <1> QED
    BY <1>3, <1>11, <1>13, <1>14 DEF A, B

(* A chef at the oven has a slot of its own, and no slot is without place. *)
LEMMA PlaceLeft ==
  ASSUME TypeOK, KitchenExact, NEW c \in Chefs, chef[c] = "oven"
  PROVE  ovenCapacity < MAX_OVEN_CAPACITY
  <1> DEFINE A == Chefs_({"cooking"})
             B == Chefs_(HoldSlot)
  <1>1. c \notin A /\ A \cup {c} \subseteq B
    BY DEF Chefs_, HoldSlot
  <1>2. /\ IsFiniteSet(A) /\ Cardinality(A) \in Nat
        /\ IsFiniteSet(B) /\ Cardinality(B) \in Nat
    BY ChefSets
  <1>3. ovenCapacity = Cardinality(A) /\ ovenSlots = MAX_OVEN_SLOTS - Cardinality(B)
    BY DEF KitchenExact, HoldSlot
  <1>4. ovenSlots \in Nat
    BY DEF TypeOK
  <1> HIDE DEF A, B
  <1>5. Cardinality(A \cup {c}) = Cardinality(A) + 1
    BY <1>1, <1>2, OneMore
  <1>6. Cardinality(A \cup {c}) <= Cardinality(B)
    BY <1>1, <1>2, NotMore
  <1> QED
    BY <1>2, <1>3, <1>4, <1>5, <1>6, Parameters

Bit(x, T) == IF x \in T THEN 1 ELSE 0

(* A chef's step keeps the kitchen right if it changes the counters by     *)
(* what it holds less or more, and wakes a sleeper for what it gives back. *)
LEMMA Moved ==
  ASSUME TypeOK, KitchenExact, NEW c \in Chefs, c \notin asleep,
         NEW from, NEW to, ChefGoes(c, from, to), asleep' \subseteq asleep,
         ovenSlots' = ovenSlots + Bit(from, HoldSlot) - Bit(to, HoldSlot),
         ovenPeels' = ovenPeels + Bit(from, HoldPeel) - Bit(to, HoldPeel),
         ovenCapacity' = ovenCapacity - Bit(from, {"cooking"}) + Bit(to, {"cooking"}),
         from = "slot" => to \in HoldSlot,
         from = "peel" => to \in HoldPeel,
         ovenSlots' > ovenSlots => \/ Dozing("slot") = {}
                                   \/ \E t \in Dozing("slot") : asleep' = asleep \ {t},
         ovenPeels' > ovenPeels => \/ Dozing("peel") = {}
                                   \/ \E t \in Dozing("peel") : asleep' = asleep \ {t}
  PROVE  /\ KitchenExact' /\ ovenSlots' <= MAX_OVEN_SLOTS /\ ovenPeels' <= MAX_OVEN_PEELS
         /\ ovenCapacity' >= 0
  <1> DEFINE S == Chefs_(HoldSlot)
             P == Chefs_(HoldPeel)
             C == Chefs_({"cooking"})
  <1>1. /\ ovenSlots = MAX_OVEN_SLOTS - Cardinality(S)
        /\ ovenPeels = MAX_OVEN_PEELS - Cardinality(P)
        /\ ovenCapacity = Cardinality(C)
        /\ Dozing("oven") = {}
        /\ Dozing("slot") # {} => ovenSlots <= Cardinality(Awake("slot"))
        /\ Dozing("peel") # {} => ovenPeels <= Cardinality(Awake("peel"))
    BY DEF KitchenExact, HoldSlot, HoldPeel, Dozing, Awake
  <1>2. /\ ovenSlots \in Nat /\ ovenPeels \in Nat /\ ovenCapacity \in Nat
        /\ Bit(from, HoldSlot) \in {0, 1} /\ Bit(to, HoldSlot) \in {0, 1}
        /\ Bit(from, HoldPeel) \in {0, 1} /\ Bit(to, HoldPeel) \in {0, 1}
    BY DEF TypeOK, Bit
  <1>3. /\ Cardinality(S') = Cardinality(S) - Bit(from, HoldSlot) + Bit(to, HoldSlot)
        /\ Cardinality(S) \in Nat /\ Cardinality(S') \in Nat
    BY ChefMoves DEF Bit
  <1>4. /\ Cardinality(P') = Cardinality(P) - Bit(from, HoldPeel) + Bit(to, HoldPeel)
        /\ Cardinality(P) \in Nat /\ Cardinality(P') \in Nat
    BY ChefMoves DEF Bit
  <1>5. /\ Cardinality(C') = Cardinality(C) - Bit(from, {"cooking"}) + Bit(to, {"cooking"})
        /\ Cardinality(C) \in Nat /\ Cardinality(C') \in Nat
    BY ChefMoves DEF Bit
  <1> HIDE DEF S, P, C
  <1>6. ovenSlots' = MAX_OVEN_SLOTS - Cardinality(S') /\ ovenSlots' <= MAX_OVEN_SLOTS
    BY <1>1, <1>2, <1>3, Parameters
  <1>7. ovenPeels' = MAX_OVEN_PEELS - Cardinality(P') /\ ovenPeels' <= MAX_OVEN_PEELS
    BY <1>1, <1>2, <1>4, Parameters
  <1>8. ovenCapacity' = Cardinality(C') /\ ovenCapacity' >= 0
    BY <1>1, <1>5
  <1>9. Dozing("oven")' = {}
    BY <1>1, AwakeMoves
  <1>10. ASSUME Dozing("slot")' # {} PROVE ovenSlots' <= Cardinality(Awake("slot")')
    <2>1. Dozing("slot") # {} /\ ovenSlots <= Cardinality(Awake("slot"))
      BY <1>1, <1>10, AwakeMoves
    <2>2. Cardinality(Awake("slot")) \in Nat /\ Cardinality(Awake("slot")') \in Nat
      BY ChefSets, AwakeMoves
    <2>3. CASE from = "slot"
      <3>1. ovenSlots' = ovenSlots - 1
        BY <1>2, <2>3 DEF Bit, HoldSlot
      <3>2. Cardinality(Awake("slot")') >= Cardinality(Awake("slot")) - 1
        BY AwakeMoves
      <3> QED
        BY <1>2, <2>1, <2>2, <3>1, <3>2
    <2>4. CASE from # "slot" /\ ovenSlots' > ovenSlots
      <3>1. Cardinality(Awake("slot")') >= Cardinality(Awake("slot")) + 1
        BY <2>1, <2>4, AwakeMoves
      <3>2. ovenSlots' <= ovenSlots + 1
        BY <1>2
      <3> QED
        BY <1>2, <2>1, <2>2, <3>1, <3>2
    <2>5. CASE from # "slot" /\ ~(ovenSlots' > ovenSlots)
      <3>1. Cardinality(Awake("slot")') >= Cardinality(Awake("slot"))
        BY <2>5, AwakeMoves
      <3> QED
        BY <1>2, <2>1, <2>2, <2>5, <3>1
    <2> QED
      BY <2>3, <2>4, <2>5
  <1>11. ASSUME Dozing("peel")' # {} PROVE ovenPeels' <= Cardinality(Awake("peel")')
    <2>1. Dozing("peel") # {} /\ ovenPeels <= Cardinality(Awake("peel"))
      BY <1>1, <1>11, AwakeMoves
    <2>2. Cardinality(Awake("peel")) \in Nat /\ Cardinality(Awake("peel")') \in Nat
      BY ChefSets, AwakeMoves
    <2>3. CASE from = "peel"
      <3>1. ovenPeels' = ovenPeels - 1
        BY <1>2, <2>3 DEF Bit, HoldPeel
      <3>2. Cardinality(Awake("peel")') >= Cardinality(Awake("peel")) - 1
        BY AwakeMoves
      <3> QED
        BY <1>2, <2>1, <2>2, <3>1, <3>2
    <2>4. CASE from # "peel" /\ ovenPeels' > ovenPeels
      <3>1. Cardinality(Awake("peel")') >= Cardinality(Awake("peel")) + 1
        BY <2>1, <2>4, AwakeMoves
      <3>2. ovenPeels' <= ovenPeels + 1
        BY <1>2
      <3> QED
        BY <1>2, <2>1, <2>2, <3>1, <3>2
    <2>5. CASE from # "peel" /\ ~(ovenPeels' > ovenPeels)
      <3>1. Cardinality(Awake("peel")') >= Cardinality(Awake("peel"))
        BY <2>5, AwakeMoves
      <3> QED
        BY <1>2, <2>1, <2>2, <2>5, <3>1
    <2> QED
      BY <2>3, <2>4, <2>5
  <1>12. KitchenExact'
    BY <1>6, <1>7, <1>8, <1>9, <1>10, <1>11
       DEF S, P, C, KitchenExact, HoldSlot, HoldPeel, Dozing, Awake
  <1> QED
    BY <1>6, <1>7, <1>8, <1>12

LEMMA Signalled ==
  ASSUME NEW S, Signal(S)
  PROVE  /\ asleep' \subseteq asleep
         /\ S \cap asleep = {} \/ \E t \in S \cap asleep : asleep' = asleep \ {t}
  BY DEF Signal

(* Who sleeps does so for want of what he needs.                           *)
LEMMA SleepKeepsKitchen ==
  ASSUME TypeOK, KitchenExact, NEW t, Sleep(t),
         t \in Chefs => \/ chef[t] = "order"
                        \/ chef[t] = "slot" /\ ovenSlots <= 0
                        \/ chef[t] = "peel" /\ ovenPeels <= 0
  PROVE  KitchenExact'
  <1>1. asleep' = asleep \cup {t} /\ chef' = chef
        /\ ovenSlots' = ovenSlots /\ ovenPeels' = ovenPeels /\ ovenCapacity' = ovenCapacity
    BY DEF Sleep, chefVars, oven
  <1>2. /\ ovenSlots = MAX_OVEN_SLOTS - Cardinality(Chefs_(HoldSlot))
        /\ ovenPeels = MAX_OVEN_PEELS - Cardinality(Chefs_(HoldPeel))
        /\ ovenCapacity = Cardinality(Chefs_({"cooking"}))
        /\ Dozing("oven") = {}
        /\ Dozing("slot") # {} => ovenSlots <= Cardinality(Awake("slot"))
        /\ Dozing("peel") # {} => ovenPeels <= Cardinality(Awake("peel"))
    BY DEF KitchenExact, HoldSlot, HoldPeel, Dozing, Awake
  <1>3. /\ Chefs_(HoldSlot)' = Chefs_(HoldSlot)
        /\ Chefs_(HoldPeel)' = Chefs_(HoldPeel)
        /\ Chefs_({"cooking"})' = Chefs_({"cooking"})
    BY <1>1 DEF Chefs_
  <1>4. Dozing("oven")' = {}
    BY <1>1, <1>2 DEF Dozing, Chefs_
  <1>5. ovenSlots \in Nat /\ ovenPeels \in Nat
    BY DEF TypeOK
  <1>6. ASSUME NEW s PROVE Cardinality(Awake(s)') \in Nat
    <2>1. Awake(s)' \subseteq Chefs
      BY DEF Awake, Chefs_
    <2> QED
      BY <2>1, NotMore, Parameters
  <1>7. ASSUME Dozing("slot")' # {} PROVE ovenSlots' <= Cardinality(Awake("slot")')
    <2>1. CASE t \in Chefs /\ chef[t] = "slot"
      <3>1. ovenSlots <= 0
        BY <2>1
      <3> QED
        BY <1>1, <1>5, <1>6, <3>1
    <2>2. CASE ~(t \in Chefs /\ chef[t] = "slot")
      <3>1. Dozing("slot")' = Dozing("slot") /\ Awake("slot")' = Awake("slot")
        BY <1>1, <2>2 DEF Dozing, Awake, Chefs_
      <3> QED
        BY <1>1, <1>2, <1>7, <3>1
    <2> QED
      BY <2>1, <2>2
  <1>8. ASSUME Dozing("peel")' # {} PROVE ovenPeels' <= Cardinality(Awake("peel")')
    <2>1. CASE t \in Chefs /\ chef[t] = "peel"
      <3>1. ovenPeels <= 0
        BY <2>1
      <3> QED
        BY <1>1, <1>5, <1>6, <3>1
    <2>2. CASE ~(t \in Chefs /\ chef[t] = "peel")
      <3>1. Dozing("peel")' = Dozing("peel") /\ Awake("peel")' = Awake("peel")
        BY <1>1, <2>2 DEF Dozing, Awake, Chefs_
      <3> QED
        BY <1>1, <1>2, <1>8, <3>1
    <2> QED
      BY <2>1, <2>2
  <1> QED
    BY <1>1, <1>2, <1>3, <1>4, <1>7, <1>8
       DEF KitchenExact, HoldSlot, HoldPeel, Dozing, Awake

(* Waking those who sleep on orderAvailable leaves the kitchen alone.      *)
LEMMA WakeAllKeepsKitchen ==
  ASSUME TypeOK, KitchenExact, UNCHANGED <<oven, chef>>, WakeAll
  PROVE  KitchenExact'
  <1>1. asleep' = {t \in asleep : t \in Chefs /\ chef[t] # "order"} /\ chef' = chef
        /\ ovenSlots' = ovenSlots /\ ovenPeels' = ovenPeels /\ ovenCapacity' = ovenCapacity
    BY DEF WakeAll, oven
  <1>2. /\ \A T : Chefs_(T)' = Chefs_(T)
        /\ \A T : "order" \notin T => asleep' \cap Chefs_(T)' = asleep \cap Chefs_(T)
        /\ \A T : "order" \notin T => Chefs_(T)' \ asleep' = Chefs_(T) \ asleep
    BY <1>1 DEF Chefs_
  <1> QED
    BY <1>1, <1>2 DEF KitchenExact

LEMMA ChefKeepsKitchen ==
  ASSUME TypeOK, KitchenExact, NEW c \in Chefs, ChefStep(c)
  PROVE  /\ KitchenExact' /\ ovenSlots' \in 0 .. MAX_OVEN_SLOTS
         /\ ovenPeels' \in 0 .. MAX_OVEN_PEELS /\ ovenCapacity' \in 0 .. MAX_OVEN_CAPACITY
  <1> DEFINE Goal == /\ KitchenExact' /\ ovenSlots' \in 0 .. MAX_OVEN_SLOTS
                     /\ ovenPeels' \in 0 .. MAX_OVEN_PEELS
                     /\ ovenCapacity' \in 0 .. MAX_OVEN_CAPACITY
  <1>1. c \notin asleep /\ c \notin Deliverers
    BY Parameters DEF ChefStep
  <1>2. /\ ovenSlots \in 0 .. MAX_OVEN_SLOTS /\ ovenPeels \in 0 .. MAX_OVEN_PEELS
        /\ ovenCapacity \in 0 .. MAX_OVEN_CAPACITY
    BY DEF TypeOK
  <1>3. ASSUME Sleep(c), \/ chef[c] = "order"
                         \/ chef[c] = "slot" /\ ovenSlots <= 0
                         \/ chef[c] = "peel" /\ ovenPeels <= 0
        PROVE  Goal
    <2>1. KitchenExact'
      BY <1>3, SleepKeepsKitchen
    <2> QED
      BY <1>2, <1>3, <2>1 DEF Sleep, oven
  <1>4. ASSUME TakeOrder(c) PROVE Goal
    <2>1. CASE numOrders = 0 /\ Sleep(c)
      BY <1>3, <1>4, <2>1 DEF TakeOrder
    <2>2. CASE ChefGoes(c, "order", "slot") /\ UNCHANGED <<oven, asleep>>
      <3>1. KitchenExact'
        BY <1>1, <1>2, <2>2, Moved, Parameters DEF oven, Bit, HoldSlot, HoldPeel
      <3> QED
        BY <1>2, <2>2, <3>1 DEF oven
    <2>3. CASE Look(c, Offered)
      <3>1. UNCHANGED <<chef, asleep, ovenSlots, ovenPeels, ovenCapacity>>
        BY <2>3 DEF Look, oven, chefVars
      <3> QED
        BY <1>2, <3>1 DEF KitchenExact, Chefs_
    <2> QED
      BY <1>4, <2>1, <2>2, <2>3 DEF TakeOrder
  <1>5. ASSUME TakeSlot(c) PROVE Goal
    <2>1. CASE ovenSlots <= 0 /\ Sleep(c)
      BY <1>3, <1>5, <2>1 DEF TakeSlot
    <2>2. CASE /\ ovenSlots > 0 /\ ovenSlots' = ovenSlots - 1
               /\ ChefGoes(c, "slot", "peel") /\ UNCHANGED <<ovenPeels, ovenCapacity, asleep>>
      <3>1. KitchenExact'
        BY <1>1, <1>2, <2>2, Moved, Parameters DEF Bit, HoldSlot, HoldPeel
      <3> QED
        BY <1>2, <2>2, <3>1, Parameters
    <2> QED
      BY <1>5, <2>1, <2>2 DEF TakeSlot
  <1>6. ASSUME TakePeel(c) PROVE Goal
    <2>1. CASE ovenPeels <= 0 /\ Sleep(c)
      BY <1>3, <1>6, <2>1 DEF TakePeel
    <2>2. CASE /\ ovenPeels > 0 /\ ovenPeels' = ovenPeels - 1
               /\ ChefGoes(c, "peel", "oven") /\ UNCHANGED <<ovenSlots, ovenCapacity, asleep>>
      <3>1. KitchenExact'
        BY <1>1, <1>2, <2>2, Moved, Parameters DEF Bit, HoldSlot, HoldPeel
      <3> QED
        BY <1>2, <2>2, <3>1, Parameters
    <2> QED
      BY <1>6, <2>1, <2>2 DEF TakePeel
  <1>7. ASSUME PlaceInOven(c) PROVE Goal
    <2>1. /\ ovenCapacity < MAX_OVEN_CAPACITY /\ ovenCapacity' = ovenCapacity + 1
          /\ ChefGoes(c, "oven", "cooking") /\ UNCHANGED <<ovenSlots, ovenPeels, asleep>>
      BY <1>2, <1>7, PlaceLeft, Parameters DEF PlaceInOven
    <2>2. KitchenExact'
      BY <1>1, <1>2, <2>1, Moved, Parameters DEF Bit, HoldSlot, HoldPeel
    <2> QED
      BY <1>2, <2>1, <2>2, Parameters
  <1>8. ASSUME TakeOut(c) PROVE Goal
    <2>1. /\ ovenCapacity' = ovenCapacity - 1 /\ ChefGoes(c, "cooking", "free_slot")
          /\ UNCHANGED <<ovenSlots, ovenPeels>> /\ asleep' \subseteq asleep
      BY <1>8, Signalled DEF TakeOut
    <2>2. KitchenExact' /\ ovenCapacity' >= 0
      BY <1>1, <1>2, <2>1, Moved, Parameters DEF Bit, HoldSlot, HoldPeel
    <2> QED
      BY <1>2, <2>1, <2>2, Parameters
  <1>9. ASSUME FreeSlot(c) PROVE Goal
    <2>1. /\ ovenSlots' = ovenSlots + 1 /\ ChefGoes(c, "free_slot", "free_peel")
          /\ UNCHANGED <<ovenPeels, ovenCapacity>> /\ asleep' \subseteq asleep
      BY <1>9, Signalled DEF FreeSlot
    <2>2. ChefsAt("slot") \cap asleep = Dozing("slot")
      BY DEF ChefsAt, Dozing, Chefs_
    <2>3. Dozing("slot") = {} \/ \E t \in Dozing("slot") : asleep' = asleep \ {t}
      BY <1>9, <2>2, Signalled DEF FreeSlot
    <2>4. KitchenExact' /\ ovenSlots' <= MAX_OVEN_SLOTS
      BY <1>1, <1>2, <2>1, <2>3, Moved, Parameters DEF Bit, HoldSlot, HoldPeel
    <2> QED
      BY <1>2, <2>1, <2>4, Parameters
  <1>10. ASSUME FreePeel(c) PROVE Goal
    <2>1. /\ ovenPeels' = ovenPeels + 1 /\ ChefGoes(c, "free_peel", "ready")
          /\ UNCHANGED <<ovenSlots, ovenCapacity>> /\ asleep' \subseteq asleep
      BY <1>10, Signalled DEF FreePeel
    <2>2. ChefsAt("peel") \cap asleep = Dozing("peel")
      BY DEF ChefsAt, Dozing, Chefs_
    <2>3. Dozing("peel") = {} \/ \E t \in Dozing("peel") : asleep' = asleep \ {t}
      BY <1>10, <2>2, Signalled DEF FreePeel
    <2>4. KitchenExact' /\ ovenPeels' <= MAX_OVEN_PEELS
      BY <1>1, <1>2, <2>1, <2>3, Moved, Parameters DEF Bit, HoldSlot, HoldPeel
    <2> QED
      BY <1>2, <2>1, <2>4, Parameters
  <1>11. ASSUME Ready(c) PROVE Goal
    <2>1. /\ ChefGoes(c, "ready", "log") /\ UNCHANGED oven /\ asleep' \subseteq asleep
      BY <1>11, Signalled DEF Ready
    <2>2. KitchenExact'
      BY <1>1, <1>2, <2>1, Moved, Parameters DEF oven, Bit, HoldSlot, HoldPeel
    <2> QED
      BY <1>2, <2>1, <2>2 DEF oven
  <1>12. ASSUME LogReady(c) PROVE Goal
    <2>1. /\ ChefGoes(c, "log", "order") /\ UNCHANGED oven /\ asleep' = asleep
      BY <1>12 DEF LogReady
    <2>2. KitchenExact'
      BY <1>1, <1>2, <2>1, Moved, Parameters DEF oven, Bit, HoldSlot, HoldPeel
    <2> QED
      BY <1>2, <2>1, <2>2 DEF oven
  <1> QED
    BY <1>4, <1>5, <1>6, <1>7, <1>8, <1>9, <1>10, <1>11, <1>12 DEF ChefStep

-----------------------------------------------------------------------------
(* The type invariant in parts that a step changes or leaves alone.        *)
MainType ==
  /\ main \in {"listen", "count", "alloc", "orders", "install", "exited"}
  /\ received \in Connections \cup {NULL}
  /\ main = "install" => received \in Connections
  /\ new_max_order \in -1 .. MaxOrders /\ max_order \in -1 .. MaxOrders
  /\ allOrders \in Nat
BacklogType == backlog \in Seq(Connections)
OrderType ==
  /\ ordersArray \in [Indices -> Entries]
  /\ numOrders \in Int /\ deliveredOrders \in Nat
  /\ ordersMutex \in Chefs \cup Deliverers \cup {NULL}
ChefType == chef \in [Chefs -> ChefSteps] /\ orderIndex \in [Chefs -> Indices]
OvenType ==
  /\ ovenSlots \in 0 .. MAX_OVEN_SLOTS /\ ovenPeels \in 0 .. MAX_OVEN_PEELS
  /\ ovenCapacity \in 0 .. MAX_OVEN_CAPACITY
DelivererType ==
  /\ deliverer \in [Deliverers -> {"collect", "deliver"}]
  /\ bag \in [Deliverers -> Seq(Nat)]
  /\ \A d \in Deliverers : deliverer[d] = "collect" <=> bag[d] = <<>>
SleepType == asleep \subseteq Chefs \cup Deliverers
ClientSteps == {"start", "counted", "ordered", "waiting", "failed", "cancelled",
                "told", "served"}
ClientType ==
  /\ client \in [Clients -> ClientSteps] /\ customerCount \in [Clients -> 1 .. MaxOrders]
Troubles == {"overlap", "cancelled", "unheard", "short", "astray", "stale"}
TroubleType == trouble \subseteq Troubles

LEMMA TypeParts ==
  TypeOK <=> /\ MainType /\ BacklogType /\ OrderType /\ ChefType /\ OvenType
             /\ DelivererType /\ SleepType /\ ClientType /\ TroubleType
  BY DEF TypeOK, MainType, BacklogType, OrderType, ChefType, OvenType,
         DelivererType, SleepType, ClientType, TroubleType, Troubles, ChefSteps, ClientSteps

LEMMA TypePartsNext ==
  ASSUME MainType', BacklogType', OrderType', ChefType', OvenType', DelivererType',
         SleepType', ClientType', TroubleType'
  PROVE  TypeOK'
  BY DEF TypeOK, MainType, BacklogType, OrderType, ChefType, OvenType,
         DelivererType, SleepType, ClientType, TroubleType, Troubles, ChefSteps, ClientSteps

LEMMA EntryFacts ==
  /\ Zeroed \in Entries /\ Zeroed.id = 0 /\ Zeroed.status = 0 /\ Zeroed.offered = FALSE
  /\ \A r \in Entries : \A s \in 0 .. 4 :
        /\ [r EXCEPT !.status = s] \in Entries
        /\ [r EXCEPT !.status = s].status = s
        /\ [r EXCEPT !.status = s].id = r.id
        /\ [r EXCEPT !.status = s].offered = r.offered
  /\ \A r \in Entries : [r EXCEPT !.offered = TRUE] \in Entries
  /\ Junk \subseteq Entries
  <1>1. 0 \in Nat /\ 0 \in 0 .. 4 /\ 3 \in 0 .. 4
    OBVIOUS
  <1>2. Zeroed \in Entries /\ Zeroed.id = 0 /\ Zeroed.status = 0 /\ Zeroed.offered = FALSE
    BY <1>1 DEF Entries, Zeroed
  <1>3. ASSUME NEW r \in Entries, NEW s \in 0 .. 4
        PROVE  /\ [r EXCEPT !.status = s] \in Entries
               /\ [r EXCEPT !.status = s].status = s
               /\ [r EXCEPT !.status = s].id = r.id
               /\ [r EXCEPT !.status = s].offered = r.offered
    BY DEF Entries
  <1>4. ASSUME NEW r \in Entries PROVE [r EXCEPT !.offered = TRUE] \in Entries
    BY DEF Entries
  <1> QED
    BY <1>1, <1>2, <1>3, <1>4 DEF Junk

LEMMA ConnectionFacts ==
  /\ \A c \in Clients : /\ [kind |-> "count", from |-> c] \in Connections
                        /\ [kind |-> "orders", from |-> c] \in Connections
                        /\ OrdersOf(c) = [kind |-> "orders", from |-> c]
  /\ [kind |-> "notice", from |-> NULL] \in Connections
  /\ \A r \in Connections : r.kind # "notice" => r.from \in Clients
  BY DEF Connections, OrdersOf

LEMMA OfferedFacts ==
  ASSUME Offered # {}
  PROVE  First(Offered) \in Offered /\ First(Offered) \in Used /\ First(Offered) \in Indices
  <1>1. Offered \subseteq Used /\ Used \subseteq Indices /\ Indices \subseteq Nat
    BY Parameters DEF Offered
  <1>2. First(Offered) \in Offered
    BY <1>1, LeastOf
  <1> QED
    BY <1>1, <1>2

LEMMA BagfulFacts ==
  /\ Baked \subseteq Used /\ Bagful \subseteq Baked /\ Bagful \subseteq Nat
  /\ Bagful \subseteq Indices
  /\ IsFiniteSet(Bagful) /\ Cardinality(Bagful) \in Nat
  <1>1. Baked \subseteq Used /\ Bagful \subseteq Baked
    BY DEF Baked, Bagful
  <1>2. Used \subseteq Indices /\ Indices \subseteq Nat /\ IsFiniteSet(Used)
    BY Parameters
  <1>3. Bagful \subseteq Used
    BY <1>1
  <1> QED
    BY <1>1, <1>2, <1>3, NotMore

LEMMA ConnectTypes ==
  ASSUME TypeOK, NEW c \in Clients, NEW kind \in {"count", "orders"},
         NEW to \in ClientSteps, NEW harm \in SUBSET Troubles, Connect(c, kind, to, harm)
  PROVE  BacklogType' /\ ClientType' /\ TroubleType'
  <1>1. backlog \in Seq(Connections) /\ client \in [Clients -> ClientSteps]
        /\ customerCount' = customerCount /\ customerCount \in [Clients -> 1 .. MaxOrders]
    BY DEF TypeOK, ClientSteps, Connect
  <1>2. [kind |-> kind, from |-> c] \in Connections
    BY DEF Connections
  <1>3. "failed" \in ClientSteps /\ "told" \in ClientSteps
    BY DEF ClientSteps
  <1>4. TroubleType'
    <2>1. trouble' \in {trouble \cup harm, trouble \cup harm \cup {"astray"}}
      BY DEF Connect
    <2> QED
      BY <2>1, TypeParts DEF TroubleType, Troubles
  <1>5. CASE client' = [client EXCEPT ![c] = "failed"] /\ UNCHANGED backlog
    BY <1>1, <1>3, <1>4, <1>5 DEF BacklogType, ClientType
  <1>6. CASE /\ client' = [client EXCEPT ![c] = to]
             /\ backlog' = Append(backlog, [kind |-> kind, from |-> c])
    <2>1. backlog' \in Seq(Connections)
      BY <1>1, <1>2, <1>6
    <2>2. client' \in [Clients -> ClientSteps]
      BY <1>1, <1>6
    <2> QED
      BY <1>1, <1>4, <2>1, <2>2 DEF BacklogType, ClientType
  <1>7. CASE \E w \in AtServer \ {NULL} : /\ client' = [client EXCEPT ![c] = to, ![w] = "told"]
                                          /\ UNCHANGED backlog
    <2>1. client' \in [Clients -> ClientSteps]
      BY <1>1, <1>3, <1>7
    <2> QED
      BY <1>1, <1>4, <1>7, <2>1 DEF BacklogType, ClientType
  <1> QED
    BY <1>5, <1>6, <1>7 DEF Connect

LEMMA ClientTypes ==
  ASSUME TypeOK, KitchenExact, NEW c \in Clients, SendCount(c) \/ ClientStep(c) \/ Cancel(c)
  PROVE  TypeOK' /\ KitchenExact'
  <1>1. UNCHANGED <<mainVars, orderVars, oven, chefVars, delivererVars, asleep, customerCount>>
    BY DEF SendCount, ClientStep, SendOrders, wait_for_notification, Cancel, Connect
  <1>2. KitchenExact'
    BY <1>1 DEF KitchenExact, Chefs_, oven, chefVars
  <1>3. MainType' /\ OrderType' /\ ChefType' /\ OvenType' /\ DelivererType' /\ SleepType'
    BY <1>1, TypeParts DEF MainType, OrderType, ChefType, OvenType, DelivererType,
       SleepType, mainVars, orderVars, oven, chefVars, delivererVars
  <1>4. BacklogType' /\ ClientType' /\ TroubleType'
    <2>1. CASE SendCount(c)
      <3>1. PICK harm \in {{}, {"overlap"}} : Connect(c, "count", "counted", harm)
        BY <2>1 DEF SendCount
      <3>2. harm \in SUBSET Troubles /\ "counted" \in ClientSteps
        BY <3>1 DEF Troubles, ClientSteps
      <3> QED
        BY <3>1, <3>2, ConnectTypes
    <2>2. CASE SendOrders(c)
      <3>1. {} \in SUBSET Troubles /\ "ordered" \in ClientSteps
        BY DEF ClientSteps
      <3> QED
        BY <2>2, <3>1, ConnectTypes DEF SendOrders
    <2>3. CASE wait_for_notification(c) \/ Cancel(c)
      BY <2>3, TypeParts DEF wait_for_notification, Cancel, ClientGoes, BacklogType,
         ClientType, ClientSteps, TroubleType, Troubles
    <2> QED
      BY <2>1, <2>2, <2>3 DEF ClientStep
  <1> QED
    BY <1>2, <1>3, <1>4, TypePartsNext

LEMMA MainTypes ==
  ASSUME TypeOK, KitchenExact, Main
  PROVE  TypeOK' /\ KitchenExact'
  <1>1. /\ UNCHANGED <<oven, chefVars, delivererVars, clientVars>>
        /\ trouble' \in {trouble, trouble \cup {"short"}}
    BY DEF Main, Listen, AcceptCount, Reallocate, AcceptOrders, Install
  <1>2. MainType /\ BacklogType /\ OrderType /\ SleepType
    BY TypeParts
  <1>3. ChefType' /\ OvenType' /\ DelivererType' /\ ClientType' /\ TroubleType'
    BY <1>1, TypeParts DEF ChefType, OvenType, DelivererType, ClientType, TroubleType,
       Troubles, oven, chefVars, delivererVars, clientVars
  <1>4. CASE Listen
    <2>1. MainType' /\ BacklogType' /\ OrderType' /\ SleepType' /\ UNCHANGED asleep
      BY <1>2, <1>4 DEF Listen, MainType, BacklogType, OrderType, SleepType, orderVars
    <2> QED
      BY <1>1, <1>3, <2>1, TypePartsNext DEF KitchenExact, Chefs_, oven, chefVars
  <1>5. CASE AcceptCount
    <2>1. Head(backlog) \in Connections /\ Tail(backlog) \in Seq(Connections)
      BY <1>2, <1>5 DEF AcceptCount, BacklogType
    <2>2. Head(backlog).kind = "count"
            => customerCount[Head(backlog).from] \in -1 .. MaxOrders
      BY <2>1, ConnectionFacts, Parameters DEF TypeOK
    <2>3. MainType' /\ BacklogType' /\ OrderType' /\ SleepType' /\ UNCHANGED asleep
      BY <1>2, <1>5, <2>1, <2>2
         DEF AcceptCount, MainType, BacklogType, OrderType, SleepType, orderVars
    <2> QED
      BY <1>1, <1>3, <2>3, TypePartsNext DEF KitchenExact, Chefs_, oven, chefVars
  <1>6. CASE Reallocate
    <2>1. Junk \subseteq Entries
      BY EntryFacts
    <2>2. ordersArray' \in [Indices -> Entries]
      BY <1>6, <2>1 DEF Reallocate
    <2>3. MainType' /\ BacklogType' /\ OrderType' /\ SleepType' /\ UNCHANGED asleep
      BY <1>2, <1>6, <2>2 DEF Reallocate, MainType, BacklogType, OrderType, SleepType
    <2> QED
      BY <1>1, <1>3, <2>3, TypePartsNext DEF KitchenExact, Chefs_, oven, chefVars
  <1>7. CASE AcceptOrders
    <2>1. Head(backlog) \in Connections /\ <<>> \in Seq(Connections)
      BY <1>2, <1>7 DEF AcceptOrders, BacklogType
    <2>2. MainType' /\ BacklogType' /\ OrderType' /\ SleepType' /\ UNCHANGED asleep
      BY <1>2, <1>7, <2>1
         DEF AcceptOrders, MainType, BacklogType, OrderType, SleepType, orderVars
    <2> QED
      BY <1>1, <1>3, <2>2, TypePartsNext DEF KitchenExact, Chefs_, oven, chefVars
  <1>8. CASE Install
    <2>1. PICK C \in Came, offered \in BOOLEAN, S \in SUBSET Used :
             /\ ordersArray' = [i \in Indices |-> IF i \in S
                                  THEN [id |-> allOrders + Rank(i, S), status |-> 0,
                                        offered |-> i \in C \/ offered]
                                  ELSE ordersArray[i]]
             /\ allOrders' = allOrders + Cardinality(S)
             /\ numOrders' = numOrders + Cardinality(S)
      BY <1>8 DEF Install
    <2>2. S \subseteq Nat /\ IsFiniteSet(S) /\ S \subseteq Indices
      BY Parameters, NotMore
    <2>3. Cardinality(S) \in Nat /\ \A i \in Nat : Rank(i, S) \in Nat
      BY <2>2, RankFacts
    <2>4. allOrders \in Nat /\ ordersArray \in [Indices -> Entries] /\ numOrders \in Int
      BY <1>2 DEF MainType, OrderType
    <2>5. ASSUME NEW i \in S PROVE allOrders + Rank(i, S) \in Nat
      BY <2>2, <2>3, <2>4
    <2>6. ASSUME NEW i \in S, NEW o \in BOOLEAN
          PROVE  [id |-> allOrders + Rank(i, S), status |-> 0, offered |-> o] \in Entries
      BY <2>5 DEF Entries
    <2>7. ordersArray' \in [Indices -> Entries]
      BY <2>1, <2>4, <2>6
    <2>8. allOrders' \in Nat /\ numOrders' \in Int
      BY <2>1, <2>3, <2>4
    <2>9. KitchenExact' /\ SleepType'
      BY <1>2, <1>8, WakeAllKeepsKitchen DEF Install, WakeAll, SleepType, chefVars
    <2>10. MainType' /\ BacklogType' /\ OrderType'
      BY <1>2, <1>8, <2>7, <2>8 DEF Install, MainType, BacklogType, OrderType
    <2> QED
      BY <1>3, <2>9, <2>10, TypePartsNext
  <1> QED
    BY <1>4, <1>5, <1>6, <1>7, <1>8 DEF Main

(* What a chef's writes do to the array.                                   *)
LEMMA StatusSet ==
  ASSUME ordersArray \in [Indices -> Entries], NEW i \in Indices, NEW s \in 0 .. 4,
         SetStatus(i, s)
  PROVE  /\ ordersArray' \in [Indices -> Entries]
         /\ \A j \in Indices :
              /\ j # i => ordersArray'[j] = ordersArray[j]
              /\ ordersArray'[j].id = ordersArray[j].id
              /\ ordersArray'[j].offered = ordersArray[j].offered
         /\ ordersArray'[i].status = s
  <1>1. /\ DOMAIN ordersArray' = Indices
        /\ ordersArray' = [j \in Indices |-> IF j = i THEN [ordersArray[i] EXCEPT !.status = s]
                                                     ELSE ordersArray[j]]
    BY DEF SetStatus
  <1>2. ordersArray[i] \in Entries
    OBVIOUS
  <1>3. /\ [ordersArray[i] EXCEPT !.status = s] \in Entries
        /\ [ordersArray[i] EXCEPT !.status = s].status = s
        /\ [ordersArray[i] EXCEPT !.status = s].id = ordersArray[i].id
        /\ [ordersArray[i] EXCEPT !.status = s].offered = ordersArray[i].offered
    BY <1>2, EntryFacts
  <1> DEFINE e == [ordersArray[i] EXCEPT !.status = s]
  <1>4. \A j \in Indices : ordersArray'[j] = IF j = i THEN e ELSE ordersArray[j]
    BY <1>1
  <1>5. ordersArray' \in [Indices -> Entries]
    BY <1>1, <1>3
  <1> HIDE DEF e
  <1>6. ordersArray'[i].status = s
    BY <1>3, <1>4 DEF e
  <1>7. \A j \in Indices :
              /\ j # i => ordersArray'[j] = ordersArray[j]
              /\ ordersArray'[j].id = ordersArray[j].id
              /\ ordersArray'[j].offered = ordersArray[j].offered
    BY <1>3, <1>4 DEF e
  <1> QED
    BY <1>5, <1>6, <1>7

LEMMA OrderTaken ==
  ASSUME ordersArray \in [Indices -> Entries], NEW i \in Indices,
         ordersArray' = [ordersArray EXCEPT ![i].status = 1, ![i].offered = FALSE]
  PROVE  /\ ordersArray' \in [Indices -> Entries]
         /\ \A j \in Indices :
              /\ j # i => ordersArray'[j] = ordersArray[j]
              /\ ordersArray'[j].id = ordersArray[j].id
         /\ ordersArray'[i].status = 1 /\ ordersArray'[i].offered = FALSE
  <1> DEFINE r == ordersArray[i]
             e == [id |-> r.id, status |-> 1, offered |-> FALSE]
  <1>1. r \in Entries /\ r.id \in Nat
    BY DEF Entries
  <1>2. /\ e \in Entries /\ e.id = r.id /\ e.status = 1 /\ e.offered = FALSE
    BY <1>1 DEF Entries
  <1>3. ordersArray'[i] = e /\ \A j \in Indices : j # i => ordersArray'[j] = ordersArray[j]
    BY <1>1 DEF Entries
  <1>4. ordersArray' \in [Indices -> Entries]
    <2>1. /\ DOMAIN ordersArray' = Indices
          /\ ordersArray' = [j \in Indices |-> ordersArray'[j]]
      OBVIOUS
    <2>2. \A j \in Indices : ordersArray'[j] \in Entries
      BY <1>2, <1>3
    <2> QED
      BY <2>1, <2>2
  <1> HIDE DEF e, r
  <1> QED
    BY <1>2, <1>3, <1>4 DEF r

LEMMA ChefTypes ==
  ASSUME TypeOK, KitchenExact, NEW c \in Chefs, ChefStep(c)
  PROVE  TypeOK' /\ KitchenExact'
  <1>1. /\ UNCHANGED <<backlog, delivererVars, clientVars>>
        /\ UNCHANGED <<new_max_order, max_order, allOrders, received>>
        /\ \/ UNCHANGED <<main, trouble>>
           \/ main' = "exited" /\ trouble' = trouble \cup {"stale"}
    BY DEF ChefStep, TakeOrder, TakeSlot, TakePeel, PlaceInOven, TakeOut, FreeSlot,
           FreePeel, Ready, LogReady, Sleep, Look, mainVars
  <1>2. MainType' /\ BacklogType' /\ DelivererType' /\ ClientType' /\ TroubleType'
    BY <1>1, TypeParts DEF MainType, BacklogType, DelivererType, ClientType, TroubleType,
       Troubles, delivererVars, clientVars
  <1>3. KitchenExact' /\ OvenType'
    BY ChefKeepsKitchen DEF OvenType
  <1>4. OrderType /\ ChefType /\ SleepType /\ 0 \in Indices
    BY TypeParts, Parameters
  <1>5. orderIndex[c] \in Indices
    BY <1>4 DEF ChefType
  <1>6. ChefType'
    <2>1. ASSUME NEW from, NEW to \in ChefSteps, ChefGoes(c, from, to),
                 \/ UNCHANGED orderIndex
                 \/ \E i \in Indices : orderIndex' = [orderIndex EXCEPT ![c] = i]
          PROVE  ChefType'
      BY <1>4, <2>1 DEF ChefType, ChefGoes
    <2>2. CASE TakeOrder(c) /\ ~Sleep(c) /\ ~Look(c, Offered)
      BY <2>1, <2>2, OfferedFacts DEF TakeOrder, ChefSteps
    <2>3. CASE LogReady(c)
      BY <1>4, <2>1, <2>3 DEF LogReady, ChefSteps
    <2>4. CASE Sleep(c) \/ Look(c, Offered)
      BY <1>4, <2>4 DEF Sleep, Look, chefVars, ChefType
    <2> QED
      BY <2>1, <2>2, <2>3, <2>4
         DEF ChefStep, TakeSlot, TakePeel, PlaceInOven, TakeOut, FreeSlot, FreePeel, Ready,
             ChefSteps
  <1>7. SleepType'
    <2>1. \A S : Signal(S) => asleep' \subseteq asleep
      BY Signalled
    <2>2. Sleep(c) => asleep' = asleep \cup {c}
      BY DEF Sleep
    <2>3. Sleep(c) \/ asleep' \subseteq asleep
      BY <2>1 DEF ChefStep, TakeOrder, TakeSlot, TakePeel, PlaceInOven, TakeOut, FreeSlot,
           FreePeel, Ready, LogReady, Look
    <2> QED
      BY <1>4, <2>2, <2>3 DEF SleepType
  <1>8. OrderType'
    <2>1. CASE TakeOrder(c) /\ ~Sleep(c) /\ ~Look(c, Offered)
      <3>1. ordersArray' \in [Indices -> Entries]
        BY <1>4, <2>1, OfferedFacts, OrderTaken DEF TakeOrder, OrderType
      <3> QED
        BY <1>4, <2>1, <3>1 DEF TakeOrder, OrderType
    <2>2. CASE PlaceInOven(c) /\ ~Sleep(c)
      <3>1. ordersArray' \in [Indices -> Entries]
        BY <1>4, <1>5, <2>2, StatusSet DEF PlaceInOven, OrderType
      <3> QED
        BY <1>4, <2>2, <3>1 DEF PlaceInOven, OrderType
    <2>3. CASE Ready(c)
      <3>1. ordersArray' \in [Indices -> Entries]
        BY <1>4, <1>5, <2>3, StatusSet DEF Ready, OrderType
      <3> QED
        BY <1>4, <2>3, <3>1 DEF Ready, OrderType
    <2>4. CASE UNCHANGED orderVars
      BY <1>4, <2>4 DEF orderVars, OrderType
    <2>5. CASE Look(c, Offered)
      BY <1>4, <2>5 DEF Look, OrderType
    <2>6. UNCHANGED orderVars \/ (TakeOrder(c) /\ ~Sleep(c) /\ ~Look(c, Offered))
            \/ (PlaceInOven(c) /\ ~Sleep(c)) \/ Ready(c) \/ Look(c, Offered)
      BY DEF ChefStep, TakeOrder, TakeSlot, TakePeel, PlaceInOven, TakeOut, FreeSlot,
           FreePeel, Ready, LogReady, Sleep
    <2> QED
      BY <2>1, <2>2, <2>3, <2>4, <2>5, <2>6
  <1> QED
    BY <1>2, <1>3, <1>6, <1>7, <1>8, TypePartsNext

LEMMA TailFacts ==
  ASSUME NEW s \in Seq(Nat), s # <<>>
  PROVE  /\ Tail(s) \in Seq(Nat) /\ Head(s) \in Nat /\ Head(s) = s[1]
         /\ Len(s) \in Nat /\ Len(s) >= 1 /\ Len(Tail(s)) = Len(s) - 1
         /\ Tail(s) = <<>> <=> Len(s) = 1
         /\ \A n \in 1 .. Len(s) - 1 : Tail(s)[n] = s[n + 1]
  <1>1. Len(s) \in Nat /\ Len(s) >= 1 /\ Head(s) = s[1] /\ Head(s) \in Nat
    OBVIOUS
  <1>2. Tail(s) \in Seq(Nat) /\ Len(Tail(s)) = Len(s) - 1
    OBVIOUS
  <1>3. \A n \in 1 .. Len(s) - 1 : Tail(s)[n] = s[n + 1]
    OBVIOUS
  <1>4. \A t \in Seq(Nat) : t = <<>> <=> Len(t) = 0
    OBVIOUS
  <1>5. Tail(s) = <<>> <=> Len(s) = 1
    <2>1. Tail(s) = <<>> <=> Len(Tail(s)) = 0
      BY <1>2, <1>4
    <2> QED
      BY <1>1, <1>2, <2>1
  <1> QED
    BY <1>1, <1>2, <1>3, <1>5

(* What a deliverer does to the array and to its bag.                      *)
LEMMA Collected ==
  ASSUME TypeOK, NEW d \in Deliverers, Collect(d), ~Sleep(d), ~Look(d, Bagful)
  PROVE  /\ Bagful # {} /\ Bagful \subseteq Used
         /\ ordersArray' \in [Indices -> Entries]
         /\ \A i \in Indices : /\ ordersArray'[i].id = ordersArray[i].id
                               /\ ordersArray'[i].offered = ordersArray[i].offered
                               /\ i \notin Bagful => ordersArray'[i] = ordersArray[i]
                               /\ i \in Bagful => ordersArray'[i].status = 4
         /\ bag' \in [Deliverers -> Seq(Nat)] /\ bag'[d] # <<>>
         /\ \A e \in Deliverers : e # d => bag'[e] = bag[e]
         /\ DOMAIN bag'[d] = 1 .. Cardinality(Bagful)
         /\ \A n \in 1 .. Cardinality(Bagful) : bag'[d][n] = ordersArray[Nth(Bagful, n)].id
         /\ deliverer' \in [Deliverers -> {"collect", "deliver"}]
         /\ deliverer'[d] = "deliver"
         /\ \A e \in Deliverers : e # d => deliverer'[e] = deliverer[e]
  <1> DEFINE k == Cardinality(Bagful)
             b == [n \in 1 .. k |-> ordersArray[Nth(Bagful, n)].id]
  <1>1. /\ Bagful # {}
        /\ ordersArray' = [i \in Indices |->
               IF i \in Bagful THEN [ordersArray[i] EXCEPT !.status = 4] ELSE ordersArray[i]]
        /\ bag' = [bag EXCEPT ![d] = b]
        /\ deliverer' = [deliverer EXCEPT ![d] = "deliver"]
    BY DEF Collect
  <1>2. /\ ordersArray \in [Indices -> Entries] /\ bag \in [Deliverers -> Seq(Nat)]
        /\ deliverer \in [Deliverers -> {"collect", "deliver"}]
    BY DEF TypeOK
  <1>3. ASSUME NEW i \in Indices
        PROVE  /\ ordersArray'[i] \in Entries
               /\ ordersArray'[i].id = ordersArray[i].id
               /\ ordersArray'[i].offered = ordersArray[i].offered
               /\ i \notin Bagful => ordersArray'[i] = ordersArray[i]
               /\ i \in Bagful => ordersArray'[i].status = 4
    <2>1. ordersArray[i] \in Entries
      BY <1>2
    <2>2. CASE i \in Bagful
      <3>1. ordersArray'[i] = [ordersArray[i] EXCEPT !.status = 4]
        BY <1>1, <2>2
      <3>2. 4 \in 0 .. 4
        OBVIOUS
      <3> QED
        BY <2>1, <2>2, <3>1, <3>2, EntryFacts
    <2>3. CASE i \notin Bagful
      BY <1>1, <2>1, <2>3
    <2> QED
      BY <2>2, <2>3
  <1>4. ordersArray' \in [Indices -> Entries]
    BY <1>1, <1>3
  <1>5. k \in Nat /\ k > 0
    BY <1>1, BagfulFacts, FS_EmptySet
  <1>6. \A n \in 1 .. k : ordersArray[Nth(Bagful, n)].id \in Nat
    <2>1. \A n \in 1 .. k : Nth(Bagful, n) \in Indices
      BY BagfulFacts, NthFacts
    <2>2. \A i \in Indices : ordersArray[i].id \in Nat
      BY <1>2 DEF Entries
    <2> QED
      BY <2>1, <2>2
  <1>7. Bagful \subseteq Used
    BY BagfulFacts
  <1> HIDE DEF k
  <1>8. b \in [1 .. k -> Nat]
    BY <1>6
  <1>9. b \in Seq(Nat) /\ Len(b) = k /\ b # <<>>
    BY <1>5, <1>8
  <1>10. DOMAIN b = 1 .. k /\ \A n \in 1 .. k : b[n] = ordersArray[Nth(Bagful, n)].id
    OBVIOUS
  <1> HIDE DEF b
  <1>11. /\ bag' \in [Deliverers -> Seq(Nat)] /\ bag'[d] = b
         /\ \A e \in Deliverers : e # d => bag'[e] = bag[e]
    BY <1>1, <1>2, <1>9
  <1>12. /\ deliverer' \in [Deliverers -> {"collect", "deliver"}]
         /\ deliverer'[d] = "deliver"
         /\ \A e \in Deliverers : e # d => deliverer'[e] = deliverer[e]
    BY <1>1, <1>2
  <1>13. bag'[d] # <<>>
    BY <1>9, <1>11
  <1>14. DOMAIN bag'[d] = 1 .. k /\ \A n \in 1 .. k : bag'[d][n] = ordersArray[Nth(Bagful, n)].id
    BY <1>10, <1>11
  <1> QED
    BY <1>1, <1>3, <1>4, <1>7, <1>11, <1>12, <1>13, <1>14 DEF k

LEMMA HandedOver ==
  ASSUME TypeOK, NEW d \in Deliverers, HandOver(d)
  PROVE  /\ bag[d] # <<>> /\ bag[d] \in Seq(Nat) /\ Head(bag[d]) \in Nat
         /\ ordersArray' \in [Indices -> Entries]
         /\ \A i \in Indices : ordersArray'[i] =
              IF i \in Used /\ ordersArray[i].id = Head(bag[d]) THEN Zeroed ELSE ordersArray[i]
         /\ bag' \in [Deliverers -> Seq(Nat)] /\ bag'[d] = Tail(bag[d])
         /\ \A e \in Deliverers : e # d => bag'[e] = bag[e]
         /\ deliverer' \in [Deliverers -> {"collect", "deliver"}]
         /\ deliverer'[d] = "collect" <=> bag'[d] = <<>>
         /\ \A e \in Deliverers : e # d => deliverer'[e] = deliverer[e]
  <1>1. /\ ordersArray \in [Indices -> Entries] /\ bag \in [Deliverers -> Seq(Nat)]
        /\ deliverer \in [Deliverers -> {"collect", "deliver"}]
        /\ \A e \in Deliverers : deliverer[e] = "collect" <=> bag[e] = <<>>
    BY DEF TypeOK
  <1>2. /\ deliverer[d] = "deliver"
        /\ deliverer' = [deliverer EXCEPT ![d] = IF Len(bag[d]) = 1 THEN "collect" ELSE "deliver"]
        /\ bag' = [bag EXCEPT ![d] = Tail(@)]
        /\ ordersArray' = [i \in Indices |->
             IF i \in Used /\ ordersArray[i].id = Head(bag[d]) THEN Zeroed ELSE ordersArray[i]]
    BY DEF HandOver
  <1>3. bag[d] # <<>> /\ bag[d] \in Seq(Nat)
    BY <1>1, <1>2
  <1>4. /\ Tail(bag[d]) \in Seq(Nat) /\ Head(bag[d]) \in Nat
        /\ Tail(bag[d]) = <<>> <=> Len(bag[d]) = 1
    BY <1>3, TailFacts
  <1>5. /\ bag' \in [Deliverers -> Seq(Nat)] /\ bag'[d] = Tail(bag[d])
        /\ \A e \in Deliverers : e # d => bag'[e] = bag[e]
    BY <1>1, <1>2, <1>4
  <1>6. /\ deliverer' \in [Deliverers -> {"collect", "deliver"}]
        /\ deliverer'[d] = IF Len(bag[d]) = 1 THEN "collect" ELSE "deliver"
        /\ \A e \in Deliverers : e # d => deliverer'[e] = deliverer[e]
    BY <1>1, <1>2
  <1>7. ordersArray' \in [Indices -> Entries]
    BY <1>1, <1>2, EntryFacts
  <1>8. \A i \in Indices : ordersArray'[i] =
          IF i \in Used /\ ordersArray[i].id = Head(bag[d]) THEN Zeroed ELSE ordersArray[i]
    BY <1>2
  <1> QED
    BY <1>3, <1>4, <1>5, <1>6, <1>7, <1>8

LEMMA DelivererTypes ==
  ASSUME TypeOK, KitchenExact, NEW d \in Deliverers, DelivererStep(d)
  PROVE  TypeOK' /\ KitchenExact'
  <1>1. UNCHANGED <<oven, chefVars, customerCount, received, new_max_order, max_order, allOrders>>
    BY DEF DelivererStep, Collect, HandOver, Sleep, Look, mainVars, clientVars
  <1>2. /\ MainType /\ BacklogType /\ OrderType /\ DelivererType /\ SleepType /\ ClientType
        /\ TroubleType
    BY TypeParts
  <1>3. ChefType' /\ OvenType'
    BY <1>1, TypeParts DEF ChefType, OvenType, oven, chefVars
  <1>4. CASE Sleep(d)
    <2>1. d \notin Chefs
      BY Parameters
    <2>2. KitchenExact'
      BY <1>4, <2>1, SleepKeepsKitchen
    <2>3. MainType' /\ BacklogType' /\ OrderType' /\ DelivererType' /\ ClientType'
          /\ TroubleType' /\ SleepType'
      BY <1>2, <1>4 DEF Sleep, MainType, BacklogType, OrderType, DelivererType, ClientType,
         TroubleType, SleepType, mainVars, orderVars, delivererVars, clientVars
    <2> QED
      BY <1>3, <2>2, <2>3, TypePartsNext
  <1>5. ASSUME UNCHANGED asleep PROVE KitchenExact' /\ SleepType'
    BY <1>1, <1>2, <1>5 DEF KitchenExact, Chefs_, oven, chefVars, SleepType
  <1>6. CASE Collect(d) /\ ~Sleep(d) /\ ~Look(d, Bagful)
    <2>1. UNCHANGED <<mainVars, backlog, numOrders, deliveredOrders, ordersMutex, asleep,
                      clientVars, trouble>>
      BY <1>6 DEF Collect
    <2>2. DelivererType'
      BY <1>2, <1>6, Collected DEF DelivererType
    <2>3. OrderType'
      BY <1>2, <1>6, <2>1, Collected DEF OrderType
    <2>4. MainType' /\ BacklogType' /\ ClientType' /\ TroubleType'
      BY <1>2, <2>1 DEF MainType, BacklogType, ClientType, TroubleType, mainVars, clientVars
    <2> QED
      BY <1>3, <1>5, <2>1, <2>2, <2>3, <2>4, TypePartsNext
  <1>7. CASE HandOver(d)
    <2>1. /\ UNCHANGED asleep /\ numOrders' = numOrders - 1
          /\ deliveredOrders' \in {0, deliveredOrders + 1} /\ ordersMutex' \in {NULL, d}
          /\ sendNotification \/ UNCHANGED <<main, backlog, client, trouble>>
      BY <1>7 DEF HandOver
    <2>2. DelivererType'
      BY <1>2, <1>7, HandedOver DEF DelivererType
    <2>3. OrderType'
      BY <1>2, <1>7, <2>1, HandedOver DEF OrderType
    <2>4. /\ main' \in {main, "exited"} /\ TroubleType'
          /\ backlog' \in {backlog, Append(backlog, [kind |-> "notice", from |-> NULL])}
          /\ UNCHANGED client \/ \E c \in AtClients \ {NULL} : client' = [client EXCEPT ![c] = "told"]
      BY <1>2, <2>1 DEF sendNotification, TroubleType, Troubles
    <2>5. MainType'
      BY <1>1, <1>2, <2>4 DEF MainType
    <2>6. BacklogType'
      BY <1>2, <2>4, ConnectionFacts DEF BacklogType
    <2>7. ClientType'
      BY <1>1, <1>2, <2>4 DEF ClientType, ClientSteps
    <2> QED
      BY <1>3, <1>5, <2>1, <2>2, <2>3, <2>4, <2>5, <2>6, <2>7, TypePartsNext
  <1>8. CASE Look(d, Bagful)
    <2>1. MainType' /\ BacklogType' /\ OrderType' /\ DelivererType' /\ ClientType'
          /\ TroubleType' /\ UNCHANGED asleep
      BY <1>2, <1>8 DEF Look, MainType, BacklogType, OrderType, DelivererType, ClientType,
         TroubleType, mainVars, delivererVars, clientVars
    <2> QED
      BY <1>3, <1>5, <2>1, TypePartsNext
  <1> QED
    BY <1>4, <1>6, <1>7, <1>8 DEF DelivererStep

LEMMA KitchenInit == Init => TypeOK /\ KitchenExact
  <1> SUFFICES ASSUME Init PROVE TypeOK /\ KitchenExact
    OBVIOUS
  <1>1. 0 \in Indices /\ MaxOrders \in Nat \ {0} /\ CustomerCounts \subseteq [Clients -> 1 .. MaxOrders]
    BY Parameters, OvenAssumption
  <1>2. MainType /\ BacklogType /\ ClientType /\ TroubleType /\ SleepType
    BY <1>1 DEF Init, MainType, BacklogType, ClientType, TroubleType, SleepType, ClientSteps
  <1>3. OrderType
    BY EntryFacts DEF Init, OrderType
  <1>4. ChefType
    BY <1>1 DEF Init, ChefType, ChefSteps
  <1>5. DelivererType
    BY DEF Init, DelivererType
  <1>6. OvenType
    BY Parameters DEF Init, OvenType
  <1>7. KitchenExact
    <2>1. \A T : "order" \notin T => Chefs_(T) = {}
      BY DEF Init, Chefs_
    <2>2. Cardinality({}) = 0
      BY FS_EmptySet
    <2>3. /\ Chefs_({"peel", "oven", "cooking", "free_slot"}) = {}
          /\ Chefs_({"oven", "cooking", "free_slot", "free_peel"}) = {}
          /\ Chefs_({"cooking"}) = {} /\ asleep = {}
      BY <2>1 DEF Init
    <2>4. /\ ovenSlots = MAX_OVEN_SLOTS - 0 /\ ovenPeels = MAX_OVEN_PEELS - 0
          /\ ovenCapacity = 0
      BY Parameters DEF Init
    <2> QED
      BY <2>2, <2>3, <2>4 DEF KitchenExact
  <1> QED
    BY <1>2, <1>3, <1>4, <1>5, <1>6, <1>7, TypeParts

LEMMA KitchenStep ==
  ASSUME TypeOK, KitchenExact, [Next]_vars
  PROVE  TypeOK' /\ KitchenExact'
  <1>1. CASE Main
    BY <1>1, MainTypes
  <1>2. CASE \E c \in Chefs : ChefStep(c)
    BY <1>2, ChefTypes
  <1>3. CASE \E d \in Deliverers : DelivererStep(d)
    BY <1>3, DelivererTypes
  <1>4. CASE \E c \in Clients : SendCount(c) \/ ClientStep(c) \/ Cancel(c)
    BY <1>4, ClientTypes
  <1>5. CASE UNCHANGED vars
    <2>1. /\ UNCHANGED <<main, received, new_max_order, max_order, allOrders, backlog>>
          /\ UNCHANGED <<ordersArray, numOrders, deliveredOrders, ordersMutex>>
          /\ UNCHANGED <<chef, orderIndex, ovenSlots, ovenPeels, ovenCapacity>>
          /\ UNCHANGED <<deliverer, bag, asleep, client, customerCount, trouble>>
      BY <1>5 DEF vars, mainVars, orderVars, oven, chefVars, delivererVars, clientVars
    <2>2. KitchenExact'
      BY <2>1 DEF KitchenExact, Chefs_
    <2>3. TypeOK'
      BY <2>1 DEF TypeOK
    <2> QED
      BY <2>2, <2>3
  <1> QED
    BY <1>1, <1>2, <1>3, <1>4, <1>5 DEF Next

-----------------------------------------------------------------------------
(* As long as nothing troubles the shop: what leaves the orders alone.     *)
CalmInv == CustomerRight /\ OrdersRight /\ BagsRight /\ NumbersRight

LEMMA OrdersAlone ==
  ASSUME OrdersRight, BagsRight,
         UNCHANGED <<ordersArray, numOrders, deliveredOrders, max_order, chef, orderIndex,
                     bag, asleep>>
  PROVE  OrdersRight' /\ BagsRight'
  BY DEF OrdersRight, BagsRight, Undelivered, AtWork, Used, AwaitOrders, ChefsAt

LEMMA CustomersAlone ==
  ASSUME CustomerRight, NumbersRight,
         UNCHANGED <<main, backlog, client, numOrders, new_max_order, max_order, received,
                     allOrders, customerCount>>
  PROVE  CustomerRight' /\ NumbersRight'
  BY DEF CustomerRight, NumbersRight, Present, Taken

LEMMA TakenGrows ==
  ASSUME TypeOK, NumbersRight, allOrders' = allOrders,
         \A c \in Taken : c \in Taken'
  PROVE  NumbersRight'
  <1> DEFINE k == Cardinality(Taken)
             l == Cardinality(Taken')
  <1>1. Taken' \subseteq Clients /\ Taken \subseteq Taken' /\ IsFiniteSet(Clients)
    BY Parameters DEF Taken
  <1>2. k \in Nat /\ l \in Nat /\ k <= l
    <2>1. IsFiniteSet(Taken')
      BY <1>1, NotMore
    <2> QED
      BY <1>1, <2>1, NotMore
  <1>3. allOrders \in Nat /\ MaxOrders \in Nat /\ allOrders <= k * MaxOrders
    BY Parameters DEF TypeOK, NumbersRight
  <1> HIDE DEF k, l
  <1>4. k * MaxOrders <= l * MaxOrders
    BY <1>2, <1>3
  <1>5. k * MaxOrders \in Nat /\ l * MaxOrders \in Nat
    BY <1>2, <1>3
  <1>6. allOrders <= l * MaxOrders
    BY <1>3, <1>4, <1>5
  <1> QED
    BY <1>6 DEF NumbersRight, l

(* What the phases of a customer say, read for one that is present.        *)
LEMMA OnePresent ==
  ASSUME CustomerRight, NEW c \in Present
  PROVE  /\ Present = {c} /\ main # "exited"
         /\ numOrders > 0 => /\ client[c] # "counted" /\ main \in {"listen", "count"}
                             /\ backlog = <<>>
         /\ ~(numOrders > 0) =>
              \/ /\ main = "count"
                 /\ backlog = IF client[c] = "counted" THEN <<[kind |-> "count", from |-> c]>>
                              ELSE Append(<<[kind |-> "count", from |-> c]>>, OrdersOf(c))
              \/ /\ main \in {"alloc", "orders"}
                 /\ backlog = IF client[c] = "counted" THEN <<>> ELSE Append(<<>>, OrdersOf(c))
                 /\ new_max_order = customerCount[c]
                 /\ main = "orders" => max_order = new_max_order
              \/ /\ main = "install" /\ backlog = <<>>
                 /\ client[c] # "counted" /\ received = OrdersOf(c)
                 /\ max_order = customerCount[c]
  BY DEF CustomerRight

(* The same, the other way round.                                          *)
LEMMA OnePresentNext ==
  ASSUME NEW c, Present' = {c}, main' # "exited",
         numOrders' > 0 => /\ client'[c] # "counted" /\ main' \in {"listen", "count"}
                           /\ backlog' = <<>>,
         ~(numOrders' > 0) =>
              \/ /\ main' = "count"
                 /\ backlog' = IF client'[c] = "counted" THEN <<[kind |-> "count", from |-> c]>>
                               ELSE Append(<<[kind |-> "count", from |-> c]>>, OrdersOf(c))
              \/ /\ main' \in {"alloc", "orders"}
                 /\ backlog' = IF client'[c] = "counted" THEN <<>> ELSE Append(<<>>, OrdersOf(c))
                 /\ new_max_order' = customerCount'[c]
                 /\ main' = "orders" => max_order' = new_max_order'
              \/ /\ main' = "install" /\ backlog' = <<>>
                 /\ client'[c] # "counted" /\ received' = OrdersOf(c)
                 /\ max_order' = customerCount'[c]
  PROVE  CustomerRight'
  <1>1. \A b \in Present' : b = c
    OBVIOUS
  <1>2. Present' # {}
    OBVIOUS
  <1> QED
    BY <1>1, <1>2 DEF CustomerRight, OrdersOf

LEMMA ClientsKeep ==
  ASSUME TypeOK, KitchenExact, CalmInv, trouble = {}, trouble' = {},
         NEW c \in Clients, SendCount(c) \/ ClientStep(c) \/ Cancel(c)
  PROVE  CalmInv'
  <1>1. UNCHANGED <<mainVars, orderVars, oven, chefVars, delivererVars, asleep, customerCount>>
    BY DEF SendCount, ClientStep, SendOrders, wait_for_notification, Cancel, Connect
  <1>2. OrdersRight' /\ BagsRight'
    BY <1>1, OrdersAlone DEF CalmInv, mainVars, orderVars, chefVars, delivererVars
  <1>3. UNCHANGED <<main, new_max_order, max_order, allOrders, received, numOrders, customerCount>>
    BY <1>1 DEF mainVars, orderVars
  <1>4. /\ client \in [Clients -> ClientSteps] /\ NULL \notin Clients
        /\ CustomerRight /\ NumbersRight
        /\ main \in {"listen", "count", "alloc", "orders", "install", "exited"}
    BY Parameters, TypeParts DEF ClientType, MainType, CalmInv
  <1>5. CASE SendCount(c)
    <2>1. client[c] = "start" /\ Present = {} /\ Connect(c, "count", "counted", {})
      BY <1>5 DEF SendCount, Connect
    <2>2. main \in {"listen", "count"} /\ backlog = <<>> /\ numOrders = 0
      BY <1>4, <2>1 DEF CustomerRight
    <2>4. CASE client' = [client EXCEPT ![c] = "failed"] /\ UNCHANGED backlog
      <3>1. \A b \in Clients : client'[b] = IF b = c THEN "failed" ELSE client[b]
        BY <1>4, <2>4
      <3>2. Present' = {}
        BY <2>1, <3>1 DEF Present
      <3>3. CustomerRight'
        BY <1>3, <2>2, <2>4, <3>2 DEF CustomerRight
      <3>4. NumbersRight'
        BY <1>3, <1>4, <2>1, <3>1, <3>2, TakenGrows DEF Taken, Present
      <3> QED
        BY <1>2, <3>3, <3>4 DEF CalmInv
    <2>5. CASE /\ NULL \in AtServer /\ client' = [client EXCEPT ![c] = "counted"]
               /\ backlog' = Append(backlog, [kind |-> "count", from |-> c])
      <3>1. \A b \in Clients : client'[b] = IF b = c THEN "counted" ELSE client[b]
        BY <1>4, <2>5
      <3>2. Present' = {c} /\ client'[c] = "counted"
        BY <2>1, <3>1 DEF Present
      <3>3. main = "count"
        BY <1>4, <2>2, <2>5 DEF AtServer, Open, Listening
      <3>4. backlog' = <<[kind |-> "count", from |-> c]>>
        <4>1. \A r : Append(<<>>, r) = <<r>>
          OBVIOUS
        <4> QED
          BY <2>2, <2>5, <4>1
      <3>5. CustomerRight'
        BY <1>3, <2>2, <3>2, <3>3, <3>4, OnePresentNext
      <3>6. NumbersRight'
        BY <1>3, <1>4, <2>1, <2>2, <3>1, TakenGrows DEF Taken, Present
      <3> QED
        BY <1>2, <3>5, <3>6 DEF CalmInv
    <2> QED
      BY <2>1, <2>4, <2>5 DEF Connect
  <1>6. CASE SendOrders(c)
    <2>1. client[c] = "counted" /\ c \in Present /\ Connect(c, "orders", "ordered", {})
      BY <1>6 DEF SendOrders, Present
    <2>2. /\ Present = {c} /\ ~(numOrders > 0)
          /\ \/ main = "count" /\ backlog = <<[kind |-> "count", from |-> c]>>
             \/ /\ main \in {"alloc", "orders"} /\ backlog = <<>>
                /\ new_max_order = customerCount[c]
                /\ main = "orders" => max_order = new_max_order
      BY <1>4, <2>1, OnePresent
    <2>4. AtServer # {}
      BY <2>2 DEF AtServer, Listening
    <2>5. /\ client' = [client EXCEPT ![c] = "ordered"]
          /\ backlog' = Append(backlog, [kind |-> "orders", from |-> c])
      BY <2>1, <2>4 DEF Connect
    <2>6. \A b \in Clients : client'[b] = IF b = c THEN "ordered" ELSE client[b]
      BY <1>4, <2>5
    <2>7. Present' = {c} /\ client'[c] = "ordered"
      BY <2>2, <2>6 DEF Present
    <2>8. CustomerRight'
      BY <1>3, <1>4, <2>2, <2>5, <2>7, OnePresent, OnePresentNext DEF OrdersOf
    <2>9. NumbersRight'
      BY <1>3, <1>4, <2>1, <2>6, TakenGrows DEF Taken, Present
    <2> QED
      BY <1>2, <2>8, <2>9 DEF CalmInv
  <1>7. CASE wait_for_notification(c) /\ client[c] = "ordered"
    <2>1. client[c] = "ordered" /\ client' = [client EXCEPT ![c] = "waiting"] /\ backlog' = backlog
      BY <1>7 DEF wait_for_notification, ClientGoes
    <2>2. \A b \in Clients : client'[b] = IF b = c THEN "waiting" ELSE client[b]
      BY <1>4, <2>1
    <2>3. c \in Present /\ Present' = Present
      BY <2>1, <2>2 DEF Present
    <2>4. Present' = {c} /\ client'[c] = "waiting" /\ client[c] # "counted"
      BY <1>4, <2>1, <2>2, <2>3, OnePresent
    <2>5. CustomerRight'
      BY <1>3, <1>4, <2>1, <2>3, <2>4, OnePresent, OnePresentNext
    <2>6. NumbersRight'
      BY <1>3, <1>4, <2>1, <2>2, TakenGrows DEF Taken, Present
    <2> QED
      BY <1>2, <2>5, <2>6 DEF CalmInv
  <1>8. CASE wait_for_notification(c) /\ client[c] # "ordered"
    <2>1. client[c] = "told" /\ client' = [client EXCEPT ![c] = "served"] /\ backlog' = backlog
      BY <1>8 DEF wait_for_notification, ClientGoes
    <2>2. \A b \in Clients : client'[b] = IF b = c THEN "served" ELSE client[b]
      BY <1>4, <2>1
    <2>3. Present' = Present /\ \A b \in Present : client'[b] = client[b]
      BY <2>1, <2>2 DEF Present
    <2>4. CustomerRight'
      <3>1. CASE Present = {}
        BY <1>3, <1>4, <2>1, <2>3, <3>1 DEF CustomerRight
      <3>2. CASE Present # {}
        <4>1. PICK b \in Present : TRUE
          BY <3>2
        <4>2. Present' = {b}
          BY <1>4, <2>3, OnePresent
        <4> QED
          BY <1>3, <1>4, <2>1, <2>3, <4>2, OnePresent, OnePresentNext
      <3> QED
        BY <3>1, <3>2
    <2>5. NumbersRight'
      BY <1>3, <1>4, <2>1, <2>2, TakenGrows DEF Taken, Present
    <2> QED
      BY <1>2, <2>4, <2>5 DEF CalmInv
  <1>9. ~Cancel(c)
    BY DEF Cancel
  <1> QED
    BY <1>5, <1>6, <1>7, <1>8, <1>9 DEF ClientStep

LEMMA SeqOfTwo ==
  /\ \A a : Head(<<a>>) = a /\ Tail(<<a>>) = <<>> /\ <<a>> # <<>> /\ Append(<<>>, a) = <<a>>
  /\ \A a, b : /\ Append(<<a>>, b) # <<>> /\ Head(Append(<<a>>, b)) = a
               /\ Tail(Append(<<a>>, b)) = Append(<<>>, b)
  <1>1. \A a : Head(<<a>>) = a /\ Tail(<<a>>) = <<>> /\ <<a>> # <<>> /\ Append(<<>>, a) = <<a>>
    OBVIOUS
  <1>2. ASSUME NEW a, NEW b
        PROVE  /\ Append(<<a>>, b) # <<>> /\ Head(Append(<<a>>, b)) = a
               /\ Tail(Append(<<a>>, b)) = Append(<<>>, b)
    <2> DEFINE S == {a, b}
               r == Append(<<a>>, b)
    <2>a. <<a>> \in Seq(S) /\ b \in S /\ Len(<<a>>) = 1 /\ <<a>>[1] = a
      OBVIOUS
    <2>b. /\ r \in Seq(S) /\ Len(r) = Len(<<a>>) + 1
          /\ \A i \in 1 .. Len(<<a>>) : r[i] = <<a>>[i]
          /\ r[Len(<<a>>) + 1] = b
      BY <2>a, AppendProperties
    <2> HIDE DEF r
    <2>c. Len(r) = 2 /\ r[1] = a /\ r[2] = b
      BY <2>a, <2>b
    <2>d. r = <<a, b>>
      BY <2>b, <2>c
    <2>e. Append(<<>>, b) = <<b>>
      OBVIOUS
    <2>1. Append(<<a>>, b) = <<a, b>> /\ Append(<<>>, b) = <<b>>
      BY <2>d, <2>e DEF r
    <2>2. <<a, b>> # <<>> /\ Head(<<a, b>>) = a
      OBVIOUS
    <2>3. Tail(<<a, b>>) = <<b>>
      OBVIOUS
    <2> QED
      BY <2>1, <2>2, <2>3
  <1> QED
    BY <1>1, <1>2

(* The orders of the one customer fill the array exactly.                  *)
LEMMA AllCame ==
  ASSUME TypeOK, CustomerRight, main = "install"
  PROVE  \E c \in Clients :
           /\ Present = {c} /\ client[c] # "counted" /\ ~(numOrders > 0)
           /\ Sent = Used /\ Cardinality(Used) = max_order /\ max_order \in 1 .. MaxOrders
  <1>1. PICK c : c \in Present
    BY DEF CustomerRight
  <1>2. /\ Present = {c} /\ client[c] # "counted" /\ ~(numOrders > 0)
        /\ received = OrdersOf(c) /\ max_order = customerCount[c]
    BY <1>1, OnePresent
  <1>3. c \in Clients /\ max_order \in 1 .. MaxOrders
    BY <1>1, <1>2 DEF Present, TypeOK
  <1>4. received.kind = "orders" /\ received.from = c
    BY <1>2 DEF OrdersOf
  <1>5. Sent = Used
    BY <1>2, <1>4 DEF Sent, Used
  <1>6. Used = 0 .. max_order - 1
    <2>1. MaxOrders \in Nat
      BY Parameters
    <2> QED
      BY <1>3, <2>1 DEF Used, Indices
  <1>7. Cardinality(Used) = max_order
    <2>1. max_order - 1 \in Int /\ 0 \in Int /\ max_order \in Int
      BY <1>3, Parameters
    <2>2. Cardinality(0 .. max_order - 1) = IF 0 > max_order - 1 THEN 0 ELSE (max_order - 1) - 0 + 1
      BY <2>1, FS_Interval
    <2> QED
      BY <1>3, <1>6, <2>1, <2>2, Parameters
  <1> QED
    BY <1>2, <1>3, <1>5, <1>7

LEMMA Product ==
  ASSUME NEW k \in Nat, NEW l \in Nat, NEW M \in Nat, NEW a \in Nat, NEW n \in 0 .. M,
         k + 1 <= l, a <= k * M
  PROVE  a + n <= l * M
  <1>1. (k + 1) * M = k * M + M
    OBVIOUS
  <1>2. l = k + 1 \/ l > k + 1
    OBVIOUS
  <1>3. (k + 1) * M <= l * M
    <2>1. PICK e \in Nat : l = (k + 1) + e
      <3>1. l - (k + 1) \in Nat /\ l = (k + 1) + (l - (k + 1))
        OBVIOUS
      <3> QED
        BY <3>1
    <2>a. \A n1, e1, m1 \in Nat : (n1 + e1) * m1 = n1 * m1 + e1 * m1
      OBVIOUS
    <2>2. ((k + 1) + e) * M = (k + 1) * M + e * M
      BY <2>a, k + 1 \in Nat
    <2>3. e * M \in Nat /\ (k + 1) * M \in Nat
      OBVIOUS
    <2> QED
      BY <2>1, <2>2, <2>3
  <1>4. k * M \in Nat /\ l * M \in Nat /\ (k + 1) * M \in Nat
    OBVIOUS
  <1> QED
    BY <1>1, <1>3, <1>4

(* All that was sent is put into the array, unless the read was short.     *)
LEMMA AllInstalled ==
  ASSUME Install, trouble' = {}, Sent = Used
  PROVE  \E offered \in BOOLEAN :
           /\ ordersArray' = [i \in Indices |-> IF i \in Used
                                THEN [id |-> allOrders + Rank(i, Used), status |-> 0,
                                      offered |-> i \in Used \/ offered]
                                ELSE ordersArray[i]]
           /\ allOrders' = allOrders + Cardinality(Used)
           /\ numOrders' = numOrders + Cardinality(Used)
  <1>1. PICK C \in Came, offered \in BOOLEAN, S \in SUBSET Used :
           /\ C \subseteq S
           /\ ordersArray' = [i \in Indices |-> IF i \in S
                                THEN [id |-> allOrders + Rank(i, S), status |-> 0,
                                      offered |-> i \in C \/ offered]
                                ELSE ordersArray[i]]
           /\ trouble' = trouble \cup (IF C = Sent THEN {} ELSE {"short"})
           /\ allOrders' = allOrders + Cardinality(S)
           /\ numOrders' = numOrders + Cardinality(S)
    BY DEF Install
  <1>2. C = Used
    BY <1>1
  <1>3. S = Used
    BY <1>1, <1>2
  <1> QED
    BY <1>1, <1>2, <1>3

LEMMA InstallKeeps ==
  ASSUME TypeOK, KitchenExact, CalmInv, trouble = {}, trouble' = {}, Install
  PROVE  CalmInv'
  <1>1. main = "install" /\ main' = "listen"
    BY DEF Install
  <1>2. PICK c \in Clients :
          /\ Present = {c} /\ client[c] # "counted" /\ ~(numOrders > 0)
          /\ Sent = Used /\ Cardinality(Used) = max_order /\ max_order \in 1 .. MaxOrders
    BY <1>1, AllCame DEF CalmInv
  <1>3. /\ numOrders = 0 /\ deliveredOrders = 0 /\ AtWork = {}
        /\ \A d \in Deliverers : bag[d] = <<>>
    BY <1>2 DEF CalmInv, OrdersRight, TypeOK
  <1>4. PICK offered \in BOOLEAN :
          /\ ordersArray' = [i \in Indices |-> IF i \in Used
                               THEN [id |-> allOrders + Rank(i, Used), status |-> 0,
                                     offered |-> i \in Used \/ offered]
                               ELSE ordersArray[i]]
          /\ allOrders' = allOrders + Cardinality(Used)
          /\ numOrders' = numOrders + Cardinality(Used)
    BY <1>2, AllInstalled
  <1>5. /\ UNCHANGED <<backlog, new_max_order, max_order, deliveredOrders, chef, orderIndex,
                       deliverer, bag, client, customerCount>>
        /\ WakeAll
    BY DEF Install, chefVars, delivererVars, clientVars
  <1>6. /\ backlog = <<>> /\ Used' = Used /\ Present' = Present /\ AtWork' = AtWork
        /\ AwaitOrders' = AwaitOrders
    BY <1>1, <1>2, <1>5, OnePresent DEF CalmInv, Used, Present, AtWork, AwaitOrders, ChefsAt
  <1>7. numOrders' = max_order /\ max_order \in Nat /\ max_order > 0
    BY <1>2, <1>3, <1>4, Parameters
  <1>8. CustomerRight'
    BY <1>1, <1>2, <1>5, <1>6, <1>7, OnePresentNext
  <1>9. \A i \in Used : /\ ordersArray'[i].id = allOrders + Rank(i, Used)
                        /\ ordersArray'[i].offered = TRUE
    BY <1>4, Parameters
  <1>10. Undelivered' = Used
    BY <1>6, <1>9 DEF Undelivered
  <1>11. ASSUME NEW i \in Used, NEW j \in Used, ordersArray'[i].id = ordersArray'[j].id
         PROVE  i = j
    <2>1. /\ Used \subseteq Nat /\ IsFiniteSet(Used) /\ allOrders \in Nat
      BY Parameters DEF TypeOK
    <2>2. /\ Rank(i, Used) \in Nat /\ Rank(j, Used) \in Nat
          /\ Rank(i, Used) = Rank(j, Used) => i = j
      BY <2>1, RankFacts
    <2>3. allOrders + Rank(i, Used) = allOrders + Rank(j, Used)
      BY <1>9, <1>11
    <2> QED
      BY <2>1, <2>2, <2>3
  <1>12. asleep' \cap AwaitOrders' = {}
    BY <1>5, <1>6, Parameters DEF WakeAll, AwaitOrders, ChefsAt
  <1>13. OrdersRight'
    <2>1. numOrders' > 0 /\ numOrders' >= 0 /\ numOrders' # 0
          /\ numOrders' + deliveredOrders' = max_order'
      BY <1>3, <1>5, <1>7
    <2>2. Cardinality(Undelivered') = numOrders'
      BY <1>2, <1>7, <1>10
    <2> QED
      BY <1>3, <1>6, <1>10, <1>11, <1>12, <2>1, <2>2 DEF OrdersRight
  <1>14. BagsRight'
    BY <1>3, <1>5 DEF BagsRight
  <1>15. NumbersRight'
    <2> DEFINE k == Cardinality(Taken)
               l == Cardinality(Taken')
    <2>1. Taken \subseteq Clients /\ Taken' \subseteq Clients /\ c \notin Taken
      BY <1>2 DEF Taken
    <2>2. Taken \cup {c} \subseteq Taken'
      BY <1>2, <1>5, <1>6, <1>7 DEF Taken, Present
    <2>3. IsFiniteSet(Taken) /\ IsFiniteSet(Taken') /\ k \in Nat /\ l \in Nat
      BY <2>1, NotMore, Parameters
    <2>4. Cardinality(Taken \cup {c}) = k + 1
      BY <2>1, <2>3, OneMore
    <2>5. k + 1 <= l
      BY <2>2, <2>3, <2>4, NotMore
    <2>6. allOrders \in Nat /\ allOrders <= k * MaxOrders /\ MaxOrders \in Nat
      BY Parameters DEF TypeOK, CalmInv, NumbersRight
    <2>7. allOrders' = allOrders + max_order /\ max_order \in 0 .. MaxOrders
      BY <1>2, <1>4, <1>7
    <2> HIDE DEF k, l
    <2>8. allOrders + max_order <= l * MaxOrders
      BY <2>3, <2>5, <2>6, <2>7, Product
    <2> QED
      BY <2>7, <2>8 DEF NumbersRight, l
  <1> QED
    BY <1>8, <1>13, <1>14, <1>15 DEF CalmInv

LEMMA MainKeeps ==
  ASSUME TypeOK, KitchenExact, CalmInv, trouble = {}, trouble' = {}, Main
  PROVE  CalmInv'
  <1>1. CustomerRight /\ OrdersRight /\ BagsRight /\ NumbersRight /\ customerCount' = customerCount
    BY DEF CalmInv, Main, Listen, AcceptCount, Reallocate, AcceptOrders, Install, clientVars
  <1>2. ASSUME UNCHANGED <<ordersArray, numOrders, deliveredOrders, max_order, chefVars,
                           delivererVars, asleep>>
        PROVE  OrdersRight' /\ BagsRight'
    BY <1>1, <1>2, OrdersAlone DEF chefVars, delivererVars
  <1>3. ASSUME UNCHANGED <<client, numOrders, allOrders>>
        PROVE  NumbersRight' /\ Present' = Present
    BY <1>1, <1>3 DEF NumbersRight, Taken, Present
  <1>4. CASE Listen
    <2>1. /\ main = "listen" /\ main' = "count"
          /\ UNCHANGED <<backlog, new_max_order, max_order, received, client, numOrders,
                         allOrders>>
      BY <1>4 DEF Listen, orderVars, clientVars
    <2>2. OrdersRight' /\ BagsRight'
      BY <1>2, <1>4 DEF Listen, orderVars
    <2>3. NumbersRight' /\ Present' = Present
      BY <1>3, <2>1
    <2>4. CustomerRight'
      <3>1. CASE Present = {}
        BY <1>1, <2>1, <2>3, <3>1 DEF CustomerRight
      <3>2. CASE \E c : c \in Present
        <4>1. PICK c : c \in Present
          BY <3>2
        <4>2. /\ Present' = {c} /\ numOrders > 0 /\ client[c] # "counted" /\ backlog = <<>>
          BY <1>1, <2>1, <2>3, <4>1, OnePresent
        <4> QED
          BY <2>1, <4>2, OnePresentNext
      <3> QED
        BY <3>1, <3>2
    <2> QED
      BY <2>2, <2>3, <2>4 DEF CalmInv
  <1>5. CASE AcceptCount
    <2>1. /\ main = "count" /\ backlog # <<>> /\ backlog' = Tail(backlog)
          /\ new_max_order' = IF Head(backlog).kind = "count"
                        THEN customerCount[Head(backlog).from] ELSE new_max_order
          /\ main' = IF new_max_order' # max_order THEN "alloc" ELSE "orders"
          /\ UNCHANGED <<max_order, received, client, numOrders, allOrders>>
      BY <1>5 DEF AcceptCount, orderVars, clientVars
    <2>2. OrdersRight' /\ BagsRight'
      BY <1>2, <1>5 DEF AcceptCount, orderVars
    <2>3. NumbersRight' /\ Present' = Present
      BY <1>3, <2>1
    <2>4. PICK c : c \in Present
      BY <1>1, <2>1 DEF CustomerRight
    <2>5. /\ Present = {c} /\ ~(numOrders > 0)
          /\ backlog = IF client[c] = "counted" THEN <<[kind |-> "count", from |-> c]>>
                       ELSE Append(<<[kind |-> "count", from |-> c]>>, OrdersOf(c))
      BY <1>1, <2>1, <2>4, OnePresent
    <2>6. /\ Head(backlog) = [kind |-> "count", from |-> c]
          /\ Tail(backlog) = IF client[c] = "counted" THEN <<>> ELSE Append(<<>>, OrdersOf(c))
      BY <2>5, SeqOfTwo
    <2>7. new_max_order' = customerCount[c]
      BY <2>1, <2>6
    <2>8. CustomerRight'
      BY <1>1, <2>1, <2>3, <2>5, <2>6, <2>7, OnePresentNext
    <2> QED
      BY <2>2, <2>3, <2>8 DEF CalmInv
  <1>6. CASE Reallocate
    <2>1. /\ main = "alloc" /\ main' = "orders" /\ max_order' = new_max_order
          /\ UNCHANGED <<backlog, new_max_order, received, client, numOrders, allOrders,
                         deliveredOrders, chef, orderIndex, bag, asleep>>
      BY <1>6 DEF Reallocate, chefVars, delivererVars, clientVars
    <2>2. NumbersRight' /\ Present' = Present
      BY <1>3, <2>1
    <2>3. PICK c : c \in Present
      BY <1>1, <2>1 DEF CustomerRight
    <2>4. /\ Present = {c} /\ ~(numOrders > 0) /\ new_max_order = customerCount[c]
          /\ backlog = IF client[c] = "counted" THEN <<>> ELSE Append(<<>>, OrdersOf(c))
      BY <1>1, <2>1, <2>3, OnePresent
    <2>5. CustomerRight'
      BY <1>1, <2>1, <2>2, <2>4, OnePresentNext
    <2>6. numOrders = 0
      BY <1>1, <2>4 DEF OrdersRight, TypeOK
    <2>7. deliveredOrders = 0 /\ AtWork = {} /\ \A d \in Deliverers : bag[d] = <<>>
      BY <1>1, <2>6 DEF OrdersRight
    <2>8. AtWork' = AtWork
      BY <2>1 DEF AtWork
    <2>9. OrdersRight'
      BY <2>1, <2>6, <2>7, <2>8 DEF OrdersRight
    <2>10. BagsRight'
      BY <2>1, <2>7 DEF BagsRight
    <2> QED
      BY <2>2, <2>5, <2>9, <2>10 DEF CalmInv
  <1>7. CASE AcceptOrders
    <2>1. /\ main = "orders" /\ main' = "install" /\ backlog # <<>> /\ backlog' = <<>>
          /\ received' = Head(backlog)
          /\ UNCHANGED <<new_max_order, max_order, client, numOrders, allOrders>>
      BY <1>7 DEF AcceptOrders, orderVars, clientVars
    <2>2. OrdersRight' /\ BagsRight'
      BY <1>2, <1>7 DEF AcceptOrders, orderVars
    <2>3. NumbersRight' /\ Present' = Present
      BY <1>3, <2>1
    <2>4. PICK c : c \in Present
      BY <1>1, <2>1 DEF CustomerRight
    <2>5. /\ Present = {c} /\ ~(numOrders > 0) /\ max_order = customerCount[c]
          /\ backlog = IF client[c] = "counted" THEN <<>> ELSE Append(<<>>, OrdersOf(c))
      BY <1>1, <2>1, <2>4, OnePresent
    <2>6. client[c] # "counted" /\ Head(backlog) = OrdersOf(c)
      BY <2>1, <2>5, SeqOfTwo
    <2>7. CustomerRight'
      BY <1>1, <2>1, <2>3, <2>5, <2>6, OnePresentNext
    <2> QED
      BY <2>2, <2>3, <2>7 DEF CalmInv
  <1>8. CASE Install
    BY <1>8, InstallKeeps
  <1> QED
    BY <1>4, <1>5, <1>6, <1>7, <1>8 DEF Main

-----------------------------------------------------------------------------
(* A chef works on entry i and goes on: the entry is nobody else's, and it *)
(* is in the state that belongs to the chef's next step.                   *)
LEMMA Worked ==
  ASSUME TypeOK, OrdersRight, BagsRight, numOrders > 0,
         NEW c \in Chefs, c \notin asleep, asleep' \subseteq asleep,
         NEW to, NEW i \in Used, i \in Undelivered,
         chef' = [chef EXCEPT ![c] = to],
         \A b \in Chefs : b # c => orderIndex'[b] = orderIndex[b],
         to \notin {"order", "log"} => /\ orderIndex'[c] = i
                                      /\ ordersArray'[i].status = StatusAt(to),
         \A b \in AtWork : b # c => orderIndex[b] # i,
         \A j \in Indices : /\ j # i => ordersArray'[j] = ordersArray[j]
                            /\ ordersArray'[j].id = ordersArray[j].id,
         ordersArray[i].status # 4, ordersArray'[i].status # 0,
         UNCHANGED <<numOrders, deliveredOrders, max_order, bag>>
  PROVE  OrdersRight' /\ BagsRight'
  <1>1. Used' = Used /\ Used \subseteq Indices
    BY Parameters DEF Used
  <1>2. Undelivered' = Undelivered
    BY <1>1 DEF Undelivered
  <1>3. \A b \in Chefs : chef'[b] = IF b = c THEN to ELSE chef[b]
    BY DEF TypeOK
  <1>4. \A b \in AtWork' : b \in Chefs /\ (b # c => b \in AtWork)
                          /\ (b = c => to \notin {"order", "log"})
    BY <1>3 DEF AtWork
  <1>5. ASSUME NEW b \in AtWork'
        PROVE  /\ orderIndex'[b] \in Used
               /\ ordersArray'[orderIndex'[b]].status = StatusAt(chef'[b])
    <2>1. CASE b = c
      BY <1>3, <1>4, <2>1
    <2>2. CASE b # c
      <3>1. b \in AtWork /\ orderIndex'[b] = orderIndex[b] /\ chef'[b] = chef[b]
        BY <1>3, <1>4, <2>2
      <3>2. /\ orderIndex[b] \in Used /\ orderIndex[b] # i
            /\ ordersArray[orderIndex[b]].status = StatusAt(chef[b])
        BY <2>2, <3>1 DEF OrdersRight
      <3>3. ordersArray'[orderIndex[b]] = ordersArray[orderIndex[b]]
        BY <1>1, <3>2
      <3> QED
        BY <3>1, <3>2, <3>3
    <2> QED
      BY <2>1, <2>2
  <1>6. ASSUME NEW a \in AtWork', NEW b \in AtWork', orderIndex'[a] = orderIndex'[b]
        PROVE  a = b
    <2>1. CASE a # c /\ b # c
      BY <1>4, <1>6, <2>1 DEF OrdersRight
    <2>2. CASE a = c /\ b # c
      BY <1>4, <1>6, <2>2
    <2>3. CASE a # c /\ b = c
      BY <1>4, <1>6, <2>3
    <2> QED
      BY <2>1, <2>2, <2>3
  <1>7. asleep' \cap AwaitOrders' = {}
    <2>1. AwaitOrders' \subseteq AwaitOrders \cup {c}
      BY <1>3 DEF AwaitOrders, ChefsAt
    <2>2. asleep \cap AwaitOrders = {}
      BY DEF OrdersRight
    <2> QED
      BY <2>1, <2>2
  <1>8. numOrders' > 0 /\ numOrders' >= 0 /\ numOrders' # 0
    BY DEF TypeOK
  <1>9. /\ numOrders' + deliveredOrders' = max_order'
        /\ Cardinality(Undelivered') = numOrders'
        /\ \A j, k \in Undelivered' : ordersArray'[j].id = ordersArray'[k].id => j = k
    <2>1. Undelivered \subseteq Indices
      BY <1>1 DEF Undelivered
    <2> QED
      BY <1>2, <2>1 DEF OrdersRight
  <1>10. OrdersRight'
    BY <1>1, <1>5, <1>6, <1>7, <1>8, <1>9 DEF OrdersRight
  <1>11. BagsRight'
    <2>1. \A j \in Used : ordersArray[j].status = 4
            => ordersArray'[j].status = 4 /\ ordersArray'[j].id = ordersArray[j].id
      BY <1>1
    <2>2. ASSUME NEW d \in Deliverers, NEW n \in DOMAIN bag'[d]
          PROVE  \E j \in Used' : ordersArray'[j].status = 4 /\ ordersArray'[j].id = bag'[d][n]
      <3>1. PICK j \in Used : ordersArray[j].status = 4 /\ ordersArray[j].id = bag[d][n]
        BY DEF BagsRight
      <3> QED
        BY <1>1, <2>1, <3>1
    <2> QED
      BY <2>2 DEF BagsRight
  <1> QED
    BY <1>10, <1>11

(* The order of a chef at work.                                            *)
LEMMA OwnOrder ==
  ASSUME OrdersRight, numOrders > 0, NEW c \in AtWork
  PROVE  /\ orderIndex[c] \in Used /\ orderIndex[c] \in Indices
         /\ orderIndex[c] \in Undelivered
         /\ ordersArray[orderIndex[c]].status = StatusAt(chef[c])
         /\ ordersArray[orderIndex[c]].status \in {1, 2}
         /\ \A b \in AtWork : b # c => orderIndex[b] # orderIndex[c]
  <1>1. /\ orderIndex[c] \in Used
        /\ ordersArray[orderIndex[c]].status = StatusAt(chef[c])
    BY DEF OrdersRight
  <1>2. StatusAt(chef[c]) \in {1, 2}
    BY DEF StatusAt
  <1>3. orderIndex[c] \in Undelivered /\ orderIndex[c] \in Indices
    BY <1>1, <1>2, Parameters DEF Undelivered
  <1>4. \A b \in AtWork : b # c => orderIndex[b] # orderIndex[c]
    BY DEF OrdersRight
  <1> QED
    BY <1>1, <1>2, <1>3, <1>4

LEMMA SleepKeepsOrders ==
  ASSUME OrdersRight, BagsRight, NEW t, Sleep(t), numOrders = 0 \/ t \notin AwaitOrders
  PROVE  OrdersRight' /\ BagsRight'
  <1>1. UNCHANGED <<ordersArray, numOrders, deliveredOrders, max_order, chef, orderIndex, bag>>
        /\ asleep' = asleep \cup {t}
    BY DEF Sleep, mainVars, orderVars, chefVars, delivererVars
  <1>2. /\ Used' = Used /\ Undelivered' = Undelivered /\ AtWork' = AtWork
        /\ AwaitOrders' = AwaitOrders
    BY <1>1 DEF Used, Undelivered, AtWork, AwaitOrders, ChefsAt
  <1>3. BagsRight'
    BY <1>1, <1>2 DEF BagsRight
  <1>4. numOrders > 0 => asleep' \cap AwaitOrders' = {}
    BY <1>1, <1>2 DEF OrdersRight
  <1>5. OrdersRight'
    BY <1>1, <1>2, <1>4 DEF OrdersRight
  <1> QED
    BY <1>3, <1>5

(* A chef that has written its log line comes back for an order, awake.    *)
LEMMA LogKeepsOrders ==
  ASSUME TypeOK, OrdersRight, BagsRight, NEW c \in Chefs, LogReady(c), c \notin asleep
  PROVE  OrdersRight' /\ BagsRight'
  <1>1. /\ UNCHANGED <<ordersArray, numOrders, deliveredOrders, max_order, bag, asleep>>
        /\ chef[c] = "log" /\ chef' = [chef EXCEPT ![c] = "order"]
        /\ orderIndex' = [orderIndex EXCEPT ![c] = 0]
    BY DEF LogReady, ChefGoes, orderVars, delivererVars
  <1>2. /\ \A b \in Chefs : chef'[b] = IF b = c THEN "order" ELSE chef[b]
        /\ \A b \in Chefs : b # c => orderIndex'[b] = orderIndex[b]
    BY <1>1 DEF TypeOK
  <1>3. AtWork' = AtWork /\ AtWork \subseteq Chefs /\ c \notin AtWork
    BY <1>1, <1>2 DEF AtWork
  <1>4. \A b \in AtWork : orderIndex'[b] = orderIndex[b] /\ chef'[b] = chef[b]
    BY <1>2, <1>3
  <1>5. Used' = Used /\ Undelivered' = Undelivered
    BY <1>1 DEF Used, Undelivered
  <1>6. AwaitOrders' \subseteq AwaitOrders \cup {c}
    BY <1>2 DEF AwaitOrders, ChefsAt
  <1>7. BagsRight'
    BY <1>1, <1>5 DEF BagsRight
  <1>8. OrdersRight'
    BY <1>1, <1>3, <1>4, <1>5, <1>6 DEF OrdersRight
  <1> QED
    BY <1>7, <1>8

LEMMA ChefsKeep ==
  ASSUME TypeOK, KitchenExact, CalmInv, trouble' = {}, NEW c \in Chefs, ChefStep(c)
  PROVE  CalmInv'
  <1>1. CustomerRight /\ OrdersRight /\ BagsRight /\ NumbersRight /\ c \notin asleep
        /\ c \notin Deliverers
    BY Parameters DEF CalmInv, ChefStep
  <1>2. UNCHANGED <<main, backlog, client, numOrders, new_max_order, max_order, received,
                    allOrders, customerCount, deliveredOrders, bag>>
    BY DEF ChefStep, TakeOrder, TakeSlot, TakePeel, PlaceInOven, TakeOut, FreeSlot,
           FreePeel, Ready, LogReady, Sleep, Look, mainVars, clientVars, orderVars,
           delivererVars
  <1>3. CustomerRight' /\ NumbersRight'
    BY <1>1, <1>2, CustomersAlone
  <1>4. /\ chef \in [Chefs -> ChefSteps] /\ orderIndex \in [Chefs -> Indices]
        /\ ordersArray \in [Indices -> Entries]
    BY TypeParts DEF ChefType, OrderType
  <1>5. chef[c] \notin {"order", "log"} => c \in AtWork /\ numOrders > 0
    BY <1>1 DEF AtWork, OrdersRight, TypeOK
  <1>6. CASE Sleep(c)
    <2>1. numOrders = 0 \/ c \notin AwaitOrders
      BY <1>1, <1>6 DEF ChefStep, TakeOrder, TakeSlot, TakePeel, PlaceInOven, TakeOut,
         FreeSlot, FreePeel, Ready, LogReady, Look, AwaitOrders, ChefsAt, ChefGoes, Sleep,
         chefVars
    <2> QED
      BY <1>1, <1>3, <1>6, <2>1, SleepKeepsOrders DEF CalmInv
  <1>7. CASE TakeOrder(c) /\ ~Sleep(c) /\ ~Look(c, Offered)
    <2>1. /\ chef[c] = "order" /\ numOrders # 0 /\ Offered # {}
          /\ ordersArray' = [ordersArray EXCEPT ![First(Offered)].status = 1,
                                                ![First(Offered)].offered = FALSE]
          /\ orderIndex' = [orderIndex EXCEPT ![c] = First(Offered)]
          /\ chef' = [chef EXCEPT ![c] = "slot"] /\ asleep' = asleep
      BY <1>7 DEF TakeOrder, ChefGoes
    <2>2. numOrders > 0
      BY <1>1, <2>1 DEF OrdersRight, TypeOK
    <2>3. PICK i : i = First(Offered)
      OBVIOUS
    <2>4. i \in Used /\ i \in Indices /\ ordersArray[i].status = 0 /\ ordersArray[i].offered
      BY <2>1, <2>3, OfferedFacts DEF Offered
    <2>5. /\ \A j \in Indices : /\ j # i => ordersArray'[j] = ordersArray[j]
                                /\ ordersArray'[j].id = ordersArray[j].id
          /\ ordersArray'[i].status = 1
      BY <1>4, <2>1, <2>3, <2>4, OrderTaken
    <2>6. i \in Undelivered
      BY <2>4 DEF Undelivered
    <2>7. \A b \in AtWork : b # c => orderIndex[b] # i
      BY <1>1, <2>2, <2>4, OwnOrder
    <2>8. orderIndex'[c] = i /\ \A b \in Chefs : b # c => orderIndex'[b] = orderIndex[b]
      BY <1>4, <2>1, <2>3
    <2>9. StatusAt("slot") = 1
      BY DEF StatusAt
    <2>a. /\ OrdersRight /\ BagsRight /\ numOrders > 0 /\ c \notin asleep
          /\ asleep' \subseteq asleep /\ i \in Used /\ i \in Undelivered
          /\ chef' = [chef EXCEPT ![c] = "slot"]
          /\ \A b \in Chefs : b # c => orderIndex'[b] = orderIndex[b]
          /\ "slot" \notin {"order", "log"} => orderIndex'[c] = i /\ ordersArray'[i].status = StatusAt("slot")
          /\ \A b \in AtWork : b # c => orderIndex[b] # i
          /\ \A j \in Indices : /\ j # i => ordersArray'[j] = ordersArray[j]
                                /\ ordersArray'[j].id = ordersArray[j].id
          /\ ordersArray[i].status # 4 /\ ordersArray'[i].status # 0
          /\ UNCHANGED <<numOrders, deliveredOrders, max_order, bag>>
      <3>1. /\ chef' = [chef EXCEPT ![c] = "slot"] /\ asleep' \subseteq asleep
            /\ ordersArray[i].status # 4 /\ ordersArray'[i].status # 0
        <4>1. ordersArray[i].status = 0 /\ ordersArray'[i].status = 1
          BY <2>4, <2>5
        <4>2. chef' = [chef EXCEPT ![c] = "slot"] /\ asleep' = asleep
          BY <2>1
        <4> QED
          BY <4>1, <4>2
      <3>2. orderIndex'[c] = i /\ ordersArray'[i].status = StatusAt("slot")
        BY <2>5, <2>8, <2>9
      <3> QED
        BY <1>1, <1>2, <2>2, <2>4, <2>5, <2>6, <2>7, <2>8, <3>1, <3>2
    <2>10. OrdersRight' /\ BagsRight'
      BY <2>a, Worked
    <2> QED
      BY <1>3, <2>10 DEF CalmInv
  <1>8. ASSUME NEW from, NEW to, from \notin {"order", "log"}, to \notin {"order", "log"},
               ChefGoes(c, from, to),
               asleep' \subseteq asleep, UNCHANGED orderIndex,
               \/ UNCHANGED ordersArray /\ StatusAt(to) = StatusAt(from)
               \/ SetStatus(orderIndex[c], 2) /\ StatusAt(to) = 2
        PROVE  CalmInv'
    <2> DEFINE i == orderIndex[c]
    <2>1. chef[c] = from /\ chef' = [chef EXCEPT ![c] = to] /\ c \in AtWork /\ numOrders > 0
      BY <1>5, <1>8 DEF ChefGoes
    <2>2. /\ i \in Used /\ i \in Indices /\ i \in Undelivered
          /\ ordersArray[i].status = StatusAt(from) /\ ordersArray[i].status \in {1, 2}
          /\ \A b \in AtWork : b # c => orderIndex[b] # i
      BY <1>1, <2>1, OwnOrder
    <2> HIDE DEF i
    <2>3. /\ \A j \in Indices : /\ j # i => ordersArray'[j] = ordersArray[j]
                                /\ ordersArray'[j].id = ordersArray[j].id
          /\ ordersArray'[i].status = StatusAt(to)
      <3>1. CASE UNCHANGED ordersArray /\ StatusAt(to) = StatusAt(from)
        BY <2>2, <3>1
      <3>2. CASE SetStatus(orderIndex[c], 2) /\ StatusAt(to) = 2
        BY <1>4, <2>2, <3>2, StatusSet DEF i
      <3> QED
        BY <1>8, <3>1, <3>2
    <2>4. StatusAt(to) # 0
      BY DEF StatusAt
    <2>5. orderIndex'[c] = i /\ \A b \in Chefs : orderIndex'[b] = orderIndex[b]
      BY <1>8 DEF i
    <2>a. /\ OrdersRight /\ BagsRight /\ numOrders > 0 /\ c \notin asleep
          /\ asleep' \subseteq asleep /\ i \in Used /\ i \in Undelivered
          /\ chef' = [chef EXCEPT ![c] = to]
          /\ \A b \in Chefs : b # c => orderIndex'[b] = orderIndex[b]
          /\ to \notin {"order", "log"} => /\ orderIndex'[c] = i
                                          /\ ordersArray'[i].status = StatusAt(to)
          /\ \A b \in AtWork : b # c => orderIndex[b] # i
          /\ \A j \in Indices : /\ j # i => ordersArray'[j] = ordersArray[j]
                                /\ ordersArray'[j].id = ordersArray[j].id
          /\ ordersArray[i].status # 4 /\ ordersArray'[i].status # 0
          /\ UNCHANGED <<numOrders, deliveredOrders, max_order, bag>>
      BY <1>1, <1>2, <1>8, <2>1, <2>2, <2>3, <2>4, <2>5
    <2>6. OrdersRight' /\ BagsRight'
      BY <2>a, Worked
    <2> QED
      BY <1>3, <2>6 DEF CalmInv
  <1>9. CASE TakeSlot(c) /\ ~Sleep(c)
    BY <1>8, <1>9 DEF TakeSlot, StatusAt, orderVars
  <1>10. CASE TakePeel(c) /\ ~Sleep(c)
    BY <1>8, <1>10 DEF TakePeel, StatusAt, orderVars
  <1>11. CASE PlaceInOven(c) /\ ~Sleep(c)
    BY <1>8, <1>11 DEF PlaceInOven, StatusAt
  <1>12. CASE TakeOut(c)
    BY <1>8, <1>12, Signalled DEF TakeOut, StatusAt, orderVars
  <1>13. CASE FreeSlot(c)
    BY <1>8, <1>13, Signalled DEF FreeSlot, StatusAt, orderVars
  <1>14. CASE FreePeel(c)
    BY <1>8, <1>14, Signalled DEF FreePeel, StatusAt, orderVars
  <1>15. CASE Ready(c)
    <2> DEFINE i == orderIndex[c]
    <2>1. /\ chef[c] = "ready" /\ chef' = [chef EXCEPT ![c] = "log"]
          /\ SetStatus(i, 3) /\ asleep' \subseteq asleep /\ orderIndex' = orderIndex
      BY <1>15, Signalled DEF Ready, ChefGoes
    <2>2. c \in AtWork /\ numOrders > 0
      BY <1>5, <2>1
    <2>3. /\ i \in Used /\ i \in Indices /\ i \in Undelivered
          /\ ordersArray[i].status \in {1, 2}
          /\ \A b \in AtWork : b # c => orderIndex[b] # i
      BY <1>1, <2>2, OwnOrder
    <2> HIDE DEF i
    <2>4. /\ \A j \in Indices : /\ j # i => ordersArray'[j] = ordersArray[j]
                                /\ ordersArray'[j].id = ordersArray[j].id
          /\ ordersArray'[i].status = 3
      BY <1>4, <2>1, <2>3, StatusSet
    <2>5. \A b \in Chefs : b # c => orderIndex'[b] = orderIndex[b]
      BY <1>4, <2>1
    <2>a. /\ OrdersRight /\ BagsRight /\ numOrders > 0 /\ c \notin asleep
          /\ asleep' \subseteq asleep /\ i \in Used /\ i \in Undelivered
          /\ chef' = [chef EXCEPT ![c] = "log"]
          /\ \A b \in Chefs : b # c => orderIndex'[b] = orderIndex[b]
          /\ "log" \notin {"order", "log"} => /\ orderIndex'[c] = i
                                             /\ ordersArray'[i].status = StatusAt("log")
          /\ \A b \in AtWork : b # c => orderIndex[b] # i
          /\ \A j \in Indices : /\ j # i => ordersArray'[j] = ordersArray[j]
                                /\ ordersArray'[j].id = ordersArray[j].id
          /\ ordersArray[i].status # 4 /\ ordersArray'[i].status # 0
          /\ UNCHANGED <<numOrders, deliveredOrders, max_order, bag>>
      BY <1>1, <1>2, <2>1, <2>2, <2>3, <2>4, <2>5
    <2>6. OrdersRight' /\ BagsRight'
      BY <2>a, Worked
    <2> QED
      BY <1>3, <2>6 DEF CalmInv
  <1>16. CASE LogReady(c)
    BY <1>1, <1>3, <1>16, LogKeepsOrders DEF CalmInv
  <1>17. CASE Look(c, Offered)
    BY <1>1, <1>2, <1>3, <1>17, OrdersAlone DEF CalmInv, Look, chefVars
  <1> QED
    BY <1>6, <1>7, <1>9, <1>10, <1>11, <1>12, <1>13, <1>14, <1>15, <1>16, <1>17 DEF ChefStep

-----------------------------------------------------------------------------
(* A deliverer takes what is baked; each order goes into one bag, once.    *)
LEMMA CollectKeeps ==
  ASSUME TypeOK, KitchenExact, CalmInv, NEW d \in Deliverers, Collect(d), ~Sleep(d),
         ~Look(d, Bagful)
  PROVE  CalmInv'
  <1>1. CustomerRight /\ OrdersRight /\ BagsRight /\ NumbersRight
    BY DEF CalmInv
  <1>2. /\ UNCHANGED <<main, backlog, client, numOrders, new_max_order, max_order, received,
                       allOrders, customerCount, deliveredOrders, chef, orderIndex, asleep>>
        /\ numOrders # 0
    BY DEF Collect, mainVars, clientVars, chefVars
  <1>3. numOrders > 0
    BY <1>1, <1>2 DEF OrdersRight, TypeOK
  <1>4. CustomerRight' /\ NumbersRight'
    BY <1>1, <1>2, CustomersAlone
  <1>5. /\ Used' = Used /\ Used \subseteq Indices /\ AtWork' = AtWork
        /\ AwaitOrders' = AwaitOrders
    BY <1>2, Parameters DEF Used, AtWork, AwaitOrders, ChefsAt
  <1>6. /\ Bagful \subseteq Used
        /\ \A i \in Indices : /\ ordersArray'[i].id = ordersArray[i].id
                              /\ ordersArray'[i].offered = ordersArray[i].offered
                              /\ i \notin Bagful => ordersArray'[i] = ordersArray[i]
                              /\ i \in Bagful => ordersArray'[i].status = 4
    BY Collected
  <1>7. \A i \in Bagful : i \in Used /\ ordersArray[i].status = 3 /\ i \in Undelivered
    BY <1>6 DEF Bagful, Baked, Undelivered
  <1>8. Undelivered' = Undelivered /\ Undelivered \subseteq Indices
    BY <1>5, <1>6, <1>7 DEF Undelivered
  <1>9. ASSUME NEW c \in AtWork'
        PROVE  /\ orderIndex'[c] \in Used'
               /\ ordersArray'[orderIndex'[c]].status = StatusAt(chef'[c])
    <2>1. /\ orderIndex[c] \in Used /\ orderIndex[c] \in Indices
          /\ ordersArray[orderIndex[c]].status = StatusAt(chef[c])
          /\ ordersArray[orderIndex[c]].status \in {1, 2}
      BY <1>1, <1>3, <1>5, OwnOrder
    <2>2. orderIndex[c] \notin Bagful
      BY <1>7, <2>1
    <2> QED
      BY <1>2, <1>5, <1>6, <2>1, <2>2
  <1>10. OrdersRight'
    <2>1. /\ numOrders' + deliveredOrders' = max_order' /\ numOrders' >= 0 /\ numOrders' # 0
          /\ Cardinality(Undelivered') = numOrders'
          /\ \A i, j \in Undelivered' : ordersArray'[i].id = ordersArray'[j].id => i = j
      BY <1>1, <1>2, <1>3, <1>6, <1>8 DEF OrdersRight
    <2>2. \A b, c \in AtWork' : orderIndex'[b] = orderIndex'[c] => b = c
      BY <1>1, <1>2, <1>3, <1>5 DEF OrdersRight
    <2>3. asleep' \cap AwaitOrders' = {}
      BY <1>1, <1>2, <1>3, <1>5 DEF OrdersRight
    <2> QED
      BY <1>9, <2>1, <2>2, <2>3 DEF OrdersRight
  <1>11. /\ \A e \in Deliverers : e # d => bag'[e] = bag[e]
         /\ DOMAIN bag'[d] = 1 .. Cardinality(Bagful)
         /\ \A n \in 1 .. Cardinality(Bagful) :
              /\ bag'[d][n] = ordersArray[Nth(Bagful, n)].id
              /\ Nth(Bagful, n) \in Bagful
         /\ \A n, m \in 1 .. Cardinality(Bagful) : Nth(Bagful, n) = Nth(Bagful, m) => n = m
    <2>1. /\ \A e \in Deliverers : e # d => bag'[e] = bag[e]
          /\ DOMAIN bag'[d] = 1 .. Cardinality(Bagful)
          /\ \A n \in 1 .. Cardinality(Bagful) : bag'[d][n] = ordersArray[Nth(Bagful, n)].id
      BY Collected
    <2>2. /\ \A n \in 1 .. Cardinality(Bagful) : Nth(Bagful, n) \in Bagful
          /\ \A n, m \in 1 .. Cardinality(Bagful) : Nth(Bagful, n) = Nth(Bagful, m) => n = m
      BY BagfulFacts, NthFacts
    <2> QED
      BY <2>1, <2>2
  <1>12. ASSUME NEW e \in Deliverers, e # d, NEW n \in DOMAIN bag'[e]
         PROVE  \E i \in Used : /\ ordersArray[i].status = 4
                                /\ ordersArray[i].id = bag'[e][n]
    BY <1>1, <1>11, <1>12 DEF BagsRight
  <1>13. ASSUME NEW e \in Deliverers, NEW n \in DOMAIN bag'[e]
         PROVE  \E i \in Used' : /\ ordersArray'[i].status = 4
                                 /\ ordersArray'[i].id = bag'[e][n]
    <2>1. CASE e = d
      <3>1. PICK i \in Bagful : bag'[d][n] = ordersArray[i].id
        BY <1>11, <1>13, <2>1
      <3>2. i \in Used' /\ ordersArray'[i].status = 4 /\ ordersArray'[i].id = ordersArray[i].id
        BY <1>5, <1>6, <1>7, <3>1
      <3> QED
        BY <2>1, <3>1, <3>2
    <2>2. CASE e # d
      <3>1. PICK i \in Used : ordersArray[i].status = 4 /\ ordersArray[i].id = bag'[e][n]
        BY <1>12, <2>2
      <3>2. i \notin Bagful /\ i \in Indices
        BY <1>5, <1>7, <3>1
      <3> QED
        BY <1>5, <1>6, <3>1, <3>2
    <2> QED
      BY <2>1, <2>2
  <1>14. ASSUME NEW n \in DOMAIN bag'[d], NEW e \in Deliverers, e # d,
                NEW m \in DOMAIN bag'[e]
         PROVE  bag'[d][n] # bag'[e][m]
    <2>1. PICK i \in Bagful : bag'[d][n] = ordersArray[i].id
      BY <1>11
    <2>2. PICK j \in Used : ordersArray[j].status = 4 /\ ordersArray[j].id = bag'[e][m]
      BY <1>12, <1>14
    <2>3. i \in Undelivered /\ j \in Undelivered /\ i # j
      BY <1>7, <2>2 DEF Undelivered
    <2> QED
      BY <1>1, <1>3, <2>1, <2>2, <2>3 DEF OrdersRight
  <1>15. ASSUME NEW e \in Deliverers, NEW f \in Deliverers,
                NEW n \in DOMAIN bag'[e], NEW m \in DOMAIN bag'[f], bag'[e][n] = bag'[f][m]
         PROVE  e = f /\ n = m
    <2>1. CASE e = d /\ f = d
      <3>1. n \in 1 .. Cardinality(Bagful) /\ m \in 1 .. Cardinality(Bagful)
        BY <1>11, <2>1
      <3>2. /\ Nth(Bagful, n) \in Undelivered /\ Nth(Bagful, m) \in Undelivered
            /\ ordersArray[Nth(Bagful, n)].id = ordersArray[Nth(Bagful, m)].id
        BY <1>7, <1>11, <1>15, <2>1, <3>1
      <3>3. Nth(Bagful, n) = Nth(Bagful, m)
        BY <1>1, <1>3, <3>2 DEF OrdersRight
      <3> QED
        BY <1>11, <2>1, <3>1, <3>3
    <2>2. CASE e = d /\ f # d
      BY <1>14, <1>15, <2>2
    <2>3. CASE e # d /\ f = d
      BY <1>14, <1>15, <2>3
    <2>4. CASE e # d /\ f # d
      <3>1. bag'[e] = bag[e] /\ bag'[f] = bag[f]
        BY <1>11, <2>4
      <3> QED
        BY <1>1, <1>15, <3>1 DEF BagsRight
    <2> QED
      BY <2>1, <2>2, <2>3, <2>4
  <1>16. BagsRight'
    BY <1>13, <1>15 DEF BagsRight
  <1> QED
    BY <1>4, <1>10, <1>16 DEF CalmInv

(* What is left in the bags was there before, after the head of d's.       *)
LEMMA RestOfBags ==
  ASSUME TypeOK, NEW d \in Deliverers, HandOver(d)
  PROVE  /\ bag[d][1] = Head(bag[d]) /\ 1 \in DOMAIN bag[d]
         /\ \A e \in Deliverers : \A n \in DOMAIN bag'[e] :
              IF e = d THEN n + 1 \in DOMAIN bag[d] /\ n \in Nat \ {0} /\ bag'[e][n] = bag[d][n + 1]
                       ELSE n \in DOMAIN bag[e] /\ bag'[e][n] = bag[e][n]
  <1>1. /\ bag[d] # <<>> /\ bag[d] \in Seq(Nat) /\ bag'[d] = Tail(bag[d])
        /\ \A e \in Deliverers : e # d => bag'[e] = bag[e]
    BY HandedOver
  <1>2. /\ Head(bag[d]) = bag[d][1] /\ Len(bag[d]) \in Nat /\ Len(bag[d]) >= 1
        /\ Tail(bag[d]) \in Seq(Nat) /\ Len(Tail(bag[d])) = Len(bag[d]) - 1
        /\ \A n \in 1 .. Len(bag[d]) - 1 : Tail(bag[d])[n] = bag[d][n + 1]
    BY <1>1, TailFacts
  <1>3. DOMAIN bag[d] = 1 .. Len(bag[d]) /\ DOMAIN Tail(bag[d]) = 1 .. Len(bag[d]) - 1
    BY <1>1, <1>2
  <1>4. ASSUME NEW n \in DOMAIN bag'[d]
        PROVE  n + 1 \in DOMAIN bag[d] /\ n \in Nat \ {0} /\ bag'[d][n] = bag[d][n + 1]
    <2>1. n \in 1 .. Len(bag[d]) - 1
      BY <1>1, <1>3
    <2>2. n + 1 \in 1 .. Len(bag[d]) /\ n \in Nat \ {0}
      BY <1>2, <2>1
    <2> QED
      BY <1>1, <1>2, <1>3, <2>1, <2>2
  <1>5. 1 \in DOMAIN bag[d]
    BY <1>2, <1>3
  <1> QED
    BY <1>1, <1>2, <1>4, <1>5

(* The entry that is handed over: there is one, and it alone goes.         *)
LEMMA OneGoes ==
  ASSUME TypeOK, OrdersRight, BagsRight, NEW d \in Deliverers, HandOver(d)
  PROVE  /\ numOrders > 0
         /\ \E i \in Undelivered :
              /\ Undelivered' = Undelivered \ {i}
              /\ ordersArray[i].status = 4 /\ ordersArray[i].id = Head(bag[d])
              /\ \A j \in Undelivered \ {i} : /\ ordersArray[j].id # Head(bag[d])
                                              /\ ordersArray'[j] = ordersArray[j]
  <1>1. max_order' = max_order
    BY DEF HandOver
  <1>2. Used' = Used /\ Used \subseteq Indices
    BY <1>1, Parameters DEF Used
  <1>3. /\ \A i \in Used : ordersArray'[i] =
              IF ordersArray[i].id = Head(bag[d]) THEN Zeroed ELSE ordersArray[i]
        /\ bag[d] # <<>>
    BY <1>2, HandedOver
  <1>4. numOrders > 0
    BY <1>3 DEF OrdersRight, TypeOK
  <1>5. PICK i \in Used : ordersArray[i].status = 4 /\ ordersArray[i].id = Head(bag[d])
    BY RestOfBags DEF BagsRight
  <1>6. i \in Undelivered
    BY <1>5 DEF Undelivered
  <1>7. \A j \in Undelivered : j # i => ordersArray[j].id # Head(bag[d])
    BY <1>4, <1>5, <1>6 DEF OrdersRight
  <1>8. Zeroed.status = 0 /\ Zeroed.offered = FALSE
    BY EntryFacts
  <1>9. ASSUME NEW j \in Used
        PROVE  j \in Undelivered' <=> j \in Undelivered /\ j # i
    <2>1. CASE ordersArray[j].id = Head(bag[d])
      <3>1. ordersArray'[j] = Zeroed
        BY <1>3, <2>1
      <3>2. j \notin Undelivered'
        BY <1>8, <3>1 DEF Undelivered
      <3>3. ~(j \in Undelivered /\ j # i)
        BY <1>7, <2>1
      <3> QED
        BY <3>2, <3>3
    <2>2. CASE ordersArray[j].id # Head(bag[d])
      <3>1. ordersArray'[j] = ordersArray[j] /\ j # i
        BY <1>3, <1>5, <2>2
      <3> QED
        BY <1>2, <3>1 DEF Undelivered
    <2> QED
      BY <2>1, <2>2
  <1>10. Undelivered \subseteq Used /\ Undelivered' \subseteq Used
    BY <1>2 DEF Undelivered
  <1>11. Undelivered' = Undelivered \ {i}
    BY <1>9, <1>10
  <1>12. \A j \in Undelivered \ {i} : ordersArray'[j] = ordersArray[j]
    BY <1>3, <1>7, <1>10
  <1> QED
    BY <1>4, <1>5, <1>6, <1>7, <1>11, <1>12

LEMMA HandOverKeepsBags ==
  ASSUME TypeOK, OrdersRight, BagsRight, NEW d \in Deliverers, HandOver(d)
  PROVE  BagsRight'
  <1>1. PICK i \in Undelivered :
              /\ Undelivered' = Undelivered \ {i}
              /\ ordersArray[i].status = 4 /\ ordersArray[i].id = Head(bag[d])
              /\ \A j \in Undelivered \ {i} : /\ ordersArray[j].id # Head(bag[d])
                                              /\ ordersArray'[j] = ordersArray[j]
    BY OneGoes
  <1>2. Used' = Used
    BY DEF HandOver, Used
  <1>3. /\ bag[d][1] = Head(bag[d]) /\ 1 \in DOMAIN bag[d]
        /\ \A e \in Deliverers : \A n \in DOMAIN bag'[e] :
              IF e = d THEN n + 1 \in DOMAIN bag[d] /\ n \in Nat \ {0} /\ bag'[e][n] = bag[d][n + 1]
                       ELSE n \in DOMAIN bag[e] /\ bag'[e][n] = bag[e][n]
    BY RestOfBags
  <1> DEFINE Place(e, n) == IF e = d THEN n + 1 ELSE n
  <1>4. ASSUME NEW e \in Deliverers, NEW n \in DOMAIN bag'[e]
        PROVE  /\ Place(e, n) \in DOMAIN bag[e] /\ bag'[e][n] = bag[e][Place(e, n)]
               /\ e = d => Place(e, n) # 1 /\ Place(e, n) = n + 1 /\ n \in Nat
               /\ e # d => Place(e, n) = n
    <2>1. CASE e = d
      <3>1. n + 1 \in DOMAIN bag[d] /\ n \in Nat \ {0} /\ bag'[e][n] = bag[d][n + 1]
        BY <1>3, <2>1
      <3>2. n + 1 # 1
        BY <3>1
      <3> QED
        BY <2>1, <3>1, <3>2
    <2>2. CASE e # d
      BY <1>3, <2>2
    <2> QED
      BY <2>1, <2>2
  <1> HIDE DEF Place
  <1>5. ASSUME NEW e \in Deliverers, NEW n \in DOMAIN bag'[e]
        PROVE  bag'[e][n] # Head(bag[d])
    BY <1>3, <1>4 DEF BagsRight
  <1>6. ASSUME NEW e \in Deliverers, NEW n \in DOMAIN bag'[e]
        PROVE  \E j \in Used' : /\ ordersArray'[j].status = 4
                                /\ ordersArray'[j].id = bag'[e][n]
    <2>1. PICK j \in Used : ordersArray[j].status = 4 /\ ordersArray[j].id = bag'[e][n]
      BY <1>4 DEF BagsRight
    <2>2. j \in Undelivered \ {i}
      BY <1>1, <1>5, <2>1 DEF Undelivered
    <2> QED
      BY <1>1, <1>2, <2>1, <2>2
  <1>7. ASSUME NEW e \in Deliverers, NEW f \in Deliverers,
               NEW n \in DOMAIN bag'[e], NEW m \in DOMAIN bag'[f], bag'[e][n] = bag'[f][m]
        PROVE  e = f /\ n = m
    <2>1. e = f /\ Place(e, n) = Place(f, m)
      BY <1>4, <1>7 DEF BagsRight
    <2>2. CASE e = d
      <3>1. n + 1 = m + 1 /\ n \in Nat /\ m \in Nat
        BY <1>4, <2>1, <2>2
      <3> QED
        BY <2>1, <3>1
    <2>3. CASE e # d
      BY <1>4, <2>1, <2>3
    <2> QED
      BY <2>1, <2>2, <2>3
  <1> QED
    BY <1>6, <1>7 DEF BagsRight

LEMMA HandOverKeepsOrders ==
  ASSUME TypeOK, OrdersRight, BagsRight, NEW d \in Deliverers, HandOver(d)
  PROVE  /\ OrdersRight' /\ numOrders > 0 /\ numOrders' = numOrders - 1
         /\ AllDelivered <=> numOrders = 1
  <1>1. /\ UNCHANGED <<max_order, chef, orderIndex, asleep>> /\ numOrders' = numOrders - 1
        /\ deliveredOrders' = IF AllDelivered THEN 0 ELSE deliveredOrders + 1
    BY DEF HandOver, chefVars
  <1>2. numOrders > 0 /\ numOrders \in Int /\ deliveredOrders \in Nat /\ max_order \in Int
    BY OneGoes DEF TypeOK
  <1>3. PICK i \in Undelivered :
              /\ Undelivered' = Undelivered \ {i}
              /\ ordersArray[i].status = 4
              /\ \A j \in Undelivered \ {i} : ordersArray'[j] = ordersArray[j]
    BY OneGoes
  <1>4. /\ numOrders + deliveredOrders = max_order
        /\ Cardinality(Undelivered) = numOrders
        /\ \A j, k \in Undelivered : ordersArray[j].id = ordersArray[k].id => j = k
        /\ \A b, c \in AtWork : orderIndex[b] = orderIndex[c] => b = c
        /\ asleep \cap AwaitOrders = {}
    BY <1>2 DEF OrdersRight
  <1>5. AllDelivered <=> numOrders = 1
    BY <1>2, <1>4 DEF AllDelivered
  <1>6. Undelivered \subseteq Used /\ IsFiniteSet(Undelivered)
    <2>1. Undelivered \subseteq Used
      BY DEF Undelivered
    <2> QED
      BY <2>1, NotMore, Parameters
  <1>7. /\ Cardinality(Undelivered') = numOrders' /\ IsFiniteSet(Undelivered')
        /\ Undelivered' \subseteq Undelivered
    <2>1. /\ Cardinality(Undelivered \ {i}) = Cardinality(Undelivered) - 1
          /\ IsFiniteSet(Undelivered \ {i})
      BY <1>6, OneLess
    <2> QED
      BY <1>1, <1>3, <1>4, <2>1
  <1>8. /\ Used' = Used /\ AtWork' = AtWork /\ AwaitOrders' = AwaitOrders
    BY <1>1 DEF Used, AtWork, AwaitOrders, ChefsAt, HandOver, delivererVars
  <1>9. ASSUME NEW c \in AtWork
        PROVE  /\ orderIndex[c] \in Used /\ orderIndex[c] \in Undelivered'
               /\ ordersArray'[orderIndex[c]].status = StatusAt(chef[c])
    <2>1. /\ orderIndex[c] \in Used /\ orderIndex[c] \in Undelivered
          /\ ordersArray[orderIndex[c]].status = StatusAt(chef[c])
          /\ ordersArray[orderIndex[c]].status \in {1, 2}
      BY <1>2, OwnOrder
    <2>2. orderIndex[c] # i
      BY <1>3, <2>1
    <2> QED
      BY <1>3, <2>1, <2>2
  <1>10. CASE numOrders = 1
    <2>1. numOrders' = 0 /\ deliveredOrders' = 0
      BY <1>1, <1>5, <1>10
    <2>2. Undelivered' = {}
      BY <1>7, <2>1, FS_EmptySet
    <2>3. AtWork' = {}
      BY <1>8, <1>9, <2>2
    <2>4. \A e \in Deliverers : bag'[e] = <<>>
      <3>1. ASSUME NEW e \in Deliverers, bag'[e] # <<>> PROVE FALSE
        <4>1. bag'[e] \in Seq(Nat)
          BY HandedOver
        <4>2. 1 \in DOMAIN bag'[e]
          BY <3>1, <4>1
        <4>3. PICK j \in Used' : ordersArray'[j].status = 4
          BY <4>2, HandOverKeepsBags DEF BagsRight
        <4>4. j \in Undelivered'
          BY <4>3 DEF Undelivered
        <4> QED
          BY <2>2, <4>4
      <3> QED
        BY <3>1
    <2> QED
      BY <1>1, <1>2, <1>5, <2>1, <2>3, <2>4 DEF OrdersRight
  <1>11. CASE numOrders # 1
    <2>1. numOrders' > 0 /\ numOrders' >= 0 /\ numOrders' # 0
          /\ numOrders' + deliveredOrders' = max_order'
      BY <1>1, <1>2, <1>4, <1>5, <1>11
    <2>2. \A j, k \in Undelivered' : ordersArray'[j].id = ordersArray'[k].id => j = k
      BY <1>3, <1>4
    <2>3. \A c \in AtWork' : /\ orderIndex'[c] \in Used'
                             /\ ordersArray'[orderIndex'[c]].status = StatusAt(chef'[c])
      BY <1>1, <1>8, <1>9
    <2>4. \A b, c \in AtWork' : orderIndex'[b] = orderIndex'[c] => b = c
      BY <1>1, <1>4, <1>8
    <2>5. asleep' \cap AwaitOrders' = {}
      BY <1>1, <1>4, <1>8
    <2> QED
      BY <1>1, <1>2, <1>5, <1>7, <2>1, <2>2, <2>3, <2>4, <2>5 DEF OrdersRight
  <1> QED
    BY <1>1, <1>2, <1>5, <1>10, <1>11

LEMMA HandOverKeeps ==
  ASSUME TypeOK, KitchenExact, CalmInv, trouble = {}, trouble' = {},
         NEW d \in Deliverers, HandOver(d)
  PROVE  /\ CalmInv'
         /\ AllDelivered => \E c \in Clients : /\ client[c] = "waiting"
                                               /\ client' = [client EXCEPT ![c] = "told"]
  <1>1. CustomerRight /\ OrdersRight /\ BagsRight /\ NumbersRight
    BY DEF CalmInv
  <1>2. /\ OrdersRight' /\ BagsRight' /\ numOrders > 0 /\ numOrders' = numOrders - 1
        /\ AllDelivered <=> numOrders = 1
    BY <1>1, HandOverKeepsOrders, HandOverKeepsBags
  <1>3. /\ UNCHANGED <<new_max_order, max_order, received, allOrders, customerCount>>
        /\ numOrders \in Int /\ client \in [Clients -> ClientSteps]
    BY TypeParts DEF HandOver, OrderType, ClientType
  <1>4. PICK c : c \in Present
    BY <1>1, <1>2 DEF CustomerRight
  <1>5. /\ Present = {c} /\ client[c] # "counted" /\ main \in {"listen", "count"}
        /\ backlog = <<>>
    BY <1>1, <1>2, <1>4, OnePresent
  <1>6. CASE ~AllDelivered
    <2>1. UNCHANGED <<main, backlog, client>> /\ numOrders' > 0
      BY <1>2, <1>3, <1>6 DEF HandOver
    <2>2. Present' = Present
      BY <2>1 DEF Present
    <2>3. CustomerRight'
      BY <1>5, <2>1, <2>2, OnePresentNext
    <2>4. NumbersRight'
      BY <1>1, <1>2, <1>3, <2>1, <2>2, TakenGrows DEF Taken
    <2> QED
      BY <1>2, <1>6, <2>3, <2>4 DEF CalmInv
  <1>7. CASE AllDelivered
    <2>1. sendNotification
      BY <1>7 DEF HandOver
    <2>2. trouble' # trouble \cup {"unheard"}
      OBVIOUS
    <2>3. PICK w \in AtClients \ {NULL} :
             /\ client' = [client EXCEPT ![w] = "told"]
             /\ trouble' = trouble \cup (IF client[w] = "told" THEN {"unheard"} ELSE {})
             /\ UNCHANGED <<main, backlog>>
      BY <2>1, <2>2 DEF sendNotification
    <2>4. w \in Clients /\ client[w] = "waiting" /\ w \in Present
      <3>1. w \in Open
        BY <2>3 DEF AtClients
      <3>2. client[w] # "told"
        BY <2>3
      <3> QED
        BY <3>1, <3>2 DEF Open, Present
    <2>5. w = c /\ \A b \in Clients : client'[b] = IF b = w THEN "told" ELSE client[b]
      BY <1>3, <1>5, <2>3, <2>4
    <2>6. Present' = {}
      BY <1>5, <2>5 DEF Present
    <2>7. numOrders' = 0
      BY <1>2, <1>7
    <2>8. CustomerRight'
      BY <1>5, <2>3, <2>6, <2>7 DEF CustomerRight
    <2>9. \A b \in Taken : b \in Taken'
      BY <2>5, <2>6 DEF Taken
    <2>10. NumbersRight'
      BY <1>1, <1>3, <2>9, TakenGrows
    <2> QED
      BY <1>2, <2>3, <2>4, <2>8, <2>10 DEF CalmInv
  <1> QED
    BY <1>6, <1>7

-----------------------------------------------------------------------------
LEMMA TroubleStays ==
  ASSUME [Next]_vars, trouble' = {}
  PROVE  trouble = {}
  <1>1. CASE Main
    BY <1>1 DEF Main, Listen, AcceptCount, Reallocate, AcceptOrders, Install
  <1>2. CASE \E c \in Chefs : ChefStep(c)
    BY <1>2 DEF ChefStep, TakeOrder, TakeSlot, TakePeel, PlaceInOven, TakeOut, FreeSlot,
       FreePeel, Ready, LogReady, Look, Sleep
  <1>3. CASE \E d \in Deliverers : DelivererStep(d)
    BY <1>3 DEF DelivererStep, Collect, HandOver, Sleep, Look, sendNotification
  <1>4. CASE \E c \in Clients : SendCount(c) \/ ClientStep(c) \/ Cancel(c)
    BY <1>4 DEF SendCount, ClientStep, SendOrders, Connect, wait_for_notification, Cancel
  <1>5. CASE UNCHANGED vars
    BY <1>5 DEF vars
  <1> QED
    BY <1>1, <1>2, <1>3, <1>4, <1>5 DEF Next

LEMMA CalmInit == Init => CalmInv
  <1> SUFFICES ASSUME Init PROVE CalmInv
    OBVIOUS
  <1>1. Present = {} /\ AtWork = {} /\ \A d \in Deliverers : bag[d] = <<>>
    BY DEF Init, Present, AtWork
  <1>2. CustomerRight
    BY <1>1 DEF Init, CustomerRight
  <1>3. OrdersRight
    BY <1>1 DEF Init, OrdersRight
  <1>4. BagsRight
    BY <1>1 DEF BagsRight
  <1>5. NumbersRight
    <2> DEFINE k == Cardinality(Taken)
    <2>1. Taken \subseteq Clients
      BY DEF Taken
    <2>2. k \in Nat /\ MaxOrders \in Nat
      BY <2>1, NotMore, Parameters
    <2> HIDE DEF k
    <2>3. 0 <= k * MaxOrders
      BY <2>2
    <2> QED
      BY <2>3 DEF Init, NumbersRight, k
  <1> QED
    BY <1>2, <1>3, <1>4, <1>5 DEF CalmInv

LEMMA CalmStep ==
  ASSUME TypeOK, KitchenExact, CalmInv, trouble' = {}, [Next]_vars
  PROVE  CalmInv'
  <1>1. trouble = {}
    BY TroubleStays
  <1>2. CASE Main
    BY <1>1, <1>2, MainKeeps
  <1>3. CASE \E c \in Chefs : ChefStep(c)
    BY <1>3, ChefsKeep
  <1>4. CASE \E d \in Deliverers : DelivererStep(d)
    <2>1. PICK d \in Deliverers : DelivererStep(d)
      BY <1>4
    <2>2. CASE Sleep(d) /\ Collect(d)
      <3>1. CustomerRight /\ OrdersRight /\ BagsRight /\ NumbersRight /\ numOrders = 0
        <4>1. deliverer' = deliverer /\ deliverer[d] = "collect" /\ ordersMutex' = ordersMutex
          BY <2>2 DEF Collect, Sleep, delivererVars, orderVars
        <4>2. ~Look(d, Bagful)
          BY <4>1, Parameters DEF Look
        <4> QED
          BY <2>2, <4>1, <4>2 DEF CalmInv, Collect, TypeOK
      <3>2. OrdersRight' /\ BagsRight'
        BY <2>2, <3>1, SleepKeepsOrders
      <3>3. CustomerRight' /\ NumbersRight'
        BY <2>2, <3>1, CustomersAlone DEF Sleep, mainVars, orderVars, clientVars
      <3> QED
        BY <3>2, <3>3 DEF CalmInv
    <2>3. CASE Collect(d) /\ ~Sleep(d) /\ ~Look(d, Bagful)
      BY <2>3, CollectKeeps
    <2>4. CASE HandOver(d)
      BY <1>1, <2>4, HandOverKeeps
    <2>5. CASE Look(d, Bagful)
      BY <2>5, OrdersAlone, CustomersAlone
         DEF CalmInv, Look, mainVars, chefVars, delivererVars, clientVars
    <2> QED
      BY <2>1, <2>2, <2>3, <2>4, <2>5 DEF DelivererStep
  <1>5. CASE \E c \in Clients : SendCount(c) \/ ClientStep(c) \/ Cancel(c)
    BY <1>1, <1>5, ClientsKeep
  <1>6. CASE UNCHANGED vars
    <2>1. /\ UNCHANGED <<main, received, new_max_order, max_order, allOrders, backlog>>
          /\ UNCHANGED <<ordersArray, numOrders, deliveredOrders>>
          /\ UNCHANGED <<chef, orderIndex, bag, asleep, client, customerCount>>
      BY <1>6 DEF vars, mainVars, orderVars, chefVars, delivererVars, clientVars
    <2> QED
      BY <2>1, OrdersAlone, CustomersAlone DEF CalmInv
  <1> QED
    BY <1>2, <1>3, <1>4, <1>5, <1>6 DEF Next

(* The invariant of every run of the shop: the types, the kitchen that is  *)
(* counted right whatever the customers do (freeSlot, freePeel and the     *)
(* conditions in chefRoutine), and, until something troubles it, one       *)
(* customer at a time whose orders each have one owner.                    *)
THEOREM Invariance == Spec => []IInv
  <1>1. Init => IInv
    BY KitchenInit, CalmInit DEF IInv, CalmInv
  <1>2. IInv /\ [Next]_vars => IInv'
    <2> SUFFICES ASSUME IInv, [Next]_vars PROVE IInv'
      OBVIOUS
    <2>1. TypeOK /\ KitchenExact
      BY DEF IInv
    <2>2. TypeOK' /\ KitchenExact'
      BY <2>1, KitchenStep
    <2>3. ASSUME Calm' PROVE CustomerRight' /\ OrdersRight' /\ BagsRight' /\ NumbersRight'
      <3>1. trouble' = {} /\ trouble = {}
        BY <2>3, TroubleStays DEF Calm
      <3>2. CalmInv
        BY <3>1 DEF IInv, Calm, CalmInv
      <3> QED
        BY <2>1, <3>1, <3>2, CalmStep DEF CalmInv
    <2> QED
      BY <2>2, <2>3 DEF IInv
  <1> QED
    BY <1>1, <1>2, PTL DEF Spec

(* PideShop.c:397: as long as customers come one after the other and the   *)
(* network holds, nobody uses the array while main replaces it but a chef  *)
(* at the log line of an order that was delivered, and nobody sleeps while *)
(* there are orders.                                                       *)
THEOREM ArrayNotReplacedInUse == Spec => []ArrayUnused
  <1>1. IInv => ArrayUnused
    <2> SUFFICES ASSUME IInv, Calm PROVE
           /\ main = "alloc" =>
                /\ numOrders = 0 /\ Chefs_({"order", "log"}) = Chefs
                /\ \A d \in Deliverers : bag[d] = <<>>
           /\ numOrders > 0 => asleep \cap AwaitOrders = {}
      BY DEF ArrayUnused
    <2>1. CustomerRight /\ OrdersRight /\ numOrders \in Int
      BY DEF IInv, TypeOK
    <2>2. ASSUME main = "alloc"
          PROVE  /\ numOrders = 0 /\ Chefs_({"order", "log"}) = Chefs
                 /\ \A d \in Deliverers : bag[d] = <<>>
      <3>1. PICK c : c \in Present
        BY <2>1, <2>2 DEF CustomerRight
      <3>2. ~(numOrders > 0)
        BY <2>1, <2>2, <3>1, OnePresent
      <3>3. numOrders = 0
        BY <2>1, <3>2 DEF OrdersRight
      <3>4. AtWork = {} /\ \A d \in Deliverers : bag[d] = <<>>
        BY <2>1, <3>3 DEF OrdersRight
      <3>5. Chefs_({"order", "log"}) = Chefs
        BY <3>4 DEF Chefs_, AtWork
      <3> QED
        BY <3>3, <3>4, <3>5
    <2>3. numOrders > 0 => asleep \cap AwaitOrders = {}
      BY <2>1 DEF OrdersRight
    <2> QED
      BY <2>2, <2>3
  <1> QED
    BY <1>1, Invariance, PTL

-----------------------------------------------------------------------------
(* PideShop implements PideContract: what the contract sees of the shop.   *)
Baking == {i \in Used : \/ ordersArray[i].status \in {1, 2}
                        \/ ordersArray[i].status = 0 /\ ordersArray[i].offered}
Done == {i \in Used : ordersArray[i].status \in {3, 4}}
Ids(S) == {ordersArray[i].id : i \in S}
Served == {c \in Clients : client[c] \in {"told", "served"}}
todo == IF Calm /\ numOrders > 0
        THEN InShop({1, 2}) \cup {ordersArray[i].id : i \in Offered} ELSE {}
baked == IF Calm /\ numOrders > 0 THEN InShop({3, 4}) ELSE {}
served == IF Calm THEN Cardinality({c \in Clients : client[c] \in {"told", "served"}}) ELSE 0

LEMMA Seen ==
  /\ todo = IF Calm /\ numOrders > 0 THEN Ids(Baking) ELSE {}
  /\ baked = IF Calm /\ numOrders > 0 THEN Ids(Done) ELSE {}
  /\ served = IF Calm THEN Cardinality(Served) ELSE 0
  <1>1. InShop({1, 2}) \cup {ordersArray[i].id : i \in Offered} = Ids(Baking)
    BY DEF InShop, Ids, Baking, Offered
  <1>2. InShop({3, 4}) = Ids(Done)
    BY DEF InShop, Ids, Done
  <1> QED
    BY <1>1, <1>2 DEF todo, baked, served, Served

LEMMA SeenNext ==
  /\ todo' = IF Calm' /\ numOrders' > 0 THEN Ids(Baking)' ELSE {}
  /\ baked' = IF Calm' /\ numOrders' > 0 THEN Ids(Done)' ELSE {}
  /\ served' = IF Calm' THEN Cardinality(Served') ELSE 0
  <1>1. (InShop({1, 2}) \cup {ordersArray[i].id : i \in Offered})' = Ids(Baking)'
    BY DEF InShop, Ids, Baking, Offered
  <1>2. InShop({3, 4})' = Ids(Done)'
    BY DEF InShop, Ids, Done
  <1> QED
    BY <1>1, <1>2 DEF todo, baked, served, Served

LEMMA Stutters ==
  ASSUME Calm' = Calm, todo' = todo, baked' = baked, served' = served
  PROVE  UNCHANGED Contract!shopVars
  BY DEF Contract!shopVars, todo, baked, served

(* Outside the steps that move an order on, the contract sees nothing.     *)
LEMMA NothingSeen ==
  ASSUME Calm, Calm', Served' = Served,
         \/ numOrders = 0 /\ numOrders' = 0
         \/ numOrders' = numOrders /\ Ids(Baking)' = Ids(Baking) /\ Ids(Done)' = Ids(Done)
  PROVE  UNCHANGED Contract!shopVars
  <1>1. todo' = todo /\ baked' = baked /\ served' = served
    BY Seen, SeenNext
  <1>2. Calm' = Calm
    BY DEF Calm
  <1> QED
    BY <1>1, <1>2, Stutters

LEMMA SameOrders ==
  ASSUME UNCHANGED <<ordersArray, max_order>>
  PROVE  Ids(Baking)' = Ids(Baking) /\ Ids(Done)' = Ids(Done)
  BY DEF Ids, Baking, Done, Used

LEMMA ClientsUnseen ==
  ASSUME TypeOK, Calm, Calm', NEW c \in Clients, SendCount(c) \/ ClientStep(c) \/ Cancel(c)
  PROVE  UNCHANGED Contract!shopVars
  <1>1. UNCHANGED <<ordersArray, max_order, numOrders>>
    BY DEF SendCount, ClientStep, SendOrders, wait_for_notification, Cancel, Connect,
       mainVars, orderVars
  <1>2. client \in [Clients -> ClientSteps] /\ ~Cancel(c)
    BY TypeParts DEF ClientType, Cancel, Calm
  <1>3. ASSUME NEW k, NEW to \in {"counted", "ordered"}, NEW harm, Connect(c, k, to, harm),
               client[c] \in {"start", "counted"}
        PROVE  Served' = Served
    <2>1. \/ client' = [client EXCEPT ![c] = "failed"]
          \/ client' = [client EXCEPT ![c] = to]
      BY <1>3 DEF Connect, Calm
    <2> QED
      BY <1>2, <1>3, <2>1 DEF Served
  <1>4. Served' = Served
    <2>1. CASE SendCount(c)
      BY <1>3, <2>1 DEF SendCount
    <2>2. CASE SendOrders(c)
      BY <1>3, <2>2 DEF SendOrders
    <2>3. CASE wait_for_notification(c)
      BY <1>2, <2>3 DEF wait_for_notification, ClientGoes, Served
    <2> QED
      BY <1>2, <2>1, <2>2, <2>3 DEF ClientStep
  <1> QED
    BY <1>1, <1>4, SameOrders, NothingSeen

LEMMA InstallSeen ==
  ASSUME TypeOK, KitchenExact, CalmInv, CalmInv', Calm, Calm', Install
  PROVE  \E S \in SUBSET (0 .. Cardinality(Clients) * MaxOrders - 1) : Contract!Come(S)
  <1>1. main = "install" /\ UNCHANGED <<client, max_order>> /\ trouble' = {}
    BY DEF Install, clientVars, Calm
  <1>2. /\ ~(numOrders > 0) /\ Sent = Used /\ Cardinality(Used) = max_order
        /\ max_order \in 1 .. MaxOrders
    BY <1>1, AllCame DEF CalmInv
  <1>3. PICK offered \in BOOLEAN :
          /\ ordersArray' = [i \in Indices |-> IF i \in Used
                               THEN [id |-> allOrders + Rank(i, Used), status |-> 0,
                                     offered |-> i \in Used \/ offered]
                               ELSE ordersArray[i]]
          /\ allOrders' = allOrders + Cardinality(Used)
          /\ numOrders' = numOrders + Cardinality(Used)
    BY <1>1, <1>2, AllInstalled
  <1>4. /\ Used' = Used /\ Used \subseteq Indices /\ Used \subseteq Nat /\ IsFiniteSet(Used)
        /\ MaxOrders \in Nat \ {0}
    BY <1>1, Parameters DEF Used
  <1>5. \A i \in Used : /\ ordersArray'[i].id = allOrders + Rank(i, Used)
                        /\ ordersArray'[i].status = 0 /\ ordersArray'[i].offered = TRUE
    BY <1>3, <1>4
  <1>6. Baking' = Used /\ Done' = {}
    <2>1. \A i \in Used : /\ ordersArray'[i].status = 0 /\ ordersArray'[i].offered
                          /\ ordersArray'[i].status \notin {3, 4}
      BY <1>5
    <2> QED
      BY <1>4, <2>1 DEF Baking, Done
  <1>a. PICK S : S = {ordersArray'[i].id : i \in Used}
    OBVIOUS
  <1>7. numOrders' > 0 /\ numOrders = 0
    BY <1>2, <1>3, <1>4 DEF CalmInv, OrdersRight, TypeOK
  <1>8. /\ todo = {} /\ baked = {} /\ todo' = S /\ baked' = {} /\ served' = served
    <2>1. Ids(Baking)' = S /\ Ids(Done)' = {}
      BY <1>6, <1>a DEF Ids
    <2>2. Served' = Served
      BY <1>1 DEF Served
    <2> QED
      BY <1>7, <2>1, <2>2, Seen, SeenNext
  <1>9. 0 \in Used
    BY <1>2, <1>4 DEF Used, Indices
  <1>10. S # {}
    BY <1>9, <1>a
  <1>11. S \subseteq 0 .. Cardinality(Clients) * MaxOrders - 1
    <2>1. ASSUME NEW i \in Used
          PROVE  ordersArray'[i].id \in 0 .. Cardinality(Clients) * MaxOrders - 1
      <3> DEFINE k == Cardinality(Taken')
                 m == Cardinality(Clients)
                 r == Rank(i, Used)
      <3>1. r \in Nat /\ r < max_order /\ ordersArray'[i].id = allOrders + r
        BY <1>2, <1>4, <1>5, RankFacts
      <3>2. Taken' \subseteq Clients
        BY DEF Taken
      <3>3. k \in Nat /\ m \in Nat /\ k <= m
        BY <3>2, NotMore, Parameters
      <3>4. allOrders' <= k * MaxOrders /\ allOrders' = allOrders + max_order
            /\ allOrders \in Nat /\ max_order \in Nat
        BY <1>2, <1>3, <1>4 DEF CalmInv, NumbersRight, TypeOK
      <3> HIDE DEF k, m, r
      <3>5. k * MaxOrders <= m * MaxOrders /\ k * MaxOrders \in Nat /\ m * MaxOrders \in Nat
        BY <1>4, <3>3
      <3>6. allOrders + r \in 0 .. m * MaxOrders - 1
        BY <3>1, <3>4, <3>5
      <3> QED
        BY <3>1, <3>6 DEF m
    <2> QED
      BY <2>1, <1>a
  <1>12. Contract!Come(S)
    BY <1>8, <1>10 DEF Contract!Come, todo, baked, served, Calm
  <1>13. S \in SUBSET (0 .. Cardinality(Clients) * MaxOrders - 1)
    BY <1>11
  <1> QED
    BY <1>12, <1>13

LEMMA ChefSeen ==
  ASSUME TypeOK, CalmInv, Calm, Calm', NEW c \in Chefs, ChefStep(c)
  PROVE  UNCHANGED Contract!shopVars \/ \E o \in todo : Contract!Bake(o)
  <1>1. UNCHANGED <<client, numOrders, max_order>>
    BY DEF ChefStep, TakeOrder, TakeSlot, TakePeel, PlaceInOven, TakeOut, FreeSlot,
           FreePeel, Ready, LogReady, Look, Sleep, mainVars, orderVars, clientVars
  <1>2. /\ Served' = Served /\ Used' = Used /\ Used \subseteq Indices
        /\ OrdersRight /\ ordersArray \in [Indices -> Entries]
    BY <1>1, Parameters DEF Served, Used, CalmInv, TypeOK
  <1>3. CASE UNCHANGED ordersArray
    BY <1>1, <1>2, <1>3, SameOrders, NothingSeen
  <1>4. ASSUME NEW i \in Indices, i \in Baking, ordersArray'[i].status \in {1, 2},
               \A j \in Indices : /\ j # i => ordersArray'[j] = ordersArray[j]
                                  /\ ordersArray'[j].id = ordersArray[j].id
        PROVE  UNCHANGED Contract!shopVars
    <2>1. i \notin Done /\ i \notin Done' /\ i \in Baking'
      BY <1>2, <1>4 DEF Baking, Done
    <2>2. Baking' = Baking /\ Done' = Done
      BY <1>2, <1>4, <2>1 DEF Baking, Done
    <2>3. Baking \subseteq Indices /\ Done \subseteq Indices
      BY <1>2 DEF Baking, Done
    <2>4. Ids(Baking)' = Ids(Baking) /\ Ids(Done)' = Ids(Done)
      BY <1>4, <2>2, <2>3 DEF Ids
    <2> QED
      BY <1>1, <1>2, <2>4, NothingSeen
  <1>5. chef[c] \notin {"order", "log"} => c \in AtWork /\ numOrders > 0
    BY <1>2 DEF AtWork, OrdersRight, TypeOK
  <1>6. CASE TakeOrder(c) /\ ~Sleep(c) /\ ~Look(c, Offered)
    <2>1. /\ Offered # {}
          /\ ordersArray' = [ordersArray EXCEPT ![First(Offered)].status = 1,
                                                ![First(Offered)].offered = FALSE]
      BY <1>6 DEF TakeOrder
    <2>2. PICK i : i = First(Offered)
      OBVIOUS
    <2>3. i \in Indices /\ i \in Baking
      BY <2>1, <2>2, OfferedFacts DEF Offered, Baking
    <2>4. /\ \A j \in Indices : /\ j # i => ordersArray'[j] = ordersArray[j]
                                /\ ordersArray'[j].id = ordersArray[j].id
          /\ ordersArray'[i].status = 1
      BY <1>2, <2>1, <2>2, <2>3, OrderTaken
    <2> QED
      BY <1>4, <2>3, <2>4
  <1>7. CASE PlaceInOven(c) /\ ~Sleep(c)
    <2>1. chef[c] = "oven" /\ SetStatus(orderIndex[c], 2)
      BY <1>7 DEF PlaceInOven
    <2>2. PICK i : i = orderIndex[c]
      OBVIOUS
    <2>3. i \in Indices /\ i \in Baking
      BY <1>2, <1>5, <2>1, <2>2, OwnOrder DEF Baking
    <2>4. /\ \A j \in Indices : /\ j # i => ordersArray'[j] = ordersArray[j]
                                /\ ordersArray'[j].id = ordersArray[j].id
          /\ ordersArray'[i].status = 2
      BY <1>2, <2>1, <2>2, <2>3, StatusSet
    <2> QED
      BY <1>4, <2>3, <2>4
  <1>8. CASE Ready(c)
    <2>1. chef[c] = "ready" /\ SetStatus(orderIndex[c], 3)
      BY <1>8 DEF Ready, ChefGoes
    <2>2. PICK i : i = orderIndex[c]
      OBVIOUS
    <2>3. /\ i \in Indices /\ i \in Used /\ i \in Baking /\ i \in Undelivered
          /\ ordersArray[i].status \in {1, 2} /\ numOrders > 0
      BY <1>2, <1>5, <2>1, <2>2, OwnOrder DEF Baking
    <2>4. /\ \A j \in Indices : /\ j # i => ordersArray'[j] = ordersArray[j]
                                /\ ordersArray'[j].id = ordersArray[j].id
          /\ ordersArray'[i].status = 3
      BY <1>2, <2>1, <2>2, <2>3, StatusSet
    <2>5. i \notin Baking' /\ i \in Done'
      BY <1>2, <2>3, <2>4 DEF Baking, Done
    <2>6. Baking' = Baking \ {i} /\ Done' = Done \cup {i}
      BY <1>2, <2>3, <2>4, <2>5 DEF Baking, Done
    <2>7. PICK o : o = ordersArray[i].id
      OBVIOUS
    <2>8. Baking \subseteq Undelivered /\ Baking \subseteq Indices /\ Done \subseteq Indices
      BY <1>2 DEF Baking, Done, Undelivered
    <2>9. \A j \in Baking : j # i => ordersArray[j].id # o
      BY <1>2, <2>3, <2>7, <2>8 DEF OrdersRight
    <2>10. /\ Ids(Baking)' = Ids(Baking) \ {o} /\ o \in Ids(Baking)
           /\ Ids(Done)' = Ids(Done) \cup {o}
      BY <2>3, <2>4, <2>6, <2>7, <2>8, <2>9 DEF Ids
    <2>11. /\ o \in todo /\ todo' = todo \ {o} /\ baked' = baked \cup {o}
           /\ served' = served
      BY <1>1, <1>2, <2>3, <2>10, Seen, SeenNext
    <2>12. Contract!Bake(o)
      BY <2>11 DEF Contract!Bake, todo, baked, served, Calm
    <2> QED
      BY <2>11, <2>12
  <1>9. UNCHANGED ordersArray \/ (TakeOrder(c) /\ ~Sleep(c) /\ ~Look(c, Offered))
            \/ (PlaceInOven(c) /\ ~Sleep(c)) \/ Ready(c)
    BY DEF ChefStep, TakeOrder, TakeSlot, TakePeel, PlaceInOven, TakeOut, FreeSlot,
           FreePeel, Ready, LogReady, Look, Sleep, orderVars
  <1> QED
    BY <1>3, <1>6, <1>7, <1>8, <1>9

LEMMA CollectSeen ==
  ASSUME TypeOK, CalmInv, Calm, Calm', NEW d \in Deliverers, Collect(d)
  PROVE  UNCHANGED Contract!shopVars
  <1>1. UNCHANGED <<client, numOrders, max_order>>
    BY DEF Collect, Sleep, Look, mainVars, orderVars, clientVars
  <1>2. Served' = Served /\ Used' = Used /\ Used \subseteq Indices
    BY <1>1, Parameters DEF Served, Used
  <1>3. CASE Sleep(d) \/ Look(d, Bagful)
    BY <1>1, <1>2, <1>3, SameOrders, NothingSeen DEF Sleep, Look, orderVars
  <1>4. CASE ~Sleep(d) /\ ~Look(d, Bagful)
    <2>1. /\ \A i \in Indices : /\ ordersArray'[i].id = ordersArray[i].id
                                /\ i \notin Bagful => ordersArray'[i] = ordersArray[i]
                                /\ i \in Bagful => ordersArray'[i].status = 4
          /\ \A i \in Bagful : i \in Used /\ ordersArray[i].status = 3
      BY <1>4, Collected DEF Bagful, Baked
    <2>2. Baking' = Baking
      BY <1>2, <2>1 DEF Baking
    <2>3. Done' = Done
      BY <1>2, <2>1 DEF Done
    <2>4. Baking \subseteq Indices /\ Done \subseteq Indices
      BY <1>2 DEF Baking, Done
    <2>5. Ids(Baking)' = Ids(Baking) /\ Ids(Done)' = Ids(Done)
      BY <2>1, <2>2, <2>3, <2>4 DEF Ids
    <2> QED
      BY <1>1, <1>2, <2>5, NothingSeen
  <1> QED
    BY <1>3, <1>4

LEMMA HandOverSeen ==
  ASSUME TypeOK, KitchenExact, CalmInv, Calm, Calm', NEW d \in Deliverers, HandOver(d)
  PROVE  \E o \in baked : Contract!Deliver(o)
  <1>1. /\ OrdersRight /\ BagsRight /\ UNCHANGED max_order
        /\ trouble = {} /\ trouble' = {}
    BY DEF CalmInv, HandOver, Calm
  <1>2. /\ numOrders > 0 /\ numOrders \in Int /\ numOrders' = numOrders - 1
        /\ AllDelivered <=> numOrders = 1
    BY <1>1, HandOverKeepsOrders DEF TypeOK
  <1>3. PICK i \in Undelivered :
              /\ Undelivered' = Undelivered \ {i}
              /\ ordersArray[i].status = 4 /\ ordersArray[i].id = Head(bag[d])
              /\ \A j \in Undelivered \ {i} : /\ ordersArray[j].id # Head(bag[d])
                                              /\ ordersArray'[j] = ordersArray[j]
    BY <1>1, OneGoes
  <1>4. /\ Used' = Used /\ Used \subseteq Indices
        /\ ordersArray \in [Indices -> Entries] /\ ordersArray' \in [Indices -> Entries]
    BY <1>1, HandedOver, Parameters DEF Used, TypeOK
  <1>5. /\ Undelivered = Baking \cup Done /\ Undelivered' = Baking' \cup Done'
        /\ Baking \cap Done = {} /\ i \in Done
    <2>1. \A e \in Entries : e.status \in {0, 1, 2, 3, 4}
      BY DEF Entries
    <2>2. \A j \in Used : /\ ordersArray[j].status \in {0, 1, 2, 3, 4}
                          /\ ordersArray'[j].status \in {0, 1, 2, 3, 4}
      BY <1>4, <2>1
    <2>3. Undelivered = Baking \cup Done /\ Undelivered' = Baking' \cup Done'
      BY <1>4, <2>2 DEF Undelivered, Baking, Done
    <2> QED
      BY <1>3, <2>3 DEF Undelivered, Baking, Done
  <1>6. Baking' = Baking /\ Done' = Done \ {i}
    <2>1. \A j \in Undelivered \ {i} : (j \in Baking' <=> j \in Baking) /\ (j \in Done' <=> j \in Done)
      BY <1>3, <1>4 DEF Baking, Done, Undelivered
    <2>2. i \notin Baking' /\ i \notin Done' /\ i \notin Baking
      BY <1>3, <1>5
    <2> QED
      BY <1>3, <1>5, <2>1, <2>2
  <1>7. PICK o : o = Head(bag[d])
    OBVIOUS
  <1>8. /\ Ids(Done)' = Ids(Done) \ {o} /\ o \in Ids(Done)
        /\ Ids(Baking)' = Ids(Baking)
    <2>1. \A j \in Baking : ordersArray'[j].id = ordersArray[j].id
      BY <1>3, <1>5, <1>6
    <2>2. \A j \in Done \ {i} : ordersArray'[j].id = ordersArray[j].id /\ ordersArray[j].id # o
      BY <1>3, <1>5, <1>7
    <2> QED
      BY <1>3, <1>5, <1>6, <1>7, <2>1, <2>2 DEF Ids
  <1>9. /\ todo = Ids(Baking) /\ baked = Ids(Done)
        /\ served = Cardinality(Served) /\ served' = Cardinality(Served')
    BY <1>2, Seen, SeenNext
  <1>10. IsFiniteSet(Undelivered) /\ Cardinality(Undelivered) = numOrders
    <2>1. Undelivered \subseteq Used
      BY DEF Undelivered
    <2> QED
      BY <1>1, <1>2, <2>1, NotMore, Parameters DEF OrdersRight
  <1>11. CASE numOrders = 1
    <2>1. Undelivered = {i}
      <3>1. Cardinality(Undelivered \ {i}) = 0 /\ IsFiniteSet(Undelivered \ {i})
        BY <1>10, <1>11, OneLess
      <3>2. Undelivered \ {i} = {}
        BY <3>1, FS_EmptySet
      <3> QED
        BY <3>2
    <2>2. Baking = {} /\ Done = {i}
      BY <1>5, <2>1
    <2>3. Ids(Baking) = {} /\ Ids(Done) = {o}
      BY <1>3, <1>7, <2>2 DEF Ids
    <2>4. todo' = {} /\ baked' = {}
      BY <1>2, <1>11, SeenNext
    <2>5. served' = served + 1
      <3>1. PICK c \in Clients : /\ client[c] = "waiting"
                                 /\ client' = [client EXCEPT ![c] = "told"]
        BY <1>1, <1>2, <1>11, HandOverKeeps
      <3>2. client \in [Clients -> ClientSteps]
        BY TypeParts DEF ClientType
      <3>3. Served' = Served \cup {c} /\ c \notin Served /\ Served \subseteq Clients
        BY <3>1, <3>2 DEF Served
      <3>4. IsFiniteSet(Served)
        BY <3>3, NotMore, Parameters
      <3> QED
        BY <1>9, <3>3, <3>4, OneMore
    <2>6. o \in baked /\ todo \cup baked = {o} /\ todo' = todo /\ baked' = baked \ {o}
      BY <1>9, <2>3, <2>4
    <2>7. Contract!Deliver(o)
      BY <2>5, <2>6 DEF Contract!Deliver, todo, baked, served, Calm
    <2> QED
      BY <2>6, <2>7
  <1>12. CASE numOrders # 1
    <2>1. PICK j \in Undelivered : j # i
      <3>1. Cardinality(Undelivered \ {i}) # 0
        BY <1>2, <1>10, <1>12, OneLess
      <3>2. Undelivered \ {i} # {}
        BY <3>1, FS_EmptySet
      <3> QED
        BY <3>2
    <2>2. ordersArray[j].id # o /\ ordersArray[j].id \in Ids(Baking) \cup Ids(Done)
      BY <1>3, <1>5, <1>7, <2>1 DEF Ids
    <2>3. numOrders' > 0
      BY <1>2, <1>12
    <2>4. served' = served
      <3>1. client' = client
        BY <1>2, <1>12 DEF HandOver
      <3> QED
        BY <1>9, <3>1 DEF Served
    <2>5. todo' = todo /\ baked' = baked \ {o} /\ o \in baked /\ todo \cup baked # {o}
      BY <1>8, <1>9, <2>2, <2>3, SeenNext
    <2>6. Contract!Deliver(o)
      BY <2>4, <2>5 DEF Contract!Deliver, todo, baked, served, Calm
    <2> QED
      BY <2>5, <2>6
  <1> QED
    BY <1>11, <1>12

LEMMA ContractInit == Init => Contract!Init
  <1> SUFFICES ASSUME Init PROVE Contract!Init
    OBVIOUS
  <1>1. Calm /\ Calm = TRUE /\ numOrders = 0
    BY DEF Init, Calm
  <1>2. Served = {}
    BY DEF Init, Served
  <1>3. todo = {} /\ baked = {} /\ served = 0
    BY <1>1, <1>2, Seen, FS_EmptySet
  <1> QED
    BY <1>1, <1>3 DEF Contract!Init, todo, baked, served

LEMMA ContractStep ==
  ASSUME IInv, IInv', [Next]_vars
  PROVE  [Contract!Next]_(Contract!shopVars)
  <1>1. TypeOK /\ KitchenExact /\ (Calm' => Calm)
    BY TroubleStays DEF IInv, Calm
  <1>2. CASE ~Calm
    <2>1. ~Calm'
      BY <1>1, <1>2
    <2>2. todo' = todo /\ baked' = baked /\ served' = served
      BY <1>2, <2>1, Seen, SeenNext
    <2>3. Calm' = Calm
      BY <1>2, <2>1 DEF Calm
    <2> QED
      BY <2>2, <2>3, Stutters
  <1>3. CASE Calm /\ ~Calm'
    <2>1. todo' = {} /\ baked' = {} /\ served' = 0
      BY <1>3, SeenNext
    <2>2. Contract!Trouble
      BY <1>3, <2>1 DEF Contract!Trouble, todo, baked, served, Calm
    <2> QED
      BY <2>2 DEF Contract!Next
  <1>4. CASE Calm /\ Calm'
    <2>1. CalmInv /\ CalmInv'
      BY <1>4 DEF IInv, CalmInv
    <2>2. CASE Main
      <3>1. CASE Install
        BY <1>1, <1>4, <2>1, <3>1, InstallSeen DEF Contract!Next
      <3>2. CASE Reallocate
        <4>1. main = "alloc" /\ UNCHANGED <<client, numOrders>>
          BY <3>2 DEF Reallocate, clientVars
        <4>2. PICK c : c \in Present
          BY <2>1, <4>1 DEF CalmInv, CustomerRight
        <4>3. numOrders = 0
          BY <1>1, <2>1, <4>1, <4>2, OnePresent DEF CalmInv, OrdersRight, TypeOK
        <4>4. Served' = Served
          BY <4>1 DEF Served
        <4> QED
          BY <1>4, <4>1, <4>3, <4>4, NothingSeen
      <3>3. CASE Listen \/ AcceptCount \/ AcceptOrders
        <4>1. UNCHANGED <<client, numOrders, max_order, ordersArray>>
          BY <3>3 DEF Listen, AcceptCount, AcceptOrders, orderVars, clientVars
        <4>2. Served' = Served
          BY <4>1 DEF Served
        <4> QED
          BY <1>4, <4>1, <4>2, SameOrders, NothingSeen
      <3> QED
        BY <2>2, <3>1, <3>2, <3>3 DEF Main
    <2>3. CASE \E c \in Chefs : ChefStep(c)
      BY <1>1, <1>4, <2>1, <2>3, ChefSeen DEF Contract!Next, todo
    <2>4. CASE \E d \in Deliverers : DelivererStep(d)
      <3>1. PICK d \in Deliverers : DelivererStep(d)
        BY <2>4
      <3>2. CASE Collect(d)
        BY <1>1, <1>4, <2>1, <3>2, CollectSeen
      <3>3. CASE HandOver(d)
        BY <1>1, <1>4, <2>1, <3>3, HandOverSeen DEF Contract!Next, baked
      <3> QED
        BY <3>1, <3>2, <3>3 DEF DelivererStep
    <2>5. CASE \E c \in Clients : SendCount(c) \/ ClientStep(c) \/ Cancel(c)
      BY <1>1, <1>4, <2>5, ClientsUnseen
    <2>6. CASE UNCHANGED vars
      <3>1. UNCHANGED <<client, numOrders, max_order, ordersArray>>
        BY <2>6 DEF vars, mainVars, orderVars, clientVars
      <3>2. Served' = Served
        BY <3>1 DEF Served
      <3> QED
        BY <1>4, <3>1, <3>2, SameOrders, NothingSeen
    <2> QED
      BY <2>2, <2>3, <2>4, <2>5, <2>6 DEF Next
  <1> QED
    BY <1>2, <1>3, <1>4

(* Until something troubles it, the shop keeps the contract: TakeOrder to  *)
(* Ready bake each order once, HandOver delivers what is baked, and the    *)
(* one notice goes to the customer with the last order (PideShop.c:280).   *)
THEOREM KeepsContract == Spec => ContractKept
  <1>1. Init => Contract!Init
    BY ContractInit
  <1>2. IInv /\ IInv' /\ [Next]_vars => [Contract!Next]_(Contract!shopVars)
    BY ContractStep
  <1> QED
    BY <1>1, <1>2, Invariance, PTL DEF Spec, ContractKept, Contract!Spec
===============================================================================
