--------------------------- MODULE ServerMain_proofs ---------------------------
(***************************************************************************)
(* Proofs about WaitQueue, for any items, and about ServerMain, for any    *)
(* finite set of clients, any capacity and any number of killed clients.   *)
(***************************************************************************)
EXTENDS ServerMain, FiniteSetTheorems, SequenceTheorems, TLAPS

(* The ring that resize_queue makes is well formed and has room.           *)
LEMMA ResizeKeeps ==
  ASSUME NEW Items, NEW q, IsQueue(q, Items), q.size = q.capacity
  PROVE  /\ IsQueue(resize_queue(q), Items)
         /\ resize_queue(q).size = q.size
         /\ resize_queue(q).size < resize_queue(q).capacity
  <1> DEFINE new_capa == IF q.capacity = 0 THEN 1 ELSE 2 * q.capacity
             r == resize_queue(q)
  <1>1. /\ new_capa \in Nat /\ q.capacity < new_capa
        /\ Copied(q) \in Nat /\ Copied(q) <= q.capacity /\ Copied(q) < new_capa
    BY DEF IsQueue, Copied
  <1>2. ASSUME NEW i \in 0 .. new_capa - 1, i < Copied(q)
        PROVE  q.elements[(q.front + i) % q.capacity] \in Items \cup {NULL, Garbage}
    <2>1. q.capacity \in Nat \ {0} /\ q.front + i \in Nat
      BY <1>1, <1>2 DEF IsQueue
    <2>2. (q.front + i) % q.capacity \in 0 .. q.capacity - 1
      BY <2>1
    <2> QED
      BY <2>2 DEF IsQueue
  <1>3. /\ r = [front |-> r.front, rear |-> r.rear, size |-> r.size,
                capacity |-> r.capacity, elements |-> r.elements]
        /\ r.front = 0 /\ r.rear = Copied(q) /\ r.size = q.size
        /\ r.capacity = new_capa
        /\ r.elements = [i \in 0 .. new_capa - 1 |->
                           IF i < Copied(q)
                           THEN q.elements[(q.front + i) % q.capacity]
                           ELSE Garbage]
    BY DEF resize_queue
  <1>4. r.elements \in [0 .. r.capacity - 1 -> Items \cup {NULL, Garbage}]
    <2> HIDE DEF r, new_capa
    <2> QED
      BY <1>2, <1>3
  <1> HIDE DEF r, new_capa
  <1>5. IsQueue(r, Items)
    BY <1>1, <1>3, <1>4 DEF IsQueue
  <1> QED
    BY <1>1, <1>3, <1>5 DEF r, IsQueue

(* enqueue keeps the queue well formed and adds one.                       *)
LEMMA EnqueueKeeps ==
  ASSUME NEW Items, NEW q, IsQueue(q, Items), NEW item \in Items
  PROVE  IsQueue(enqueue(q, item), Items) /\ enqueue(q, item).size = q.size + 1
  <1> DEFINE r == IF q.size = q.capacity THEN resize_queue(q) ELSE q
             e == enqueue(q, item)
  <1>1. IsQueue(r, Items) /\ r.size = q.size /\ r.size < r.capacity
    <2>1. CASE q.size = q.capacity
      BY <2>1, ResizeKeeps
    <2>2. CASE q.size # q.capacity
      BY <2>2 DEF IsQueue
    <2> QED
      BY <2>1, <2>2
  <1>2. /\ e = [r EXCEPT !.elements[r.rear] = item,
                         !.rear = After(r, r.rear),
                         !.size = r.size + 1]
    BY DEF enqueue
  <1> HIDE DEF r, e
  <1>3. After(r, r.rear) \in Nat /\ After(r, r.rear) < r.capacity
        /\ r.rear \in 0 .. r.capacity - 1
    BY <1>1 DEF After, IsQueue
  <1>4. /\ e = [front |-> e.front, rear |-> e.rear, size |-> e.size,
                capacity |-> e.capacity, elements |-> e.elements]
        /\ e.front = r.front /\ e.rear = After(r, r.rear)
        /\ e.size = r.size + 1 /\ e.capacity = r.capacity
        /\ e.elements = [r.elements EXCEPT ![r.rear] = item]
    BY <1>1, <1>2 DEF IsQueue
  <1>5. IsQueue(e, Items)
    BY <1>1, <1>3, <1>4 DEF IsQueue
  <1> QED
    BY <1>1, <1>4, <1>5 DEF e

(* dequeue keeps the queue well formed.                                    *)
LEMMA DequeueKeeps ==
  ASSUME NEW Items, NEW q, IsQueue(q, Items)
  PROVE  IsQueue(dequeue(q), Items)
  <1>1. CASE q.size = 0
    BY <1>1 DEF dequeue
  <1>2. CASE q.size # 0
    <2> DEFINE e == dequeue(q)
    <2>1. e = [q EXCEPT !.elements[q.front] = NULL,
                        !.front = After(q, q.front),
                        !.size = q.size - 1]
      BY <1>2 DEF dequeue
    <2> HIDE DEF e
    <2>2. After(q, q.front) \in Nat /\ After(q, q.front) < q.capacity
      BY <1>2 DEF After, IsQueue
    <2>3. /\ e = [front |-> e.front, rear |-> e.rear, size |-> e.size,
                  capacity |-> e.capacity, elements |-> e.elements]
          /\ e.front = After(q, q.front) /\ e.rear = q.rear
          /\ e.size = q.size - 1 /\ e.capacity = q.capacity
          /\ e.elements = [q.elements EXCEPT ![q.front] = NULL]
      BY <2>1 DEF IsQueue
    <2>4. IsQueue(e, Items)
      BY <1>2, <2>2, <2>3 DEF IsQueue
    <2> QED
      BY <2>4 DEF e
  <1> QED
    BY <1>1, <1>2

-----------------------------------------------------------------------------
(* The queue as its users see it: the slot i places behind the front, the  *)
(* clients in the order they came, and a rear just behind the last one.    *)
Place(c, f, i) == IF f + i < c THEN f + i ELSE f + i - c
SlotOf(q, i) == Place(q.capacity, q.front, i)
InLine(q) == [i \in 1 .. q.size |-> q.elements[SlotOf(q, i - 1)]]
RearRight(q) == q.capacity > 0 => q.rear = SlotOf(q, q.size)

(* The slots of a ring are different, and one further is what After        *)
(* computes, from the front as from any other slot.                        *)
LEMMA PlacesOfRing ==
  ASSUME NEW c \in Nat, NEW f \in 0 .. c - 1, NEW i \in 0 .. c - 1
  PROVE  /\ Place(c, f, i) \in 0 .. c - 1
         /\ \A j \in 0 .. c - 1 : Place(c, f, i) = Place(c, f, j) => i = j
         /\ Place(c, f, i + 1) =
              IF Place(c, f, i) = c - 1 THEN 0 ELSE Place(c, f, i) + 1
         /\ Place(c, IF f = c - 1 THEN 0 ELSE f + 1, i) = Place(c, f, i + 1)
         /\ Place(c, f, 0) = f
  BY DEF Place

LEMMA SlotsOfRing ==
  ASSUME NEW Items, NEW q, IsQueue(q, Items), NEW i \in 0 .. q.capacity - 1
  PROVE  /\ SlotOf(q, i) \in 0 .. q.capacity - 1
         /\ \A j \in 0 .. q.capacity - 1 : SlotOf(q, i) = SlotOf(q, j) => i = j
         /\ SlotOf(q, i + 1) = After(q, SlotOf(q, i))
         /\ Place(q.capacity, After(q, q.front), i) = SlotOf(q, i + 1)
         /\ SlotOf(q, 0) = q.front
  <1> DEFINE c == q.capacity
             f == q.front
  <1>1. c \in Nat /\ f \in 0 .. c - 1 /\ i \in 0 .. c - 1
    BY DEF IsQueue
  <1>2. /\ \A j : SlotOf(q, j) = Place(c, f, j)
        /\ \A j : After(q, j) = IF j = c - 1 THEN 0 ELSE j + 1
        /\ q.capacity = c /\ q.front = f
    BY DEF SlotOf, After
  <1> HIDE DEF c, f
  <1>3. /\ Place(c, f, i) \in 0 .. c - 1
        /\ \A j \in 0 .. c - 1 : Place(c, f, i) = Place(c, f, j) => i = j
        /\ Place(c, f, i + 1) =
             IF Place(c, f, i) = c - 1 THEN 0 ELSE Place(c, f, i) + 1
        /\ Place(c, IF f = c - 1 THEN 0 ELSE f + 1, i) = Place(c, f, i + 1)
        /\ Place(c, f, 0) = f
    BY <1>1, PlacesOfRing
  <1> QED
    BY <1>2, <1>3

(* What stands in line is a sequence of what the slots may hold.           *)
LEMMA InLineSeq ==
  ASSUME NEW Items, NEW q, IsQueue(q, Items)
  PROVE  /\ InLine(q) \in Seq(Items \cup {NULL, Garbage})
         /\ Len(InLine(q)) = q.size
         /\ \A i \in 1 .. q.size : InLine(q)[i] = q.elements[SlotOf(q, i - 1)]
  <1> DEFINE S == Items \cup {NULL, Garbage}
  <1>1. q.size \in Nat
    BY DEF IsQueue
  <1>2. ASSUME NEW i \in 1 .. q.size
        PROVE  q.elements[SlotOf(q, i - 1)] \in S
    <2>1. q.capacity \in Nat /\ q.front \in 0 .. q.capacity - 1
          /\ i - 1 \in 0 .. q.capacity - 1
      BY DEF IsQueue
    <2>2. SlotOf(q, i - 1) \in 0 .. q.capacity - 1
      BY <2>1, SlotsOfRing
    <2> QED
      BY <2>2 DEF IsQueue
  <1> HIDE DEF S
  <1>3. InLine(q) \in [1 .. q.size -> S]
    BY <1>2 DEF InLine
  <1>4. InLine(q) \in Seq(S) /\ Len(InLine(q)) = q.size
    BY <1>1, <1>3
  <1> QED
    BY <1>4 DEF InLine, S

(* enqueue puts the client behind all others (common.c:7), as long as the  *)
(* ring has room or has not been made yet.                                 *)
THEOREM EnqueueInOrder ==
  ASSUME NEW Items, NEW q, IsQueue(q, Items), RearRight(q),
         NEW item \in Items, q.size < q.capacity \/ q.capacity = 0
  PROVE  /\ InLine(enqueue(q, item)) = Append(InLine(q), item)
         /\ RearRight(enqueue(q, item))
  <1> DEFINE r == IF q.size = q.capacity THEN resize_queue(q) ELSE q
             e == enqueue(q, item)
  <1>1. IsQueue(r, Items) /\ r.size = q.size /\ r.size < r.capacity
    <2>1. CASE q.size = q.capacity
      BY <2>1, ResizeKeeps
    <2>2. CASE q.size # q.capacity
      BY <2>2 DEF IsQueue
    <2> QED
      BY <2>1, <2>2
  <1>2. RearRight(r) /\ (q.size = 0 \/ r = q)
    <2>1. CASE q.capacity = 0
      <3>1. q.size = 0 /\ q.front = 0 /\ q.rear = 0
        BY <2>1 DEF IsQueue
      <3>2. Copied(q) = 0
        BY <3>1, <2>1 DEF Copied
      <3>3. r.front = 0 /\ r.rear = 0 /\ r.size = 0
        BY <2>1, <3>1, <3>2 DEF resize_queue
      <3> HIDE DEF r
      <3> QED
        BY <1>1, <3>1, <3>3 DEF RearRight, SlotOf, Place
    <2>2. CASE q.size < q.capacity
      BY <2>2 DEF IsQueue
    <2> QED
      BY <2>1, <2>2
  <1>3. e = [r EXCEPT !.elements[r.rear] = item,
                      !.rear = After(r, r.rear),
                      !.size = r.size + 1]
    BY DEF enqueue
  <1> HIDE DEF r, e
  <1>4. /\ e.front = r.front /\ e.rear = After(r, r.rear)
        /\ e.size = r.size + 1 /\ e.capacity = r.capacity
        /\ e.elements = [r.elements EXCEPT ![r.rear] = item]
    BY <1>1, <1>3 DEF IsQueue
  <1>5. /\ r.size \in Nat /\ r.capacity \in Nat /\ r.front \in 0 .. r.capacity - 1
        /\ r.rear = SlotOf(r, r.size)
        /\ r.elements \in [0 .. r.capacity - 1 -> Items \cup {NULL, Garbage}]
    BY <1>1, <1>2 DEF IsQueue, RearRight
  <1>6. RearRight(e)
    <2>1. r.size \in 0 .. r.capacity - 1
      BY <1>1, <1>5
    <2>2. SlotOf(r, r.size + 1) = After(r, r.rear)
      BY <2>1, <1>1, <1>5, SlotsOfRing
    <2> QED
      BY <2>2, <1>4 DEF RearRight, SlotOf
  <1>7. InLine(r) = InLine(q)
    <2>1. CASE r = q
      BY <2>1
    <2>2. CASE q.size = 0
      BY <1>1, <2>2 DEF InLine
    <2> QED
      BY <1>2, <2>1, <2>2
  <1>8. InLine(e) = Append(InLine(r), item)
    <2> DEFINE S == Items \cup {NULL, Garbage}
    <2>1. \A i \in 0 .. r.size : SlotOf(e, i) = SlotOf(r, i)
      BY <1>4 DEF SlotOf
    <2>2. IsQueue(e, Items)
      BY EnqueueKeeps DEF e
    <2>3. /\ InLine(e) \in Seq(S) /\ Len(InLine(e)) = r.size + 1
          /\ \A i \in 1 .. r.size + 1 : InLine(e)[i] = e.elements[SlotOf(e, i - 1)]
      BY <2>2, <1>4, InLineSeq, ZenonT(30)
    <2>4. /\ InLine(r) \in Seq(S) /\ Len(InLine(r)) = r.size
          /\ \A i \in 1 .. r.size : InLine(r)[i] = r.elements[SlotOf(r, i - 1)]
      BY <1>1, InLineSeq
    <2> DEFINE a == Append(InLine(r), item)
    <2>5. /\ a \in Seq(S) /\ Len(a) = r.size + 1
          /\ \A i \in 1 .. r.size : a[i] = InLine(r)[i]
          /\ a[r.size + 1] = item
      BY <2>4, AppendProperties
    <2>6. ASSUME NEW i \in 1 .. r.size + 1
          PROVE  InLine(e)[i] = a[i]
      <3>1. CASE i = r.size + 1
        <4>1. SlotOf(e, i - 1) = r.rear
          BY <3>1, <2>1, <1>5
        <4>2. e.elements[r.rear] = item
          <5>1. r.size \in 0 .. r.capacity - 1
            BY <1>1, <1>5
          <5>2. r.rear \in 0 .. r.capacity - 1
            BY <5>1, <1>1, <1>5, SlotsOfRing
          <5> QED
            BY <5>2, <1>4, <1>5
        <4> QED
          BY <4>1, <4>2, <3>1, <2>3, <2>5
      <3>2. CASE i # r.size + 1
        <4>1. i \in 1 .. r.size /\ i - 1 \in 0 .. r.size - 1
          BY <3>2, <1>5
        <4>2. SlotOf(r, i - 1) \in 0 .. r.capacity - 1 /\ SlotOf(r, i - 1) # r.rear
          <5>1. /\ r.size \in 0 .. r.capacity - 1 /\ i - 1 \in 0 .. r.capacity - 1
                /\ i - 1 # r.size
            BY <4>1, <1>1, <1>5
          <5> DEFINE j == i - 1
          <5>2. j \in 0 .. r.capacity - 1
            BY <5>1
          <5> HIDE DEF j
          <5>3. /\ SlotOf(r, j) \in 0 .. r.capacity - 1
                /\ \A k \in 0 .. r.capacity - 1 : SlotOf(r, j) = SlotOf(r, k) => j = k
            BY <5>2, <1>1, SlotsOfRing
          <5>4. SlotOf(r, j) # SlotOf(r, r.size)
            BY <5>1, <5>3 DEF j
          <5> QED
            BY <5>3, <5>4, <1>5 DEF j
        <4>3. e.elements[SlotOf(r, i - 1)] = r.elements[SlotOf(r, i - 1)]
          BY <4>2, <1>4, <1>5
        <4>4. SlotOf(e, i - 1) = SlotOf(r, i - 1)
          BY <4>1, <2>1, <1>5
        <4> QED
          BY <4>1, <4>3, <4>4, <2>3, <2>4, <2>5
      <3> QED
        BY <3>1, <3>2
    <2> HIDE DEF a, S
    <2>7. InLine(e) = a
      BY <2>3, <2>5, <2>6, SeqEqual
    <2> QED
      BY <2>7 DEF a
  <1> QED
    BY <1>6, <1>7, <1>8 DEF e

(* dequeue takes the client who has waited longest and leaves the others   *)
(* in their order.                                                         *)
THEOREM DequeueInOrder ==
  ASSUME NEW Items, NEW q, IsQueue(q, Items), RearRight(q), q.size > 0
  PROVE  /\ dequeued(q) = Head(InLine(q))
         /\ InLine(dequeue(q)) = Tail(InLine(q))
         /\ RearRight(dequeue(q))
  <1> DEFINE e == dequeue(q)
  <1>1. e = [q EXCEPT !.elements[q.front] = NULL,
                      !.front = After(q, q.front),
                      !.size = q.size - 1]
    BY DEF dequeue, IsQueue
  <1> HIDE DEF e
  <1>2. /\ e.front = After(q, q.front) /\ e.rear = q.rear
        /\ e.size = q.size - 1 /\ e.capacity = q.capacity
        /\ e.elements = [q.elements EXCEPT ![q.front] = NULL]
    BY <1>1 DEF IsQueue
  <1>3. /\ q.size \in Nat \ {0} /\ q.capacity \in Nat \ {0} /\ q.size <= q.capacity
        /\ q.front \in 0 .. q.capacity - 1 /\ q.rear = SlotOf(q, q.size)
        /\ q.elements \in [0 .. q.capacity - 1 -> Items \cup {NULL, Garbage}]
    BY DEF IsQueue, RearRight
  <1>4. ASSUME NEW i \in 0 .. q.capacity - 1
        PROVE  SlotOf(e, i) = SlotOf(q, i + 1)
    <2>1. Place(q.capacity, After(q, q.front), i) = SlotOf(q, i + 1)
      BY SlotsOfRing
    <2> QED
      BY <2>1, <1>2 DEF SlotOf
  <1>5. RearRight(e)
    BY <1>2, <1>3, <1>4 DEF RearRight
  <1>6. /\ InLine(q) \in Seq(Items \cup {NULL, Garbage}) /\ Len(InLine(q)) = q.size
        /\ \A i \in 1 .. q.size : InLine(q)[i] = q.elements[SlotOf(q, i - 1)]
    BY InLineSeq
  <1>7. dequeued(q) = Head(InLine(q))
    <2>1. SlotOf(q, 0) = q.front
      BY <1>3, SlotsOfRing, 0 \in 0 .. q.capacity - 1
    <2>2. InLine(q)[1] = q.elements[q.front]
      BY <1>3, <1>6, <2>1
    <2> QED
      BY <1>3, <1>6, <2>2 DEF dequeued
  <1>8. InLine(e) = Tail(InLine(q))
    <2> DEFINE S == Items \cup {NULL, Garbage}
               t == Tail(InLine(q))
    <2>1. IsQueue(e, Items)
      BY DequeueKeeps DEF e
    <2>2. /\ InLine(e) \in Seq(S) /\ Len(InLine(e)) = q.size - 1
          /\ \A i \in 1 .. q.size - 1 : InLine(e)[i] = e.elements[SlotOf(e, i - 1)]
      BY <2>1, <1>2, InLineSeq, ZenonT(30)
    <2>3. /\ t \in Seq(S) /\ Len(t) = q.size - 1
          /\ \A i \in 1 .. q.size - 1 : t[i] = InLine(q)[i + 1]
      BY <1>3, <1>6, HeadTailProperties
    <2>4. ASSUME NEW i \in 1 .. q.size - 1
          PROVE  InLine(e)[i] = t[i]
      <3>1. SlotOf(e, i - 1) = SlotOf(q, i)
        BY <1>3, <1>4
      <3>2. SlotOf(q, i) \in 0 .. q.capacity - 1 /\ SlotOf(q, i) # q.front
        <4>1. i \in 0 .. q.capacity - 1 /\ 0 \in 0 .. q.capacity - 1 /\ i # 0
          BY <1>3
        <4> QED
          BY <4>1, SlotsOfRing
      <3>3. e.elements[SlotOf(q, i)] = q.elements[SlotOf(q, i)]
        BY <3>2, <1>2, <1>3
      <3>4. i + 1 \in 1 .. q.size /\ (i + 1) - 1 = i
        BY <1>3
      <3> QED
        BY <3>1, <3>3, <3>4, <1>6, <2>2, <2>3
    <2> HIDE DEF S, t
    <2>5. InLine(e) = t
      BY <2>2, <2>3, <2>4, SeqEqual
    <2> QED
      BY <2>5 DEF t
  <1> QED
    BY <1>5, <1>7, <1>8 DEF e

(* common.c:55: a full ring that grows keeps its size but none of its      *)
(* clients: in line now is only what malloc left there, and the rear is    *)
(* the front.                                                              *)
THEOREM ResizeLoses ==
  ASSUME NEW Items, NEW q, IsQueue(q, Items), RearRight(q),
         q.size = q.capacity, q.capacity > 0
  PROVE  /\ resize_queue(q).rear = resize_queue(q).front
         /\ InLine(resize_queue(q)) = [i \in 1 .. q.size |-> Garbage]
  <1> DEFINE r == resize_queue(q)
  <1>1. q.rear = q.front /\ q.size \in Nat /\ q.front \in Nat
    BY DEF IsQueue, RearRight, SlotOf, Place
  <1>2. Copied(q) = 0
    BY <1>1 DEF Copied
  <1>3. /\ r.front = 0 /\ r.rear = 0 /\ r.size = q.size /\ r.capacity = 2 * q.capacity
        /\ r.elements = [i \in 0 .. 2 * q.capacity - 1 |->
                           IF i < 0 THEN q.elements[(q.front + i) % q.capacity]
                           ELSE Garbage]
    BY <1>2 DEF resize_queue, IsQueue
  <1> HIDE DEF r
  <1>4. \A i \in 1 .. q.size : r.elements[SlotOf(r, i - 1)] = Garbage
    <2> TAKE i \in 1 .. q.size
    <2>1. SlotOf(r, i - 1) = i - 1 /\ i - 1 \in 0 .. 2 * q.capacity - 1 /\ ~(i - 1 < 0)
      BY <1>1, <1>3 DEF SlotOf, Place, IsQueue
    <2> QED
      BY <2>1, <1>3
  <1>5. InLine(r) = [i \in 1 .. q.size |-> r.elements[SlotOf(r, i - 1)]]
    BY <1>3 DEF InLine
  <1> QED
    BY <1>3, <1>4, <1>5 DEF r

-----------------------------------------------------------------------------
(* What does not depend on how the steps of ServerMain are put together.   *)
Rest == CurrentKnown /\ WithinCapacity /\ PidListExact /\ RoomKept
          /\ ExitNoticed /\ QueueHasTrigger

LEMMA ChildrenFinite ==
  ASSUME child \in [Clients \cup {Junk} -> ChildStates]
  PROVE  /\ DOMAIN child = Clients \cup {Junk}
         /\ IsFiniteSet(Unreaped) /\ Cardinality(Unreaped) \in Nat
         /\ IsFiniteSet(Alive) /\ Cardinality(Alive) \in Nat
         /\ Alive \subseteq Unreaped
         /\ Cardinality(Alive) <= Cardinality(Unreaped)
  <1>1. DOMAIN child = Clients \cup {Junk}
    OBVIOUS
  <1>2. IsFiniteSet(Clients \cup {Junk})
    BY FS_AddElement, ClientsAssumption
  <1>3. IsFiniteSet(Unreaped)
    BY <1>1, <1>2, FS_Subset DEF Unreaped
  <1>4. Alive \subseteq Unreaped
    BY DEF Alive
  <1>5. IsFiniteSet(Alive) /\ Cardinality(Alive) <= Cardinality(Unreaped)
    BY <1>3, <1>4, FS_Subset
  <1> QED
    BY <1>1, <1>3, <1>4, <1>5, FS_CardinalityType

(* What starting, moving, exiting and reaping a child do to the two sets.  *)
LEMMA ChildStarts ==
  ASSUME TypeOK, NEW c \in Clients \cup {Junk},
         child' = [child EXCEPT ![c] = "open_client"]
  PROVE  /\ Unreaped' = Unreaped \cup {c} /\ Alive' = Alive \cup {c}
         /\ Cardinality(Unreaped') \in Nat /\ Cardinality(Alive') \in Nat
         /\ Cardinality(Unreaped') <= Cardinality(Unreaped) + 1
         /\ Cardinality(Alive') <= Cardinality(Alive) + 1
  <1>1. Unreaped' = Unreaped \cup {c} /\ Alive' = Alive \cup {c}
    BY DEF TypeOK, Unreaped, Alive
  <1> QED
    <2>1. ASSUME NEW S, IsFiniteSet(S), Cardinality(S) \in Nat
          PROVE  /\ Cardinality(S \cup {c}) \in Nat
                 /\ Cardinality(S \cup {c}) <= Cardinality(S) + 1
      <3>1. Cardinality(S \cup {c}) =
              IF c \in S THEN Cardinality(S) ELSE Cardinality(S) + 1
        BY <2>1, FS_AddElement
      <3> QED
        BY <2>1, <3>1
    <2> QED
      BY <1>1, <2>1, ChildrenFinite DEF TypeOK

LEMMA ChildMoves ==
  ASSUME TypeOK, NEW c \in Clients \cup {Junk}, NEW s \in {"open_server", "session"},
         child[c] \notin {"none", "zombie"}, child' = [child EXCEPT ![c] = s]
  PROVE  Unreaped' = Unreaped /\ Alive' = Alive
  BY DEF TypeOK, Unreaped, Alive

LEMMA ChildExits ==
  ASSUME TypeOK, NEW c \in Clients \cup {Junk},
         child[c] \notin {"none", "zombie"}, Exits(c)
  PROVE  /\ Unreaped' = Unreaped /\ Alive' = Alive \ {c}
         /\ Cardinality(Alive') = Cardinality(Alive) - 1
  <1>1. Unreaped' = Unreaped /\ Alive' = Alive \ {c} /\ c \in Alive
    BY DEF TypeOK, Unreaped, Alive, Exits
  <1> QED
    BY <1>1, ChildrenFinite, FS_RemoveElement DEF TypeOK

LEMMA ChildReaped ==
  ASSUME TypeOK, NEW c \in DOMAIN child, Reap(c)
  PROVE  /\ Unreaped' = Unreaped \ {c} /\ Alive' = Alive /\ c \notin Alive
         /\ Cardinality(Unreaped') \in Nat
         /\ Cardinality(Unreaped') <= Cardinality(Unreaped)
  <1>1. Unreaped' = Unreaped \ {c} /\ Alive' = Alive /\ c \notin Alive
    BY DEF TypeOK, Unreaped, Alive, Reap
  <1>2. IsFiniteSet(Unreaped) /\ Unreaped \ {c} \in SUBSET Unreaped
    BY ChildrenFinite DEF TypeOK
  <1>3. /\ Cardinality(Unreaped \ {c}) \in Nat
        /\ Cardinality(Unreaped \ {c}) <= Cardinality(Unreaped)
    BY <1>2, FS_Subset, FS_CardinalityType
  <1> QED
    BY <1>1, <1>3

-----------------------------------------------------------------------------
(* Every step leaves each variable in its type.                            *)
LEMMA Typed ==
  ASSUME TypeOK, CurrentKnown, Next
  PROVE  TypeOK'
  <1>. USE DEF clientVars, signals, mainVars, ClientStates, ChildStates,
               MainStates, ClientGoes, MainGoes
  <1>1. ASSUME NEW c \in Clients,
               Register(c) \/ GiveUp(c) \/ MakeFifo(c) \/ Lose(c)
        PROVE  TypeOK'
    <2>1. CASE Register(c)
      <3>1. reg' \in Seq(Clients)
        BY <2>1 DEF Register, TypeOK
      <3> QED
        BY <2>1, <3>1 DEF Register, TypeOK
    <2>2. CASE GiveUp(c) \/ MakeFifo(c) \/ Lose(c)
      BY <2>2 DEF GiveUp, MakeFifo, Lose, TypeOK
    <2> QED
      BY <1>1, <2>1, <2>2
  <1>2. ASSUME NEW c \in Clients \cup {Junk}, Opens(c)
        PROVE  TypeOK'
    BY <1>2 DEF Opens, ChildOpenClient, ChildOpenServer, Exits, TypeOK
  <1>3. ASSUME NEW c \in Clients, Quit(c) \/ KillServer(c) \/ EndOfFile(c)
        PROVE  TypeOK'
    BY <1>3 DEF Quit, KillServer, EndOfFile, Exits, TypeOK
  <1>4. CASE ReadRegistration
    <2>1. CASE reg # <<>>
      <3>1. Head(reg) \in Clients /\ Tail(reg) \in Seq(Clients)
        BY <2>1 DEF TypeOK
      <3> QED
        BY <1>4, <2>1, <3>1 DEF ReadRegistration, TypeOK
    <2>2. CASE reg = <<>>
      BY <1>4, <2>2 DEF ReadRegistration, TypeOK
    <2> QED
      BY <2>1, <2>2
  <1>5. CASE OpenClient
    BY <1>5 DEF OpenClient, TypeOK
  <1>6. CASE Serve
    BY <1>6 DEF Serve, createChildProcess, add_pid_list, TypeOK, CurrentKnown
  <1>7. CASE Enqueue
    <2>1. IsQueue(queue', Clients)
      BY <1>7, EnqueueKeeps DEF Enqueue, TypeOK, CurrentKnown
    <2> QED
      BY <1>7, <2>1 DEF Enqueue, TypeOK
  <1>8. CASE TurnAway \/ BrokenPipe
    BY <1>8 DEF TurnAway, BrokenPipe, TypeOK
  <1>9. CASE TestSigint \/ TestSigchld
    BY <1>9 DEF TestSigint, TestSigchld, TypeOK
  <1>10. CASE ReapOne \/ WaitOne
    BY <1>10 DEF ReapOne, WaitOne, Reap, TypeOK
  <1>11. CASE ReapNone \/ Exit
    BY <1>11 DEF ReapNone, Exit, TypeOK
  <1>12. CASE Dequeue
    <2>1. IsQueue(queue', Clients)
      BY <1>12, DequeueKeeps DEF Dequeue, TypeOK
    <2> QED
      BY <1>12, <2>1 DEF Dequeue, createChildProcess, add_pid_list, TypeOK
  <1>13. CASE KillChildren
    BY <1>13 DEF KillChildren, TypeOK
  <1>14. CASE Interrupt
    BY <1>14 DEF Interrupt, TypeOK
  <1> QED
    BY <1>1, <1>2, <1>3, <1>4, <1>5, <1>6, <1>7, <1>8, <1>9, <1>10, <1>11,
       <1>12, <1>13, <1>14
    DEF Next, Main

(* The rest of the invariant, first for steps of children and clients.     *)
LEMMA ChildStepKeeps ==
  ASSUME TypeOK, Rest, NEW c \in Clients \cup {Junk},
         \/ Opens(c)
         \/ c \in Clients /\ (Quit(c) \/ KillServer(c) \/ EndOfFile(c))
  PROVE  Rest'
  <1>1. child[c] \notin {"none", "zombie"} /\ UNCHANGED mainVars
    BY DEF Opens, ChildOpenClient, ChildOpenServer, Quit, KillServer, EndOfFile
  <1>2. \/ /\ \E s \in {"open_server", "session"} : child' = [child EXCEPT ![c] = s]
           /\ UNCHANGED SIGCHILD
        \/ Exits(c)
    BY DEF Opens, ChildOpenClient, ChildOpenServer, Quit, KillServer, EndOfFile
  <1>3. /\ Cardinality(Alive) \in Nat /\ Cardinality(Unreaped) \in Nat
        /\ SIGCHILD \in BOOLEAN
    BY ChildrenFinite DEF TypeOK
  <1>4. CASE Alive' = Alive /\ Unreaped' = Unreaped /\ UNCHANGED SIGCHILD
    BY <1>1, <1>4
    DEF mainVars, Rest, CurrentKnown, WithinCapacity, PidListExact, RoomKept,
        Places, ExitNoticed, QueueHasTrigger
  <1>5. CASE Exits(c)
    <2>1. /\ Unreaped' = Unreaped /\ SIGCHILD' = TRUE
          /\ Cardinality(Alive') = Cardinality(Alive) - 1
      BY <1>1, <1>5, ChildExits DEF Exits
    <2>2. RoomKept'
      BY <1>1, <1>3, <2>1, CapacityAssumption DEF Rest, RoomKept, Places, mainVars
    <2> QED
      BY <1>1, <2>1, <2>2
      DEF mainVars, Rest, CurrentKnown, WithinCapacity, PidListExact,
          ExitNoticed, QueueHasTrigger
  <1> QED
    BY <1>1, <1>2, <1>4, <1>5, ChildMoves

LEMMA ClientStepKeeps ==
  ASSUME Rest, UNCHANGED <<mainVars, child, SIGCHILD>>
  PROVE  Rest'
  <1>1. UNCHANGED <<main, cur, queue, pids, SIGCHILD, Unreaped, Alive>>
    BY DEF mainVars, Unreaped, Alive
  <1> QED
    BY <1>1 DEF Rest, CurrentKnown, WithinCapacity, PidListExact, RoomKept,
                Places, ExitNoticed, QueueHasTrigger

(* Then for the steps of main, one by one.                                 *)
LEMMA MainStepKeeps ==
  ASSUME TypeOK, Rest, Main
  PROVE  Rest'
  <1>. USE CapacityAssumption
       DEF MainGoes, Rest, CurrentKnown, WithinCapacity, PidListExact, RoomKept,
           Places, ExitNoticed, QueueHasTrigger, signals
  <1>1. /\ Cardinality(Alive) \in Nat /\ Cardinality(Unreaped) \in Nat
        /\ Cardinality(Alive) <= Cardinality(Unreaped)
        /\ SIGCHILD \in BOOLEAN /\ queue.size \in Nat
        /\ DOMAIN child = Clients \cup {Junk}
    BY ChildrenFinite DEF TypeOK, IsQueue
  <1>2. (child' = child) => Alive' = Alive /\ Unreaped' = Unreaped
    BY DEF Alive, Unreaped
  <1>3. CASE ReadRegistration
    <2>1. reg # <<>> => Head(reg) \in Clients
      BY DEF TypeOK
    <2> QED
      BY <1>1, <1>2, <1>3, <2>1 DEF ReadRegistration
  <1>4. CASE OpenClient
    BY <1>1, <1>2, <1>4 DEF OpenClient
  <1>5. CASE Serve
    <2>1. cur \in Clients /\ pids = Unreaped /\ queue.size = 0
          /\ Cardinality(Unreaped) < Capacity
      BY <1>5 DEF Serve, HasRoom
    <2>2. pids' = Unreaped \cup {cur}
      BY <1>1, <1>5, <2>1 DEF Serve, createChildProcess, add_pid_list
    <2>3. /\ Unreaped' = Unreaped \cup {cur} /\ Alive' = Alive \cup {cur}
          /\ Cardinality(Unreaped') \in Nat
          /\ Cardinality(Unreaped') <= Cardinality(Unreaped) + 1
      BY <1>5, <2>1, ChildStarts DEF Serve, createChildProcess
    <2> QED
      BY <1>1, <1>5, <2>1, <2>2, <2>3 DEF Serve
  <1>6. CASE Enqueue
    <2>1. queue'.size = queue.size + 1
      BY <1>6, EnqueueKeeps DEF Enqueue, TypeOK
    <2>2. queue.size = 0 => Unreaped # {}
      BY <1>6, FS_EmptySet DEF Enqueue, HasRoom
    <2> QED
      BY <1>1, <1>2, <1>6, <2>1, <2>2 DEF Enqueue
  <1>7. CASE TurnAway
    BY <1>1, <1>2, <1>7 DEF TurnAway
  <1>8. CASE BrokenPipe
    BY <1>1, <1>2, <1>8 DEF BrokenPipe
  <1>9. CASE TestSigint
    BY <1>1, <1>2, <1>9 DEF TestSigint
  <1>10. CASE TestSigchld
    BY <1>1, <1>2, <1>10 DEF TestSigchld
  <1>11. CASE ReapOne
    <2>1. PICK c \in DOMAIN child : Reap(c) /\ pids' = pids \ {c}
      BY <1>11 DEF ReapOne
    <2>2. /\ Unreaped' = Unreaped \ {c} /\ Alive' = Alive
          /\ Cardinality(Unreaped') \in Nat
          /\ Cardinality(Unreaped') <= Cardinality(Unreaped)
      BY <2>1, ChildReaped
    <2> QED
      BY <1>1, <1>11, <2>1, <2>2 DEF ReapOne
  <1>12. CASE ReapNone
    BY <1>1, <1>2, <1>12 DEF ReapNone
  <1>13. CASE Dequeue
    <2>1. CASE main' = "dead"
      BY <1>1, <1>2, <1>13, <2>1 DEF Dequeue
    <2>2. CASE main' # "dead"
      <3>1. PICK c \in Clients \cup {Junk} : createChildProcess(c) /\ main' = "read"
        BY <1>13, <2>2 DEF Dequeue
      <3>2. Cardinality(Unreaped) < Capacity /\ pids = Unreaped
        BY <1>13 DEF Dequeue
      <3>3. pids' = Unreaped \cup {c}
        BY <1>1, <3>1, <3>2 DEF createChildProcess, add_pid_list
      <3>4. /\ Unreaped' = Unreaped \cup {c} /\ Alive' = Alive \cup {c}
            /\ Cardinality(Unreaped') \in Nat /\ Cardinality(Alive') \in Nat
            /\ Cardinality(Unreaped') <= Cardinality(Unreaped) + 1
            /\ Cardinality(Alive') <= Cardinality(Alive) + 1
        BY <3>1, ChildStarts DEF createChildProcess
      <3> QED
        BY <1>1, <1>13, <3>1, <3>2, <3>3, <3>4 DEF Dequeue
    <2> QED
      BY <2>1, <2>2
  <1>14. CASE KillChildren
    <2>1. Unreaped' = Unreaped
      BY <1>14 DEF KillChildren, Unreaped, Alive
    <2> QED
      BY <1>1, <1>14, <2>1 DEF KillChildren
  <1>15. CASE WaitOne
    <2>1. PICK c \in DOMAIN child : Reap(c)
      BY <1>15 DEF WaitOne
    <2>2. /\ Unreaped' = Unreaped \ {c} /\ Alive' = Alive
          /\ Cardinality(Unreaped') \in Nat
          /\ Cardinality(Unreaped') <= Cardinality(Unreaped)
      BY <2>1, ChildReaped
    <2> QED
      BY <1>1, <1>15, <2>2 DEF WaitOne, mainVars
  <1>16. CASE Exit
    BY <1>1, <1>2, <1>16 DEF Exit, Alive
  <1> QED
    BY <1>3, <1>4, <1>5, <1>6, <1>7, <1>8, <1>9, <1>10, <1>11, <1>12, <1>13,
       <1>14, <1>15, <1>16 DEF Main

-----------------------------------------------------------------------------
(* For every set of clients and every capacity the invariant holds: who is *)
(* in the pid list, that a place is kept for whoever is taken from the     *)
(* queue, that every exit is noticed and the queue is looked at again.     *)
THEOREM Invariance == Spec => []IInv
  <1>1. Init => IInv
    <2> SUFFICES ASSUME Init PROVE IInv
      OBVIOUS
    <2>1. Unreaped = {} /\ Alive = {}
      BY DEF Init, Unreaped, Alive
    <2>2. IsQueue(EmptyQueue, Clients)
      <3>1. <<>> \in [0 .. 0 - 1 -> Clients \cup {NULL, Garbage}]
        OBVIOUS
      <3> QED
        BY <3>1 DEF EmptyQueue, IsQueue
    <2>3. TypeOK
      <3>1. reg \in Seq(Clients)
        BY DEF Init
      <3>2. IsQueue(queue, Clients)
        BY <2>2 DEF Init
      <3> QED
        BY <3>1, <3>2 DEF Init, TypeOK, ClientStates, ChildStates, MainStates
    <2> QED
      BY <2>1, <2>3, FS_EmptySet, CapacityAssumption
      DEF Init, IInv, CurrentKnown, WithinCapacity, PidListExact, RoomKept, Places,
          ExitNoticed, QueueHasTrigger, EmptyQueue
  <1>2. IInv /\ [Next]_vars => IInv'
    <2> SUFFICES ASSUME IInv, [Next]_vars PROVE IInv'
      OBVIOUS
    <2>1. TypeOK /\ Rest
      BY DEF IInv, Rest
    <2>2. CASE Next
      <3>1. TypeOK'
        BY <2>1, <2>2, Typed DEF Rest
      <3>2. CASE Main
        BY <2>1, <3>1, <3>2, MainStepKeeps DEF IInv, Rest
      <3>3. CASE \E c \in Clients : Register(c) \/ GiveUp(c) \/ MakeFifo(c) \/ Lose(c)
        <4>1. UNCHANGED <<mainVars, child, SIGCHILD>>
          BY <3>3 DEF Register, GiveUp, MakeFifo, Lose, signals
        <4> QED
          BY <2>1, <3>1, <4>1, ClientStepKeeps DEF IInv, Rest
      <3>4. CASE \/ Opens(Junk)
                 \/ \E c \in Clients :
                      Opens(c) \/ Quit(c) \/ KillServer(c) \/ EndOfFile(c)
        <4>1. Rest'
          BY <2>1, <3>4, ChildStepKeeps
        <4> QED
          BY <3>1, <4>1 DEF IInv, Rest
      <3>5. CASE Interrupt
        BY <2>1, <3>1, <3>5, ClientStepKeeps DEF IInv, Rest, Interrupt
      <3> QED
        BY <2>2, <3>2, <3>3, <3>4, <3>5 DEF Next
    <2>3. CASE UNCHANGED vars
      BY <2>1, <2>3
      DEF vars, IInv, TypeOK, CurrentKnown, WithinCapacity, PidListExact, RoomKept,
          Places, ExitNoticed, QueueHasTrigger, Unreaped, Alive
    <2> QED
      BY <2>2, <2>3
  <1> QED
    BY <1>1, <1>2, PTL DEF Spec

(* The server never runs more children than it was told to.                *)
THEOREM NeverTooMany == Spec => []WithinCapacity
  <1>1. IInv => WithinCapacity
    BY DEF IInv
  <1> QED
    BY <1>1, Invariance, PTL

(* Until shutdown the pid list names exactly the children to be killed.    *)
THEOREM PidListRight == Spec => []PidListExact
  <1>1. IInv => PidListExact
    BY DEF IInv
  <1> QED
    BY <1>1, Invariance, PTL

(* A zombie is never left without a flag or a pass that will find it.      *)
THEOREM NoExitMissed == Spec => []ExitNoticed
  <1>1. IInv => ExitNoticed
    BY DEF IInv
  <1> QED
    BY <1>1, Invariance, PTL

(* Whoever waits in the queue has an exit to wait for.                     *)
THEOREM QueueAwaitsExit == Spec => []QueueHasTrigger
  <1>1. IInv => QueueHasTrigger
    BY DEF IInv
  <1> QED
    BY <1>1, Invariance, PTL
-----------------------------------------------------------------------------
(* When what ResizeLoses says of the queue can happen: not before a second *)
(* client has to wait behind a first.  Until then the ring has one slot at *)
(* most, those in line are clients in their order, no child is started     *)
(* for a junk record, and only a client that was killed (by the SIGPIPE of *)
(* its turn) can end the server outside killChildren.                      *)
LineKept ==
    queue.capacity <= 1 =>
        /\ RearRight(queue)
        /\ InLine(queue) \in Seq(Clients)
        /\ child[Junk] = "none"
        /\ main = "dead" => \E c \in Clients : client[c] = "lost"

(* main goes to the queue only if somebody is in it.                       *)
DequeuesSomebody == main = "dequeue" => queue.size > 0

(* enqueue makes a longer ring only of a full one.                         *)
LEMMA EnqueueGrows ==
  ASSUME NEW q, NEW item, q.capacity \in Nat, q.size \in 0 .. q.capacity,
         enqueue(q, item).capacity <= 1
  PROVE  q.capacity <= 1 /\ (q.size < q.capacity \/ q.capacity = 0)
  <1> DEFINE new_capa == IF q.capacity = 0 THEN 1 ELSE 2 * q.capacity
             r == IF q.size = q.capacity THEN resize_queue(q) ELSE q
  <1>1. enqueue(q, item).capacity = r.capacity
    BY DEF enqueue
  <1>2. resize_queue(q).capacity = new_capa
    BY DEF resize_queue
  <1>3. r.capacity = IF q.size = q.capacity THEN new_capa ELSE q.capacity
    BY <1>2
  <1> HIDE DEF r
  <1> QED
    BY <1>1, <1>3

(* Steps that leave the queue and the junk record's child alone.           *)
LEMMA QueueUntouched ==
  ASSUME LineKept, UNCHANGED queue, child'[Junk] = child[Junk],
         \A c \in Clients : client[c] = "lost" => client'[c] = "lost",
         main' = "dead" => main = "dead" \/ \E c \in Clients : client'[c] = "lost"
  PROVE  LineKept'
  <1>1. /\ queue' = queue /\ InLine(queue)' = InLine(queue)
        /\ RearRight(queue)' = RearRight(queue)
    BY DEF InLine, RearRight, SlotOf, Place
  <1>2. SUFFICES ASSUME queue.capacity <= 1
                 PROVE  /\ RearRight(queue) /\ InLine(queue) \in Seq(Clients)
                        /\ child'[Junk] = "none"
                        /\ main' = "dead" => \E c \in Clients : client'[c] = "lost"
    BY <1>1 DEF LineKept
  <1> QED
    BY <1>2 DEF LineKept

(* A step of a client or of its child: a killed client stays killed.       *)
LEMMA OthersKeepLine ==
  ASSUME TypeOK, LineKept, NEW c \in Clients,
         \/ Register(c) \/ GiveUp(c) \/ MakeFifo(c) \/ Lose(c)
         \/ Opens(c) \/ Quit(c) \/ KillServer(c) \/ EndOfFile(c)
  PROVE  LineKept'
  <1>. USE DEF TypeOK, ClientGoes
  <1>1. UNCHANGED <<queue, main>>
    BY DEF Opens, ChildOpenClient, ChildOpenServer, Exits, Register, GiveUp,
           MakeFifo, Lose, Quit, KillServer, EndOfFile, mainVars
  <1>2. \A d \in Clients : client[d] = "lost" => client'[d] = "lost"
    BY DEF Opens, ChildOpenClient, ChildOpenServer, Register, GiveUp,
           MakeFifo, Lose, Quit, KillServer, EndOfFile, clientVars
  <1>3. child'[Junk] = child[Junk]
    BY ClientsAssumption
    DEF Opens, ChildOpenClient, ChildOpenServer, Exits, Register, GiveUp,
        MakeFifo, Lose, Quit, KillServer, EndOfFile
  <1> QED
    BY <1>1, <1>2, <1>3, QueueUntouched

(* A step of main.                                                         *)
LEMMA MainKeepsLine ==
  ASSUME TypeOK, CurrentKnown, DequeuesSomebody, LineKept, Main
  PROVE  LineKept'
  <1>. USE DEF MainGoes, ClientGoes
  <1>1. CASE Enqueue
    <2>1. cur \in Clients /\ IsQueue(queue, Clients) /\ main' # "dead"
          /\ UNCHANGED child
      BY <1>1 DEF Enqueue, CurrentKnown, TypeOK
    <2>2. queue' = enqueue(queue, cur)
      BY <1>1 DEF Enqueue
    <2>3. ASSUME queue'.capacity <= 1
          PROVE  /\ RearRight(queue') /\ InLine(queue') \in Seq(Clients)
                 /\ child'[Junk] = "none"
      <3>1. queue.capacity <= 1 /\ (queue.size < queue.capacity \/ queue.capacity = 0)
        BY <2>1, <2>2, <2>3, EnqueueGrows DEF IsQueue
      <3>2. /\ RearRight(queue) /\ InLine(queue) \in Seq(Clients)
            /\ child[Junk] = "none"
        BY <3>1 DEF LineKept
      <3>3. /\ InLine(queue') = Append(InLine(queue), cur)
            /\ RearRight(queue')
        BY <2>1, <2>2, <3>1, <3>2, EnqueueInOrder
      <3>4. Append(InLine(queue), cur) \in Seq(Clients)
        BY <2>1, <3>2
      <3> QED
        BY <2>1, <3>2, <3>3, <3>4
    <2>4. LineKept' <=> (queue'.capacity <= 1 =>
            /\ RearRight(queue') /\ InLine(queue') \in Seq(Clients)
            /\ child'[Junk] = "none"
            /\ main' = "dead" => \E c \in Clients : client'[c] = "lost")
      BY DEF LineKept, RearRight, InLine, SlotOf, Place
    <2> QED
      BY <2>1, <2>3, <2>4
  <1>2. CASE Dequeue
    <2>1. /\ queue.size > 0 /\ IsQueue(queue, Clients)
          /\ queue' = dequeue(queue)
          /\ UNCHANGED client
      BY <1>2 DEF Dequeue, DequeuesSomebody, TypeOK, clientVars
    <2>2. dequeue(queue).capacity = queue.capacity
      BY <2>1 DEF dequeue
    <2>3. ASSUME queue'.capacity <= 1
          PROVE  /\ RearRight(queue') /\ InLine(queue') \in Seq(Clients)
                 /\ child'[Junk] = "none" /\ main' # "dead"
      <3>1. /\ RearRight(queue) /\ InLine(queue) \in Seq(Clients)
            /\ child[Junk] = "none"
        BY <2>1, <2>2, <2>3 DEF LineKept
      <3>2. /\ dequeued(queue) = Head(InLine(queue))
            /\ InLine(queue') = Tail(InLine(queue))
            /\ RearRight(queue')
        BY <2>1, <3>1, DequeueInOrder
      <3>3. InLine(queue) # <<>>
        <4>1. Len(InLine(queue)) = queue.size
          BY <2>1, InLineSeq
        <4> QED
          BY <2>1, <4>1
      <3>4. Head(InLine(queue)) \in Clients /\ Tail(InLine(queue)) \in Seq(Clients)
        BY <3>1, <3>3
      <3>5. /\ dequeued(queue) \in Clients
            /\ dequeued(queue) # NULL /\ dequeued(queue) # Garbage
            /\ dequeued(queue) # Junk
        BY <3>2, <3>4, ClientsAssumption
      <3>6. createChildProcess(dequeued(queue)) /\ main' = "read"
        BY <1>2, <3>5 DEF Dequeue
      <3>7. child'[Junk] = child[Junk]
        BY <3>5, <3>6 DEF createChildProcess, TypeOK
      <3> QED
        BY <3>1, <3>2, <3>4, <3>6, <3>7
    <2>4. LineKept' <=> (queue'.capacity <= 1 =>
            /\ RearRight(queue') /\ InLine(queue') \in Seq(Clients)
            /\ child'[Junk] = "none"
            /\ main' = "dead" => \E c \in Clients : client'[c] = "lost")
      BY DEF LineKept, RearRight, InLine, SlotOf, Place
    <2> QED
      BY <2>3, <2>4
  <1>3. CASE KillChildren
    <2>1. queue.capacity <= 1 => child'[Junk] = child[Junk]
      BY <1>3, ClientsAssumption DEF KillChildren, LineKept, TypeOK, Alive, Unreaped
    <2>2. CASE queue.capacity <= 1
      BY <1>3, <2>1, <2>2, QueueUntouched DEF KillChildren, clientVars
    <2>3. CASE ~(queue.capacity <= 1)
      BY <1>3, <2>3 DEF KillChildren, LineKept
    <2> QED
      BY <2>2, <2>3
  <1>4. CASE ReapOne \/ WaitOne
    <2>1. PICK c \in DOMAIN child : Reap(c)
      BY <1>4 DEF ReapOne, WaitOne
    <2>2. UNCHANGED <<queue, client, main>>
      BY <1>4 DEF ReapOne, WaitOne, clientVars, mainVars
    <2>3. CASE queue.capacity <= 1
      <3>1. child'[Junk] = child[Junk]
        BY <2>1, <2>3 DEF Reap, LineKept, TypeOK
      <3> QED
        BY <2>2, <3>1, QueueUntouched
    <2>4. CASE ~(queue.capacity <= 1)
      BY <2>2, <2>4 DEF LineKept
    <2> QED
      BY <2>3, <2>4
  <1>5. CASE ReadRegistration \/ TestSigint \/ TestSigchld \/ ReapNone \/ Exit
    BY <1>5, QueueUntouched
    DEF ReadRegistration, TestSigint, TestSigchld, ReapNone, Exit, clientVars
  <1>6. CASE OpenClient \/ Serve \/ TurnAway
    <2>1. cur \in Clients
      BY <1>6 DEF OpenClient, Serve, TurnAway, CurrentKnown
    <2>2. UNCHANGED queue /\ main' # "dead" /\ child'[Junk] = child[Junk]
      BY <1>6, <2>1, ClientsAssumption
      DEF OpenClient, Serve, TurnAway, createChildProcess, TypeOK
    <2>3. \A c \in Clients : client[c] = "lost" => client'[c] = "lost"
      BY <1>6 DEF OpenClient, Serve, TurnAway, TypeOK
    <2> QED
      BY <2>2, <2>3, QueueUntouched
  <1>7. CASE BrokenPipe
    <2>1. client[cur] = "lost" /\ cur \in Clients /\ UNCHANGED <<client, queue, child>>
      BY <1>7 DEF BrokenPipe, CurrentKnown, clientVars
    <2> QED
      BY <2>1, QueueUntouched
  <1> QED
    BY <1>1, <1>2, <1>3, <1>4, <1>5, <1>6, <1>7 DEF Main

(* Whoever may be killed, and however the signals meet: as long as no      *)
(* client has to wait behind another, the queue keeps who waits in it, and *)
(* only the death of a client can end the server.                          *)
THEOREM OneMayWait == Spec => []LineKept
  <1> DEFINE Inv == DequeuesSomebody /\ LineKept
  <1>1. Init => Inv
    <2> SUFFICES ASSUME Init PROVE Inv
      OBVIOUS
    <2>1. queue.size = 0 /\ queue.capacity = 0 /\ main = "read" /\ child[Junk] = "none"
      BY DEF Init, EmptyQueue
    <2>2. InLine(queue) \in Seq(Clients)
      BY <2>1 DEF InLine
    <2> QED
      BY <2>1, <2>2 DEF DequeuesSomebody, LineKept, RearRight
  <1>2. IInv /\ Inv /\ [Next]_vars => Inv'
    <2> SUFFICES ASSUME IInv, Inv, [Next]_vars PROVE Inv'
      OBVIOUS
    <2>. USE DEF IInv
    <2>1. DequeuesSomebody'
      BY DEF DequeuesSomebody, Next, Main, Opens, ChildOpenClient,
             ChildOpenServer, Register, GiveUp, MakeFifo, Lose, Quit,
             KillServer, EndOfFile, mainVars, vars, MainGoes, ReadRegistration,
             OpenClient, Serve, Enqueue, TurnAway, BrokenPipe, TestSigint,
             TestSigchld, ReapOne, ReapNone, Dequeue, KillChildren, WaitOne, Exit,
             Interrupt
    <2>2. CASE Main
      BY <2>1, <2>2, MainKeepsLine
    <2>3. ASSUME NEW c \in Clients,
                 \/ Register(c) \/ GiveUp(c) \/ MakeFifo(c) \/ Lose(c)
                 \/ Opens(c) \/ Quit(c) \/ KillServer(c) \/ EndOfFile(c)
          PROVE  Inv'
      BY <2>1, <2>3, OthersKeepLine
    <2>4. CASE Opens(Junk)
      <3>1. child[Junk] # "none" /\ UNCHANGED queue
        BY <2>4 DEF Opens, ChildOpenClient, ChildOpenServer, mainVars
      <3> QED
        BY <2>1, <3>1 DEF LineKept
    <2>5. CASE UNCHANGED vars
      <3>1. LineKept'
        BY <2>5, QueueUntouched DEF vars
      <3> QED
        BY <2>1, <3>1
    <2>6. CASE Interrupt
      <3>1. LineKept'
        BY <2>6, QueueUntouched DEF Interrupt, mainVars, clientVars
      <3> QED
        BY <2>1, <3>1
    <2> QED
      BY <2>2, <2>3, <2>4, <2>5, <2>6 DEF Next
  <1> QED
    BY <1>1, <1>2, Invariance, PTL DEF Spec

===============================================================================
