------------------------------- MODULE WaitQueue -------------------------------
(***************************************************************************)
(* The wait queue of MidtermProject/common.c: a ring of pointers to client *)
(* records that doubles when it is full.  The operators are the functions  *)
(* of common.c on a record q with the fields of struct queue; a slot holds *)
(* a client, NULL (dequeue clears the slot) or, after malloc, Garbage:     *)
(* whatever the memory held.  malloc itself never fails here.              *)
(***************************************************************************)
EXTENDS Integers

CONSTANT NULL, Garbage

(* The queue as main sets it up: no ring at all.                           *)
EmptyQueue == [front |-> 0, rear |-> 0, size |-> 0, capacity |-> 0,
               elements |-> <<>>]

(* Mutant: the index does not wrap around.                                 *)
AfterNoWrap(q, i) == i + 1

(* The index after i in the ring.                                          *)
After(q, i) == IF i = q.capacity - 1 THEN 0 ELSE i + 1

(* How many times the copying loop of resize_queue runs: until front meets *)
(* rear.  A full ring has them equal, like an empty one.                   *)
Copied(q) == IF q.rear >= q.front THEN q.rear - q.front
                                  ELSE q.rear + q.capacity - q.front

resize_queue(q) ==
    LET new_capa == IF q.capacity = 0 THEN 1 ELSE 2 * q.capacity IN
    [front |-> 0, rear |-> Copied(q), size |-> q.size, capacity |-> new_capa,
     elements |-> [i \in 0 .. new_capa - 1 |->
                     IF i < Copied(q)
                     THEN q.elements[(q.front + i) % q.capacity]
                     ELSE Garbage]]

enqueue(q, item) ==
    LET r == IF q.size = q.capacity THEN resize_queue(q) ELSE q IN
    [r EXCEPT !.elements[r.rear] = item,
              !.rear = After(r, r.rear),
              !.size = r.size + 1]

(* What dequeue returns, and what it leaves behind.                        *)
dequeued(q) == IF q.size = 0 THEN NULL ELSE q.elements[q.front]

dequeue(q) ==
    IF q.size = 0 THEN q
    ELSE [q EXCEPT !.elements[q.front] = NULL,
                   !.front = After(q, q.front),
                   !.size = q.size - 1]

(* A queue is well formed: the indices lie in the ring.                    *)
IsQueue(q, Items) ==
    /\ q = [front |-> q.front, rear |-> q.rear, size |-> q.size,
            capacity |-> q.capacity, elements |-> q.elements]
    /\ q.capacity \in Nat /\ q.size \in 0 .. q.capacity
    /\ q.front \in Nat /\ q.rear \in Nat
    /\ q.front = 0 \/ q.front < q.capacity
    /\ q.rear = 0 \/ q.rear < q.capacity
    /\ q.elements \in [0 .. q.capacity - 1 -> Items \cup {NULL, Garbage}]
===============================================================================
