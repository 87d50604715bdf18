------------------------------- MODULE PideShop -------------------------------
(***************************************************************************)
(* The pide shop of the final project: the server PideShop.c and the       *)
(* customers HungryVeryMuch.c.  A customer process sends the number of its *)
(* orders over one connection, the orders over a second one, and then      *)
(* listens on the SAME port for the notice that all were served.  In the   *)
(* server, main accepts the two connections and puts the orders into an    *)
(* array; chefs prepare and bake, deliverers hand over up to a bag at a    *)
(* time, and whoever hands over the last one connects back.                *)
(*                                                                         *)
(* Sections under one mutex are one step, except the hand-over, which      *)
(* keeps ordersMutex while it connects, and a look at the orders that      *)
(* finds nothing to do, which is repeated at once.  Both sides set         *)
(* SO_REUSEPORT, so a connection to the host of several listeners reaches  *)
(* any one of them.  Sleeping, routes and logs are left out, but for the   *)
(* log line that reads the array without the mutex.  Memory that nobody    *)
(* initialized holds any value (Junk).                                     *)
(***************************************************************************)
EXTENDS Integers, Sequences, FiniteSets

CONSTANTS
    Chefs, Deliverers, Clients,
    MaxOrders,              \* no client orders more
    CustomerCounts,         \* how many orders the clients may bring
    OverlapCounts,          \* bound: with which of them they may overlap
    MaxTroubles,            \* bound on what customers and network do wrong
    MAX_OVEN_SLOTS, MAX_OVEN_PEELS, MAX_OVEN_CAPACITY,
    MAX_DELIVERY_BAG_CAPACITY,
    SameHost,               \* clients run on the server's host (Makefile)
    NULL

ASSUME OvenAssumption ==
    /\ {MAX_OVEN_SLOTS, MAX_OVEN_PEELS, MAX_OVEN_CAPACITY} \subseteq Nat \ {0}
    /\ MAX_OVEN_SLOTS <= MAX_OVEN_PEELS /\ MAX_OVEN_SLOTS <= MAX_OVEN_CAPACITY
    /\ MAX_DELIVERY_BAG_CAPACITY \in Nat \ {0} /\ MaxOrders \in Nat \ {0}
    /\ CustomerCounts \subseteq [Clients -> 1 .. MaxOrders]
    /\ SameHost \in BOOLEAN

(* Finitely many threads and customers, each with a name of its own.       *)
ASSUME ActorsAssumption ==
    /\ IsFiniteSet(Chefs) /\ IsFiniteSet(Clients)
    /\ Chefs \cap Deliverers = {} /\ NULL \notin Chefs \cup Deliverers \cup Clients

VARIABLES
    main,                   \* the step main is at; "exited": no server
    backlog,                \* connections to server_fd not yet accepted
    new_max_order, max_order, allOrders, received,
    ordersArray, numOrders, deliveredOrders, ordersMutex,
    chef, orderIndex,       \* each chef's step and order
    ovenSlots, ovenPeels, ovenCapacity,
    deliverer, bag,         \* each deliverer's step and collected orders
    asleep,                 \* threads in pthread_cond_wait
    client, customerCount,  \* each client's step and number of orders
    trouble                 \* history: what has kept the shop from its work

mainVars == <<main, new_max_order, max_order, allOrders, received>>
orderVars == <<ordersArray, numOrders, deliveredOrders, ordersMutex>>
oven == <<ovenSlots, ovenPeels, ovenCapacity>>
chefVars == <<chef, orderIndex>>
delivererVars == <<deliverer, bag>>
clientVars == <<client, customerCount>>
vars == <<mainVars, backlog, orderVars, oven, chefVars, delivererVars, asleep,
          clientVars, trouble>>

Indices == 0 .. MaxOrders - 1
Used == {i \in Indices : i < max_order}         \* the loops to max_order

(* How many of the indices S come before i.                                *)
Rank(i, S) == Cardinality({j \in S : j < i})

(* An entry: "offered" stands for send = 1 and isPlaced = 0.               *)
Zeroed == [id |-> 0, status |-> 0, offered |-> FALSE]
Junk == {[Zeroed EXCEPT !.offered = TRUE], [Zeroed EXCEPT !.status = 3]}

Init ==
    /\ main = "listen" /\ backlog = <<>>
    /\ new_max_order = -1 /\ max_order = -1 /\ allOrders = 0 /\ received = NULL
    /\ ordersArray = [i \in Indices |-> Zeroed]
    /\ numOrders = 0 /\ deliveredOrders = 0 /\ ordersMutex = NULL
    /\ chef = [c \in Chefs |-> "order"] /\ orderIndex = [c \in Chefs |-> 0]
    /\ ovenSlots = MAX_OVEN_SLOTS /\ ovenPeels = MAX_OVEN_PEELS
    /\ ovenCapacity = 0
    /\ deliverer = [d \in Deliverers |-> "collect"]
    /\ bag = [d \in Deliverers |-> <<>>]
    /\ asleep = {}
    /\ client = [c \in Clients |-> "start"]
    /\ customerCount \in CustomerCounts
    /\ trouble = {}

-----------------------------------------------------------------------------
Listening == main \in {"count", "alloc", "orders"}
Present == {c \in Clients : client[c] \in {"counted", "ordered", "waiting"}}

(* The server's listener is named NULL.  A customer who was told still     *)
(* listens until he closes.                                                *)
Open == {c \in Clients : client[c] \in {"waiting", "told"}}
AtServer == (IF Listening THEN {NULL} ELSE {}) \cup (IF SameHost THEN Open ELSE {})
AtClients == Open \cup (IF SameHost /\ Listening THEN {NULL} ELSE {})

ClientGoes(c, from, to) == client[c] = from /\ client' = [client EXCEPT ![c] = to]

(* Client c connects and sends.  Another client that waits takes what      *)
(* comes for its notice; one that was told never takes it.                 *)
Connect(c, kind, to, harm) ==
    /\ UNCHANGED <<mainVars, orderVars, oven, chefVars, delivererVars, asleep,
                   customerCount>>
    /\ \/ /\ AtServer = {} /\ client' = [client EXCEPT ![c] = "failed"]
          /\ trouble' = trouble \cup harm
          /\ UNCHANGED backlog
       \/ /\ NULL \in AtServer /\ client' = [client EXCEPT ![c] = to]
          /\ trouble' = trouble \cup harm
          /\ backlog' = Append(backlog, [kind |-> kind, from |-> c])
       \/ \E w \in AtServer \ {NULL} :
            /\ client' = [client EXCEPT ![c] = to, ![w] = "told"]
            /\ trouble' = trouble \cup harm \cup {"astray"}
            /\ UNCHANGED backlog

(* Bound: so many kinds of trouble may come from outside.                  *)
MoreTrouble == Cardinality(trouble) < MaxTroubles

SendCount(c) ==
    /\ client[c] = "start"
    /\ MoreTrouble
    /\ Present # {} => customerCount \in OverlapCounts
    /\ Connect(c, "count", "counted", IF Present = {} THEN {} ELSE {"overlap"})

SendOrders(c) ==
    /\ client[c] = "counted"
    /\ Connect(c, "orders", "ordered", {})

wait_for_notification(c) ==
    /\ \/ ClientGoes(c, "ordered", "waiting")
       \/ ClientGoes(c, "told", "served")
    /\ UNCHANGED <<mainVars, backlog, orderVars, oven, chefVars, delivererVars,
                   asleep, customerCount, trouble>>

(* SIGINT or SIGTERM.                                                      *)
Cancel(c) ==
    /\ c \in Present /\ MoreTrouble
    /\ client' = [client EXCEPT ![c] = "cancelled"]
    /\ trouble' = trouble \cup {"cancelled"}
    /\ UNCHANGED <<mainVars, backlog, orderVars, oven, chefVars, delivererVars,
                   asleep, customerCount>>

-----------------------------------------------------------------------------
Listen ==
    /\ main = "listen" /\ main' = "count"
    /\ UNCHANGED <<backlog, new_max_order, max_order, allOrders, received,
                   orderVars, oven, chefVars, delivererVars, asleep, clientVars,
                   trouble>>

(* What is no number leaves new_max_order as the last round left it.       *)
AcceptCount ==
    /\ main = "count" /\ backlog # <<>>
    /\ backlog' = Tail(backlog)
    /\ new_max_order' = IF Head(backlog).kind = "count"
                        THEN customerCount[Head(backlog).from] ELSE new_max_order
    /\ main' = IF new_max_order' # max_order THEN "alloc" ELSE "orders"
    /\ UNCHANGED <<max_order, allOrders, received, orderVars, oven, chefVars,
                   delivererVars, asleep, clientVars, trouble>>

(* free and malloc, without ordersMutex.                                   *)
Reallocate ==
    /\ main = "alloc" /\ main' = "orders"
    /\ max_order' = new_max_order
    /\ \E junk \in Junk : ordersArray' = [i \in Indices |-> junk]
    /\ UNCHANGED <<backlog, new_max_order, allOrders, received, numOrders,
                   deliveredOrders, ordersMutex, oven, chefVars, delivererVars,
                   asleep, clientVars, trouble>>

(* Closing the listener drops the connections that wait there.             *)
AcceptOrders ==
    /\ main = "orders" /\ backlog # <<>>
    /\ received' = Head(backlog) /\ backlog' = <<>>
    /\ main' = "install"
    /\ UNCHANGED <<new_max_order, max_order, allOrders, orderVars, oven,
                   chefVars, delivererVars, asleep, clientVars, trouble>>

(* The orders that really came: one read may return only the first of what *)
(* was sent.  The rest of the copied memory is junk.                       *)
Sent == {i \in Used : received.kind = "orders" /\ i < customerCount[received.from]}
Came == {Sent} \cup (IF MoreTrouble THEN {{i \in Sent : i < n} : n \in Indices} ELSE {})

(* Mutant: pthread_cond_signal instead of the broadcast.                   *)
WakeOne ==
    LET S == {t \in asleep : t \in Chefs => chef[t] = "order"}
    IN  IF S = {} THEN UNCHANGED asleep ELSE \E t \in S : asleep' = asleep \ {t}

(* All that sleep on orderAvailable.                                       *)
WakeAll == asleep' = {t \in asleep : t \in Chefs /\ chef[t] # "order"}

(* The copied orders replace what the array holds, and everybody is woken. *)
Install ==
    /\ main = "install" /\ ordersMutex = NULL
    /\ main' = "listen" /\ received' = NULL
    /\ \E C \in Came, offered \in BOOLEAN :
       \E S \in {T \in SUBSET Used : C \subseteq T} :
         /\ ordersArray' = [i \in Indices |-> IF i \in S
                              THEN [id |-> allOrders + Rank(i, S), status |-> 0,
                                    offered |-> i \in C \/ offered]
                              ELSE ordersArray[i]]
         /\ trouble' = trouble \cup (IF C = Sent THEN {} ELSE {"short"})
         /\ allOrders' = allOrders + Cardinality(S)
         /\ numOrders' = numOrders + Cardinality(S)
    /\ WakeAll
    /\ UNCHANGED <<backlog, new_max_order, max_order, deliveredOrders,
                   ordersMutex, oven, chefVars, delivererVars, clientVars>>

Main == Listen \/ AcceptCount \/ Reallocate \/ AcceptOrders \/ Install

-----------------------------------------------------------------------------
(* Thread t sleeps on its condition.                                       *)
Sleep(t) ==
    /\ asleep' = asleep \cup {t}
    /\ UNCHANGED <<mainVars, backlog, orderVars, oven, chefVars, delivererVars,
                   clientVars, trouble>>

(* pthread_cond_signal: one of the sleepers S wakes up, if there are any.  *)
Signal(S) == IF S \cap asleep = {} THEN UNCHANGED asleep
             ELSE \E t \in S \cap asleep : asleep' = asleep \ {t}

ChefsAt(step) == {c \in Chefs : chef[c] = step}
AwaitOrders == ChefsAt("order") \cup Deliverers

ChefGoes(c, from, to) == chef[c] = from /\ chef' = [chef EXCEPT ![c] = to]
SetStatus(i, s) == ordersArray' = [ordersArray EXCEPT ![i].status = s]

(* The first of the used indices in S.                                     *)
First(S) == CHOOSE i \in S : \A j \in S : i <= j
Offered == {i \in Used : ordersArray[i].status = 0 /\ ordersArray[i].offered}

(* Thread t finds orders but nothing to do: it lets go of the mutex and    *)
(* looks again.                                                            *)
Look(t, todo) ==
    /\ \/ ordersMutex = NULL /\ numOrders # 0 /\ todo = {} /\ ordersMutex' = t
       \/ ordersMutex = t /\ ordersMutex' = NULL
    /\ UNCHANGED <<mainVars, backlog, ordersArray, numOrders, deliveredOrders,
                   oven, chefVars, delivererVars, asleep, clientVars, trouble>>

TakeOrder(c) ==
    /\ chef[c] = "order"
    /\ \/ Look(c, Offered)
       \/ ordersMutex = NULL /\ numOrders = 0 /\ Sleep(c)
       \/ /\ ordersMutex = NULL /\ numOrders # 0 /\ Offered # {}
          /\ ordersArray' = [ordersArray EXCEPT ![First(Offered)].status = 1,
                                                ![First(Offered)].offered = FALSE]
          /\ orderIndex' = [orderIndex EXCEPT ![c] = First(Offered)]
          /\ ChefGoes(c, "order", "slot")
          /\ UNCHANGED <<mainVars, backlog, numOrders, deliveredOrders, ordersMutex,
                         oven, delivererVars, asleep, clientVars, trouble>>

TakeSlot(c) ==
    /\ chef[c] = "slot"
    /\ \/ ovenSlots <= 0 /\ Sleep(c)
       \/ /\ ovenSlots > 0 /\ ovenSlots' = ovenSlots - 1
          /\ ChefGoes(c, "slot", "peel")
          /\ UNCHANGED <<mainVars, backlog, orderVars, ovenPeels, ovenCapacity,
                         orderIndex, delivererVars, asleep, clientVars, trouble>>

TakePeel(c) ==
    /\ chef[c] = "peel"
    /\ \/ ovenPeels <= 0 /\ Sleep(c)
       \/ /\ ovenPeels > 0 /\ ovenPeels' = ovenPeels - 1
          /\ ChefGoes(c, "peel", "oven")
          /\ UNCHANGED <<mainVars, backlog, orderVars, ovenSlots, ovenCapacity,
                         orderIndex, delivererVars, asleep, clientVars, trouble>>

(* The status is written under ovenMutex only.                             *)
PlaceInOven(c) ==
    /\ chef[c] = "oven"
    /\ \/ ovenCapacity >= MAX_OVEN_CAPACITY /\ Sleep(c)
       \/ /\ ovenCapacity < MAX_OVEN_CAPACITY /\ ovenCapacity' = ovenCapacity + 1
          /\ SetStatus(orderIndex[c], 2)
          /\ ChefGoes(c, "oven", "cooking")
          /\ UNCHANGED <<mainVars, backlog, numOrders, deliveredOrders, ordersMutex,
                         ovenSlots, ovenPeels, orderIndex, delivererVars, asleep,
                         clientVars, trouble>>

TakeOut(c) ==
    /\ ChefGoes(c, "cooking", "free_slot")
    /\ ovenCapacity' = ovenCapacity - 1
    /\ Signal(ChefsAt("oven"))
    /\ UNCHANGED <<mainVars, backlog, orderVars, ovenSlots, ovenPeels, orderIndex,
                   delivererVars, clientVars, trouble>>

(* Mutant: the slot stays taken.                                           *)
FreeSlotForgotten(c) ==
    /\ ChefGoes(c, "free_slot", "free_peel")
    /\ UNCHANGED <<mainVars, backlog, orderVars, oven, orderIndex, delivererVars,
                   asleep, clientVars, trouble>>

FreeSlot(c) ==
    /\ ChefGoes(c, "free_slot", "free_peel")
    /\ ovenSlots' = ovenSlots + 1
    /\ Signal(ChefsAt("slot"))
    /\ UNCHANGED <<mainVars, backlog, orderVars, ovenPeels, ovenCapacity,
                   orderIndex, delivererVars, clientVars, trouble>>

FreePeel(c) ==
    /\ ChefGoes(c, "free_peel", "ready")
    /\ ovenPeels' = ovenPeels + 1
    /\ Signal(ChefsAt("peel"))
    /\ UNCHANGED <<mainVars, backlog, orderVars, ovenSlots, ovenCapacity,
                   orderIndex, delivererVars, clientVars, trouble>>

Ready(c) ==
    /\ ChefGoes(c, "ready", "log") /\ ordersMutex = NULL
    /\ SetStatus(orderIndex[c], 3)
    /\ Signal(AwaitOrders)
    /\ UNCHANGED <<mainVars, backlog, numOrders, deliveredOrders, ordersMutex, oven,
                   orderIndex, delivererVars, clientVars, trouble>>

(* The log line reads the number of the order without the mutex.  Main may *)
(* have freed the array, or have a smaller one: the process may crash.     *)
LogReady(c) ==
    /\ ChefGoes(c, "log", "order")
    /\ orderIndex' = [orderIndex EXCEPT ![c] = 0]
    /\ \/ UNCHANGED <<main, trouble>>
       \/ /\ main = "alloc" \/ orderIndex[c] \notin Used
          /\ main' = "exited" /\ trouble' = trouble \cup {"stale"}
    /\ UNCHANGED <<new_max_order, max_order, allOrders, received, backlog, orderVars,
                   oven, delivererVars, asleep, clientVars>>

ChefStep(c) ==
    /\ c \notin asleep /\ main # "exited"
    /\ \/ TakeOrder(c) \/ TakeSlot(c) \/ TakePeel(c) \/ PlaceInOven(c)
       \/ TakeOut(c) \/ FreeSlot(c) \/ FreePeel(c) \/ Ready(c) \/ LogReady(c)

-----------------------------------------------------------------------------
(* Mutant: what is in the oven is taken as well.                           *)
BakedOrBaking == {i \in Used : ordersArray[i].status \in {2, 3}}

(* The first baked orders, as many as the bag holds.                       *)
Baked == {i \in Used : ordersArray[i].status = 3}

Nth(S, n) == CHOOSE i \in S : Rank(i, S) = n - 1

Bagful == {i \in Baked : Rank(i, Baked) < MAX_DELIVERY_BAG_CAPACITY}

Collect(d) ==
    /\ deliverer[d] = "collect"
    /\ \/ Look(d, Bagful)
       \/ ordersMutex = NULL /\ numOrders = 0 /\ Sleep(d)
       \/ /\ ordersMutex = NULL /\ numOrders # 0 /\ Bagful # {}
          /\ ordersArray' = [i \in Indices |->
               IF i \in Bagful THEN [ordersArray[i] EXCEPT !.status = 4]
                               ELSE ordersArray[i]]
          /\ bag' = [bag EXCEPT ![d] =
               [n \in 1 .. Cardinality(Bagful) |-> ordersArray[Nth(Bagful, n)].id]]
          /\ deliverer' = [deliverer EXCEPT ![d] = "deliver"]
          /\ UNCHANGED <<mainVars, backlog, numOrders, deliveredOrders, ordersMutex,
                         oven, chefVars, asleep, clientVars, trouble>>

(* The server is the client now; without a listener all of it exits.       *)
sendNotification ==
    \/ /\ AtClients = {} /\ main' = "exited"
       /\ trouble' = trouble \cup {"unheard"}
       /\ UNCHANGED <<backlog, client>>
    \/ /\ NULL \in AtClients
       /\ backlog' = Append(backlog, [kind |-> "notice", from |-> NULL])
       /\ trouble' = trouble \cup {"unheard"}
       /\ UNCHANGED <<main, client>>
    \/ \E c \in AtClients \ {NULL} :
         /\ client' = [client EXCEPT ![c] = "told"]
         /\ trouble' = trouble \cup (IF client[c] = "told" THEN {"unheard"} ELSE {})
         /\ UNCHANGED <<main, backlog>>

(* Mutant: the notice goes out one order early.                            *)
NearlyAllDelivered == deliveredOrders + 2 >= max_order

AllDelivered == deliveredOrders + 1 = max_order

(* One order after the other, with ordersMutex from the first to the last. *)
HandOver(d) ==
    /\ deliverer[d] = "deliver" /\ ordersMutex \in {NULL, d}
    /\ LET last == Len(bag[d]) = 1 IN
         /\ ordersMutex' = IF last THEN NULL ELSE d
         /\ deliverer' = [deliverer EXCEPT ![d] = IF last THEN "collect" ELSE "deliver"]
    /\ bag' = [bag EXCEPT ![d] = Tail(@)]
    /\ ordersArray' = [i \in Indices |->
         IF i \in Used /\ ordersArray[i].id = Head(bag[d]) THEN Zeroed
         ELSE ordersArray[i]]
    /\ numOrders' = numOrders - 1
    /\ IF AllDelivered
       THEN deliveredOrders' = 0 /\ sendNotification
       ELSE /\ deliveredOrders' = deliveredOrders + 1
            /\ UNCHANGED <<main, backlog, client, trouble>>
    /\ UNCHANGED <<new_max_order, max_order, allOrders, received, oven, chefVars,
                   asleep, customerCount>>

DelivererStep(d) ==
    /\ d \notin asleep /\ main # "exited"
    /\ Collect(d) \/ HandOver(d)

-----------------------------------------------------------------------------
ClientStep(c) == SendOrders(c) \/ wait_for_notification(c)

Next ==
    \/ Main
    \/ \E c \in Chefs : ChefStep(c)
    \/ \E d \in Deliverers : DelivererStep(d)
    \/ \E c \in Clients : SendCount(c) \/ ClientStep(c) \/ Cancel(c)

Spec == Init /\ [][Next]_vars

(* Every thread is scheduled.  One that waits for ordersMutex gets it in   *)
(* the end, although others that look again and again keep taking it: the  *)
(* program counts on that, pthread mutexes do not promise it.              *)
FairSpec ==
    /\ Spec /\ SF_vars(Main)
    /\ \A c \in Chefs : SF_vars(ChefStep(c))
    /\ \A d \in Deliverers : SF_vars(DelivererStep(d))
    /\ \A c \in Clients : WF_vars(ClientStep(c))

-----------------------------------------------------------------------------
OrdersOf(c) == [kind |-> "orders", from |-> c]
Connections == [kind : {"count", "orders"}, from : Clients]
                 \cup {[kind |-> "notice", from |-> NULL]}
Entries == [id : Nat, status : 0 .. 4, offered : BOOLEAN]

TypeOK ==
    /\ main \in {"listen", "count", "alloc", "orders", "install", "exited"}
    /\ backlog \in Seq(Connections)
    /\ received \in Connections \cup {NULL}
    /\ main = "install" => received \in Connections
    /\ new_max_order \in -1 .. MaxOrders /\ max_order \in -1 .. MaxOrders
    /\ allOrders \in Nat
    /\ ordersArray \in [Indices -> Entries]
    /\ numOrders \in Int /\ deliveredOrders \in Nat
    /\ ordersMutex \in Chefs \cup Deliverers \cup {NULL}
    /\ chef \in [Chefs -> {"order", "slot", "peel", "oven", "cooking",
                            "free_slot", "free_peel", "ready", "log"}]
    /\ orderIndex \in [Chefs -> Indices]
    /\ ovenSlots \in 0 .. MAX_OVEN_SLOTS /\ ovenPeels \in 0 .. MAX_OVEN_PEELS
    /\ ovenCapacity \in 0 .. MAX_OVEN_CAPACITY
    /\ deliverer \in [Deliverers -> {"collect", "deliver"}]
    /\ bag \in [Deliverers -> Seq(Nat)]
    /\ \A d \in Deliverers : deliverer[d] = "collect" <=> bag[d] = <<>>
    /\ asleep \subseteq Chefs \cup Deliverers
    /\ client \in [Clients -> {"start", "counted", "ordered", "waiting", "failed",
                               "cancelled", "told", "served"}]
    /\ customerCount \in [Clients -> 1 .. MaxOrders]
    /\ trouble \subseteq {"overlap", "cancelled", "unheard", "short", "astray", "stale"}

Chefs_(steps) == {c \in Chefs : chef[c] \in steps}

(* Slots, peels and places in the oven are counted right, whatever the     *)
(* customers do; who has slot and peel never waits for the oven, and who   *)
(* sleeps for a slot or peel is not forgotten.                             *)
KitchenExact ==
    /\ ovenSlots = MAX_OVEN_SLOTS
         - Cardinality(Chefs_({"peel", "oven", "cooking", "free_slot"}))
    /\ ovenPeels = MAX_OVEN_PEELS
         - Cardinality(Chefs_({"oven", "cooking", "free_slot", "free_peel"}))
    /\ ovenCapacity = Cardinality(Chefs_({"cooking"}))
    /\ asleep \cap Chefs_({"oven"}) = {}
    /\ asleep \cap Chefs_({"slot"}) # {}
         => ovenSlots <= Cardinality(Chefs_({"slot"}) \ asleep)
    /\ asleep \cap Chefs_({"peel"}) # {}
         => ovenPeels <= Cardinality(Chefs_({"peel"}) \ asleep)

Calm == trouble = {}

(* PideShop.c:397: as long as customers come one after the other and the   *)
(* network holds, nobody uses the array while main replaces it but a chef  *)
(* at the log line of an order that was delivered, and nobody sleeps while *)
(* there are orders.                                                       *)
ArrayUnused ==
    Calm =>
      /\ main = "alloc" =>
           /\ numOrders = 0 /\ Chefs_({"order", "log"}) = Chefs
           /\ \A d \in Deliverers : bag[d] = <<>>
      /\ numOrders > 0 => asleep \cap AwaitOrders = {}

-----------------------------------------------------------------------------
(* The parts of the inductive invariant, as long as nothing troubles the   *)
(* shop.  There is one customer at most, who is either still being taken   *)
(* in, step by step of main, or has orders that are worked on.             *)
CustomerRight ==
    /\ main # "exited"
    /\ \A b, c \in Present : b = c
    /\ Present = {} =>
         main \in {"listen", "count"} /\ backlog = <<>> /\ numOrders = 0
    /\ \A c \in Present :
         LET sent(s) == IF client[c] = "counted" THEN s ELSE Append(s, OrdersOf(c)) IN
         IF numOrders > 0
         THEN client[c] # "counted" /\ main \in {"listen", "count"} /\ backlog = <<>>
         ELSE \/ /\ main = "count"
                 /\ backlog = sent(<<[kind |-> "count", from |-> c]>>)
              \/ /\ main \in {"alloc", "orders"} /\ backlog = sent(<<>>)
                 /\ new_max_order = customerCount[c]
                 /\ main = "orders" => max_order = new_max_order
              \/ /\ main = "install" /\ backlog = <<>>
                 /\ client[c] # "counted" /\ received = OrdersOf(c)
                 /\ max_order = customerCount[c]

(* The orders that are not delivered yet are as many as are counted, have  *)
(* different numbers, and each chef and each place in a bag has one of its *)
(* own.                                                                    *)
Undelivered == {i \in Used : ordersArray[i].status # 0 \/ ordersArray[i].offered}
AtWork == {c \in Chefs : chef[c] \notin {"order", "log"}}
StatusAt(step) == IF step \in {"slot", "peel", "oven"} THEN 1 ELSE 2

OrdersRight ==
    /\ numOrders >= 0
    /\ numOrders = 0 =>
         deliveredOrders = 0 /\ AtWork = {} /\ \A d \in Deliverers : bag[d] = <<>>
    /\ numOrders > 0 =>
         /\ numOrders + deliveredOrders = max_order
         /\ Cardinality(Undelivered) = numOrders
         /\ \A i, j \in Undelivered : ordersArray[i].id = ordersArray[j].id => i = j
         /\ \A c \in AtWork :
              /\ orderIndex[c] \in Used
              /\ ordersArray[orderIndex[c]].status = StatusAt(chef[c])
         /\ \A b, c \in AtWork : orderIndex[b] = orderIndex[c] => b = c
         /\ asleep \cap AwaitOrders = {}

BagsRight ==
    /\ \A d \in Deliverers : \A n \in DOMAIN bag[d] :
         \E i \in Used : ordersArray[i].status = 4 /\ ordersArray[i].id = bag[d][n]
    /\ \A d, e \in Deliverers : \A n \in DOMAIN bag[d], m \in DOMAIN bag[e] :
         bag[d][n] = bag[e][m] => d = e /\ n = m

(* Every customer whose orders were taken has raised the number by his.    *)
Taken == {c \in Clients : client[c] # "start" /\ (c \in Present => numOrders > 0)}
NumbersRight == allOrders <= Cardinality(Taken) * MaxOrders

IInv ==
    /\ TypeOK /\ KitchenExact
    /\ Calm => CustomerRight /\ OrdersRight /\ BagsRight /\ NumbersRight

-----------------------------------------------------------------------------
InShop(S) == {ordersArray[i].id : i \in {j \in Used : ordersArray[j].status \in S}}
Contract == INSTANCE PideContract WITH
    Orders <- 0 .. Cardinality(Clients) * MaxOrders - 1,
    calm <- Calm,
    todo <- IF Calm /\ numOrders > 0
            THEN InShop({1, 2}) \cup {ordersArray[i].id : i \in Offered} ELSE {},
    baked <- IF Calm /\ numOrders > 0 THEN InShop({3, 4}) ELSE {},
    served <- IF Calm THEN Cardinality({c \in Clients : client[c] \in {"told", "served"}}) ELSE 0
(* Until something troubles the shop, it keeps the contract: every order   *)
(* is baked before it is delivered, delivered once, and the customer told  *)
(* with the last one.                                                      *)
ContractKept == Contract!Spec

(* The customer whose orders were sent is told in the end, unless          *)
(* customers overlap, one is cancelled, his orders are read short, a       *)
(* connection reaches a customer it is not for, the notice finds nobody or *)
(* the log line finds the array freed.                                     *)
Owed == \E c \in Clients : client[c] \in {"ordered", "waiting"}
CustomerServed == Owed ~> ~Owed \/ ~Calm
===============================================================================
