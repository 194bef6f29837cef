----------------------------- MODULE FlashQueue -----------------------------
(***************************************************************************)
(* What the flash store promises its callers (spec.md sections 1, 4.4 and *)
(* 8), independent of flash: each store is a FIFO queue of objects; a     *)
(* dequeue hands out the oldest object under a single lease that release  *)
(* returns; retrieve leases any object not yet relinquished; relinquish   *)
(* deletes an object; the object count is the number of objects enqueued *)
(* and not relinquished.  A call that fails changes nothing.              *)
(***************************************************************************)
EXTENDS Integers, Sequences, FiniteSets

CONSTANTS Stores, Oids

NoObject == 0

VARIABLES queue, lease, live, count

qvars == <<queue, lease, live, count>>

Known == UNION {live[s] \cup {queue[s][i] : i \in DOMAIN queue[s]} : s \in Stores}

Init ==
    /\ queue = [s \in Stores |-> <<>>]
    /\ lease = [s \in Stores |-> NoObject]
    /\ live  = [s \in Stores |-> {}]
    /\ count = [s \in Stores |-> 0]

Enqueue(s, o) ==
    /\ o \notin Known
    /\ queue' = [queue EXCEPT ![s] = Append(@, o)]
    /\ live'  = [live EXCEPT ![s] = @ \cup {o}]
    /\ count' = [count EXCEPT ![s] = @ + 1]
    /\ UNCHANGED lease

Dequeue(s) ==
    /\ lease[s] = NoObject
    /\ queue[s] # <<>>
    /\ lease' = [lease EXCEPT ![s] = Head(queue[s])]
    /\ queue' = [queue EXCEPT ![s] = Tail(@)]
    /\ UNCHANGED <<live, count>>

Retrieve(s, o) ==
    /\ lease[s] = NoObject
    /\ o \in live[s]
    /\ lease' = [lease EXCEPT ![s] = o]
    /\ UNCHANGED <<queue, live, count>>

Release(s) ==
    /\ lease[s] # NoObject
    /\ lease' = [lease EXCEPT ![s] = NoObject]
    /\ UNCHANGED <<queue, live, count>>

Relinquish(s, o) ==
    /\ o \in live[s]
    /\ live'  = [live EXCEPT ![s] = @ \ {o}]
    /\ count' = [count EXCEPT ![s] = @ - 1]
    /\ queue' = [queue EXCEPT ![s] = SelectSeq(@, LAMBDA x : x # o)]
    /\ UNCHANGED lease

Next ==
    \E s \in Stores :
        \/ \E o \in Oids : Enqueue(s, o) \/ Retrieve(s, o) \/ Relinquish(s, o)
        \/ Dequeue(s)
        \/ Release(s)

Spec == Init /\ [][Next]_qvars
=============================================================================
