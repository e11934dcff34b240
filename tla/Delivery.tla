------------------------------ MODULE Delivery ------------------------------
(***************************************************************************)
(* What track() promises, without queue, batches, locks or requests: the   *)
(* items a client was handed reach memory at most once and without gaps,   *)
(* and one that cannot is given up for good, before anything queued after  *)
(* it may be seen.  (The module comment of niadra/_queue.py.)              *)
(***************************************************************************)
EXTENDS Naturals

CONSTANT MaxItems

VARIABLES
  offered,   \* how many items track() was handed; an item is its number
  memory,    \* the items memory holds
  givenUp    \* the items the client gave up on

vars == <<offered, memory, givenUp>>

Init == offered = 0 /\ memory = {} /\ givenUp = {}

Offer ==
  /\ offered < MaxItems
  /\ offered' = offered + 1
  /\ givenUp' \in {givenUp, givenUp \cup {offered + 1}}
  /\ UNCHANGED memory

\* Several items become visible together; none of them leaves an earlier one behind.
Deliver ==
  /\ memory' \in SUBSET (1..offered) /\ memory \subseteq memory'
  /\ \A i \in memory' : 1..i \subseteq memory' \cup givenUp
  /\ UNCHANGED <<offered, givenUp>>

GiveUp ==
  /\ givenUp' \in SUBSET (1..offered) /\ givenUp \subseteq givenUp'
  /\ UNCHANGED <<offered, memory>>

Next == Offer \/ Deliver \/ GiveUp

Spec == Init /\ [][Next]_vars
=============================================================================
