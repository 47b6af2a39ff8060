--------------------------- MODULE WriteOnceStore ---------------------------
(***************************************************************************)
(* What the immutable stores of the platform promise: a key receives a     *)
(* whole value once and keeps it.                                          *)
(***************************************************************************)
CONSTANTS Keys, Values, Absent

VARIABLE store

Init == store = [k \in Keys |-> Absent]

Put(k, v) == store[k] = Absent /\ store' = [store EXCEPT ![k] = v]

Spec == Init /\ [][\E k \in Keys, v \in Values : Put(k, v)]_store
=============================================================================
