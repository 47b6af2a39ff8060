---------------------------- MODULE SnapshotRead ----------------------------
(***************************************************************************)
(* What a caller of PlaylistItemsExtractor.extract would like to have: one *)
(* atomic read of a playlist that keeps changing, or an exception.  An     *)
(* item is named by the version it was read from and its position.         *)
(***************************************************************************)
EXTENDS Naturals, Sequences

CONSTANT Sizes       \* the numbers of items a playlist may have

VARIABLES
    sizes,           \* sizes[v]: the number of items of version v
    result           \* NoResult, or what extract returned

readVars == <<sizes, result>>

NoResult == [version |-> 0, items |-> <<>>]
Whole(v) == [version |-> v, items |-> [i \in 1 .. sizes[v] |-> v]]

Init == /\ sizes \in {<<n>> : n \in Sizes}
        /\ result = NoResult

Change == /\ \E n \in Sizes : sizes' = Append(sizes, n)
          /\ UNCHANGED result

\* The whole of the version that is current at this very moment.
Read == /\ result = NoResult
        /\ result' = Whole(Len(sizes))
        /\ UNCHANGED sizes

Spec == Init /\ [][Change \/ Read]_readVars
=============================================================================
