---------------------------- MODULE MCDemoSource -----------------------------
(* Corpora for DemoSource: nine tracks of playlist 2 in which a row is       *)
(* repeated, invalid or of another, smaller playlist.                        *)
EXTENDS DemoSource

Row(p, t) == [playlist |-> p, track |-> t, valid |-> TRUE]
Clean(n) == [i \in 1 .. n |-> Row(2, i)]
Repeated(i, at) == InsertAt(Clean(9), at, Row(2, i))
Invalid(i) == [Clean(9) EXCEPT ![i].valid = FALSE]
OtherFirst(n) == [i \in 1 .. n |-> Row(1, i)] \o Clean(8)

MCCorpora ==
    {Clean(7), Clean(8), OtherFirst(7), OtherFirst(8)}
      \cup {Repeated(i, at) : i \in {1, 6}, at \in {1, 5, 9}}
      \cup {Invalid(i) : i \in {1, 8}}
=============================================================================
