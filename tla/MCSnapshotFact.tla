--------------------------- MODULE MCSnapshotFact ---------------------------
(* Instances of SnapshotFact for TLC.                                       *)
EXTENDS SnapshotFact, TLC

CONSTANTS r1, r2, r3, r4, a, b

\* Retries: three attempts of the first day (one with a track twice; the second
\* and third, an empty playlist, with one snapshot time), one of the second day.
RetryRuns   == {r1, r2, r3, r4}
RetryDateOf == r1 :> 1 @@ r2 :> 1 @@ r3 :> 1 @@ r4 :> 2
RetryStamp  == r1 :> 1 @@ r2 :> 2 @@ r3 :> 2 @@ r4 :> 3
RetrySlots  == r1 :> (0 :> b @@ 1 :> b) @@ r2 :> (1 :> a) @@ r3 :> << >> @@ r4 :> (0 :> b)

\* History: one attempt a day on three days; one track leaves and comes back.
DayRuns   == {r1, r2, r3}
DayDateOf == r1 :> 1 @@ r2 :> 2 @@ r3 :> 3
DayStamp  == r1 :> 1 @@ r2 :> 2 @@ r3 :> 3
DaySlots  == r1 :> (0 :> a) @@ r2 :> (0 :> b @@ 1 :> b) @@ r3 :> (0 :> a @@ 1 :> b)
=============================================================================
