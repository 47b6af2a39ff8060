------------------------- MODULE PublicationLadder -------------------------
(***************************************************************************)
(* What the pipeline promises about the physical identity of a record: its *)
(* evidence is produced in one order, each piece once, and never revoked,  *)
(* and nothing is served before every record's evidence is complete.       *)
(* CurationDag implements this under retries, clears, timeouts, dead       *)
(* workers and lost responses.                                             *)
(***************************************************************************)
CONSTANT Records

VARIABLES
    rung,    \* how far the evidence of each record has got
    served   \* a dbt build over the records has completed

ladderVars == <<rung, served>>

\* The evidence that lets a record leave each rung.
NextRung == [absent |-> "staged",      \* the Bronze object
             staged |-> "claimed",     \* submission.json
             claimed |-> "executed",   \* the curation job's only execution
             executed |-> "published"] \* complete.json, after all Parquet

Init == rung = [r \in Records |-> "absent"] /\ served = FALSE

Climb(r) ==
    /\ rung[r] \in DOMAIN NextRung
    /\ rung' = [rung EXCEPT ![r] = NextRung[rung[r]]]
    /\ UNCHANGED served

Serve ==
    /\ \A r \in Records : rung[r] = "published"
    /\ served' = TRUE
    /\ UNCHANGED rung

Spec == Init /\ [][Serve \/ \E r \in Records : Climb(r)]_ladderVars
=============================================================================
