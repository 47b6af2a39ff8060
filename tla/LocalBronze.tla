---------------------------- MODULE LocalBronze -----------------------------
(***************************************************************************)
(* LocalBronzeWriter.write (ingestion/persistence.py): processes publish   *)
(* snapshots in one Bronze directory.  Each writes and syncs a temporary   *)
(* file of its own and links it to the destination, which fails if the     *)
(* destination exists.  A process may be killed, or the machine may lose   *)
(* power, at any point.  A file is named by the process that created it.   *)
(* LocalFilesProofs proves the properties for any writers and keys.        *)
(***************************************************************************)
CONSTANTS
    Writers,
    Keys            \* destinations: capture date, run and playlist

VARIABLES
    key,          \* of each writer, its destination
    pc, result,   \* of each writer; result: "published" or "error" once it is known
    content,      \* of each writer's file: "none", "part" or "whole"
    durable,      \* the files that were synced
    temporaries,  \* the temporary names that exist
    bronze,       \* of each destination, the file it names
    powerLost     \* has power ever been lost?

vars == <<key, pc, result, content, durable, temporaries, bronze, powerLost>>
files == <<content, durable, temporaries, bronze>>

Absent == "absent"
Active(w) == pc[w] \notin {"idle", "returned", "killed"}

\* serialize_bronze_snapshot and build_bronze_playlist_key refuse any other.
Destinations == Keys

Init ==
    /\ key \in [Writers -> Destinations]
    /\ pc = [w \in Writers |-> "idle"] /\ result = [w \in Writers |-> "none"]
    /\ content = [w \in Writers |-> "none"] /\ durable = {} /\ temporaries = {}
    /\ bronze = [k \in Keys |-> Absent]
    /\ powerLost = FALSE

Goto(w, from, to) ==
    /\ pc[w] = from /\ pc' = [pc EXCEPT ![w] = to]
    /\ UNCHANGED <<key, powerLost>>

\* Every path after the temporary file exists goes through the finally block.
Finally(w, r) == Goto(w, pc[w], "cleanup") /\ result' = [result EXCEPT ![w] = r]

CreateTemporary(w) ==
    /\ Goto(w, "idle", "created")
    /\ content' = [content EXCEPT ![w] = "part"] /\ temporaries' = temporaries \cup {w}
    /\ UNCHANGED <<result, durable, bronze>>

WriteAndFlush(w) ==
    /\ Goto(w, "created", "written")
    /\ content' = [content EXCEPT ![w] = "whole"]
    /\ UNCHANGED <<result, durable, temporaries, bronze>>

Sync(w) ==
    /\ Goto(w, "written", "synced")
    /\ durable' = durable \cup {w}
    /\ UNCHANGED <<result, content, temporaries, bronze>>

\* The disk is full, or write, flush, fsync or link raises another OSError.
OperationFails(w) ==
    /\ pc[w] \in {"created", "written", "synced"}
    /\ Finally(w, "error")
    /\ UNCHANGED files

Link(w) ==
    /\ pc[w] = "synced" /\ bronze[key[w]] = Absent
    /\ bronze' = [bronze EXCEPT ![key[w]] = w]
    /\ Finally(w, "published")
    /\ UNCHANGED <<content, durable, temporaries>>

AlreadyExists(w) ==
    pc[w] = "synced" /\ bronze[key[w]] # Absent /\ Finally(w, "error") /\ UNCHANGED files

Unlink(w) ==
    /\ Goto(w, "cleanup", "returned")
    /\ temporaries' = temporaries \ {w}
    /\ UNCHANGED <<result, content, durable, bronze>>

Write(w) ==
    \/ CreateTemporary(w) \/ WriteAndFlush(w) \/ Sync(w) \/ OperationFails(w)
    \/ Link(w) \/ AlreadyExists(w) \/ Unlink(w)

Kill(w) == Active(w) /\ Goto(w, pc[w], "killed") /\ UNCHANGED <<result, files>>

\* What was not synced may be gone, and so may any name, since the directory is
\* never synced.
PowerLoss ==
    /\ powerLost' = TRUE
    /\ pc' = [w \in Writers |-> IF Active(w) THEN "killed" ELSE pc[w]]
    /\ \E broken \in SUBSET (Writers \ durable) :
         content' = [w \in Writers |-> IF w \in broken /\ content[w] = "whole" THEN "part"
                                       ELSE content[w]]
    /\ \E gone \in SUBSET Keys :
         bronze' = [k \in Keys |-> IF k \in gone THEN Absent ELSE bronze[k]]
    /\ temporaries' \in SUBSET temporaries
    /\ UNCHANGED <<key, result, durable>>

Next == PowerLoss \/ \E w \in Writers : Write(w) \/ Kill(w)

Spec == Init /\ [][Next]_vars

-----------------------------------------------------------------------------
TypeOK ==
    /\ key \in [Writers -> Keys]
    /\ pc \in [Writers -> {"idle", "created", "written", "synced", "cleanup", "returned", "killed"}]
    /\ result \in [Writers -> {"none", "published", "error"}]
    /\ content \in [Writers -> {"none", "part", "whole"}]
    /\ durable \subseteq Writers /\ temporaries \subseteq Writers
    /\ bronze \in [Keys -> Writers \cup {Absent}]
    /\ powerLost \in BOOLEAN

\* A destination is created once, by the link: no step but a power loss changes
\* what it names, a process death included.
DestinationsStay ==
    [][PowerLoss \/ \A k \in Keys : bronze[k] # Absent => bronze'[k] = bronze[k]]_vars

\* Of the processes that write one run's playlist, exactly the one whose file is
\* at the destination has reported success, until power is lost.
WinnerIsPublished ==
    \A w \in Writers : result[w] = "published" /\ ~powerLost => bronze[key[w]] = w

\* What is at a destination is a whole snapshot, also after a power loss.
PublishedIsWhole == \A k \in Keys : bronze[k] # Absent => content[bronze[k]] = "whole"

\* Nothing but a kill or a power loss leaves a temporary file behind.
NoLeftovers == \A w \in temporaries : Active(w) \/ pc[w] = "killed"

-----------------------------------------------------------------------------
(* The inductive invariant, in named parts.                                 *)

\* Durable files are whole, and their writers past the sync.
DurableIsWhole ==
    /\ \A w \in Writers : pc[w] = "written" => content[w] = "whole"
    /\ \A w \in durable : content[w] = "whole" /\ pc[w] \notin {"idle", "created", "written"}

\* Only durable files are linked.
LinkedIsDurable ==
    /\ \A w \in Writers : pc[w] = "synced" => w \in durable
    /\ \A k \in Keys : bronze[k] # Absent => bronze[k] \in durable

LocalInv == TypeOK /\ DurableIsWhole /\ LinkedIsDurable /\ NoLeftovers
=============================================================================
