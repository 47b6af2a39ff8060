-------------------------- MODULE MCSilverCuration --------------------------
(* Entries that meet: every kind that is rejected or that the parser refuses,  *)
(* a track listed twice with differing metadata, names missing in one place    *)
(* only, shared artists.                                                       *)
EXTENDS SilverCuration

NoTrack(item, type, entryLocal, itemLocal) ==
    [item |-> item, type |-> type, entryLocal |-> entryLocal, itemLocal |-> itemLocal, id |-> Null,
     name |-> 0, duration |-> 0, album |-> <<Null, 0>>, listed |-> FALSE, artists |-> <<>>]

Track(entryLocal, itemLocal, id, name, duration, album, artists) ==
    [item |-> "object", type |-> "track", entryLocal |-> entryLocal, itemLocal |-> itemLocal, id |-> id,
     name |-> name, duration |-> duration, album |-> album, listed |-> TRUE, artists |-> artists]

MCEntries == {
    NoTrack("missing", "none", "missing", "missing"), NoTrack("null", "none", "missing", "missing"),
    NoTrack("null", "none", "null", "missing"), NoTrack("object", "none", "false", "false"),
    NoTrack("object", "episode", "false", "missing"), NoTrack("object", "chapter", "true", "false"),
    NoTrack("object", "track", "false", "false"),
    Track("missing", "true", Null, 1, 1, <<Null, 0>>, <<>>),
    Track("true", "false", Blank, 1, 1, <<4, 1>>, << <<4, 1>> >>),
    Track("missing", "false", 4, 1, 1, <<4, 1>>, << <<4, 1>>, <<5, 1>> >>),
    Track("missing", "false", 4, 1, 2, <<4, 2>>, << <<5, 2>>, <<4, 0>> >>),
    Track("false", "false", 4, 0, 1, <<Null, 0>>, << <<Null, 1>>, <<4, 1>> >>),
    Track("false", "missing", 5, 1, 0, <<5, 0>>, <<>>),
    Track("false", "false", 5, 1, 1, <<Blank, 1>>, << <<Blank, 1>>, <<NoKey, 0>>, <<Odd, 1>> >>)}
=============================================================================
