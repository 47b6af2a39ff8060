CONSTANTS
    Entries <- MCEntries
    MaxEntries = 3
    MaxExecutions = 2
SPECIFICATION Spec
INVARIANTS EveryEntryOnce KindsAgree ObservationMatchesSlots ReferencesResolve CompletionIsTrue
PROPERTIES SameRowsAgain
CHECK_DEADLOCK FALSE
