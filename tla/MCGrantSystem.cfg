SPECIFICATION Spec
CONSTANTS
    N = 2
    MaxSessions = 2
INVARIANTS
    JournalIsTrue
    EffectsInOrder
    FinishedIsQuiet
PROPERTIES
    JobIsFollowed
