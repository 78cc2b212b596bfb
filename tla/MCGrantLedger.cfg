SPECIFICATION FairSpec
CONSTANTS
    first = first
    process = process
    Grants = {first, process}
    Slots = {"task"}
    SlotOf <- MCSlotOf
    Attempt <- MCAttempt
    Controlled = {process}
    Runners = {r1, r2}
    MaxReceipts = 2
    NoGrant = NoGrant
    NoRunner = NoRunner
INVARIANTS
    StartedAtMostOnce
    UncertainAttemptBlocksRetry
    ReportMatchesRow
PROPERTIES
    StopBeforePollPreventsStart
    ImplementsContract
    RunsEnd
