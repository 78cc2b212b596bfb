SPECIFICATION FairSpec
CONSTANT N = 3
INVARIANTS   LiveHasRunner StopIsNotMissed
PROPERTIES JournalIsKept IssuanceIsOrdered RunsSettle
