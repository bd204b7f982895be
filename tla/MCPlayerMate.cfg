SPECIFICATION FairSpec
CONSTANT MaxSem = 3
INVARIANTS TypeOK SleepExcludesWork DelayIsSetBeforeUse NoUseAfterFree
PROPERTIES SleepReturns ReleaseReturns
