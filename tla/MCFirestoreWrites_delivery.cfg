SPECIFICATION FairSpec
CONSTANTS
    ann = ann
    bob = bob
    Users <- MCUsers
    FirstUser = ann
    MaxPendingWrites = 2
    MaxWrites = 3
    MaxFaults = 2
INVARIANTS TypeOK PipelineIsFront ToldTheTruth WaitedForAll StreamSound NeverStalled
PROPERTIES ImplementsWriteLog EveryWriteSettles
