CONSTANTS
    MaxServices = 2
    MaxStarts = 3
    MaxDeaths = 1
SPECIFICATION FairSpec
INVARIANT LatestStartIsServed
PROPERTIES
    StopSelfSparesJobs
    ServedWhileWanted
    SwitchedOffIsStopped
