CONSTANTS
  j1 = j1
  j2 = j2
  i1 = i1
  i2 = i2
  i3 = i3
  i4 = i4
  i5 = i5
  i6 = i6
  Jobs <- MCJobs
  IDs <- MCIDs
  MaxRestarts = 0
  MaxFailures = 2
SPECIFICATION Spec
INVARIANT TypeOK
INVARIANT LiveJobTrackedOnce
INVARIANT FinishedJobReleased
INVARIANT NoOrphanWorker
INVARIANT AtMostOneLiveWorker
PROPERTY JobEventuallyOnline
PROPERTY FollowsLifecycle
CHECK_DEADLOCK FALSE
