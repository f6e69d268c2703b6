CONSTANTS
  j1 = j1
  j2 = j2
  i1 = i1
  i2 = i2
  i3 = i3
  i4 = i4
  i5 = i5
  i6 = i6
  Jobs <- MCJobs
  IDs <- MCIDs5
  MaxRestarts = 1
  MaxFailures = 1
SYMMETRY Symmetry
SPECIFICATION Spec
INVARIANT LiveJobTrackedOnce
CHECK_DEADLOCK FALSE
PROPERTY FollowsLifecycle
