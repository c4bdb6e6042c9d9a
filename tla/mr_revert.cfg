SPECIFICATION Spec
CONSTANTS
  nightly = nightly
  manual = manual
  Trainer = {nightly}
  Nightly = nightly
  Val = {1, 2, 3}
  MaxRuns = 3
  MaxFaults = 0
  MaxDeletes = 0
INVARIANT NewOnlyIfBetter
