SPECIFICATION MCSpec
CONSTANTS
  Tasks = {t1, t2}
  StoredLists <- AllLists
  Workers = {w1, w2}
  Durations = {0, 1, 2}
  Targets = {auto, noTarget, 1, 2}
  AutoTarget = auto
  NoTarget = noTarget
  NoEndpoint = noEndpoint
INVARIANT FailuresExitWithOne
