\* One task, two workers, one failure.
SPECIFICATION FairSpec
CONSTANTS
  Tasks = {t1}
  Batches = {{t1}}
  Prefixed = {{t1}}
  Workers = {w1, w2}
  Threads = {1}
  MaxConcurrent = 1
  MaxRetries = 2
  MaxFailures = 1
PROPERTIES EveryTaskEnds
