\* Two workers with one thread each, two tasks, two attempts, one failure.  t1 is the
\* only task of a batch b1 and t2 of a batch b10, and every id that begins with b10
\* begins with b1.
SPECIFICATION FairSpec
CONSTANTS
  Tasks = {t1, t2}
  Batches = {{t1}, {t2}}
  Prefixed = {{t1, t2}, {t2}}
  Workers = {w1, w2}
  Threads = {1}
  MaxConcurrent = 1
  MaxRetries = 2
  MaxFailures = 1
INVARIANTS InOnePlace
PROPERTIES EndsOrIsLost
