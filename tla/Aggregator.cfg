\* Two threads with queues of one sample, two samples each, and two files: a
\* Record() may straddle the end of one file and the start of the next.
CONSTANTS
  Threads = {t1, t2}
  QueueCapacity = 1
  MaxSamples = 2
  MaxFiles = 2
SPECIFICATION Spec
INVARIANTS EachWrittenOnce StopWritesOut
\* Nothing has to be recorded.
CHECK_DEADLOCK FALSE
