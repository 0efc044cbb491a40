\* A client with one stream, two attempts and two descriptors, one posted callback
\* waiting at a time, two calls of the feed
\* handler and two faults of the peer besides the connections that fail.
SPECIFICATION Spec
CONSTANTS
  Fds = {1, 2}
  TimerIds = {1, 2, 3, 4, 5, 6, 7, 8}
  Streams = {trades}
  MaxPosted = 1
  MaxAttempts = 2
  MaxCalls = 2
  MaxFaults = 2
INVARIANTS TimersExact NeverForgotten
PROPERTIES FeedComesBack
CHECK_DEADLOCK FALSE
