\* Three calls of either channel, with the plugin detached at any time.
SPECIFICATION FairSpec
CONSTANTS
  ApiChannel     <- MCApiChannel
  HandlerChannel <- MCHandlerChannel
  MaxCalls = 3
INVARIANTS
  TypeOK
  DetachedCallsAreHarmless
PROPERTY EveryCallEnds
\* When every call has ended nobody has to call again.
CHECK_DEADLOCK FALSE
