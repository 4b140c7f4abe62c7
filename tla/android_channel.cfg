\* One call of the Dart API is enough to see that it meets no handler.
SPECIFICATION Spec
CONSTANTS
  ApiChannel     <- MCApiChannel
  HandlerChannel <- MCHandlerChannel
  MaxCalls = 2
INVARIANT ApiReachesHandler
CHECK_DEADLOCK FALSE
