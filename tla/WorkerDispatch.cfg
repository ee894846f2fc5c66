\* One controller, its worker, and at most eight calls: after a few, every call
\* is like the one before.  The system stops once the context is freed.
SPECIFICATION DispatchSpec

CONSTANT
  MaxCalls = 8

INVARIANTS
  ControllerWaits
  DestroyedUnused

PROPERTIES
  Synchronous
  CallReturns

CHECK_DEADLOCK FALSE
