\* Three receivers share the state directory; disk and Popen errors and
\* crashes, or none of them.
CONSTANTS
  Keys = {k1}
  Bindings = {paidA, paidB, unpaid}
  PaidBindings = {paidA, paidB}
  Receivers = {r1, r2, r3}
  Faults = {"disk", "spawn", "crash"}
  MaxSpawns = 2
  NoMarker = NoMarker
  Partial = Partial
  NoDispatch = NoDispatch
SPECIFICATION MCSpec
INVARIANTS
  OneSpawn
  BoundToReservation
PROPERTIES
  AcceptedGetsWorker
  ImplementsSpawnOnce
CHECK_DEADLOCK FALSE
