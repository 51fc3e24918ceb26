SPECIFICATION Spec
CONSTANTS
  Arguments = {a1, a2}
  MaxHandles = 3
  MaxNamespaces = 2
  MaxFunctions = 1
  MaxClients = 2
INVARIANTS EveryHandleIsFound CurrentIsRight SystemFollowsDefault ArgsOfTheRunningClient
PROPERTY HandlesAreNotReused
