SPECIFICATION Spec
CONSTANTS
  Sockets <- MCSockets
  RemoteOrder <- MCRemoteOrder
  MaxSockets = 4
  MaxChanges = 1
INVARIANTS
  TypeOK
  FilterInPlace
  RowsAreRemotes
