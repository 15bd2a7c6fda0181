\* Two edits, two builds and a half of writes, two clients, kills everywhere.
CONSTANTS
  MaxEdits = 2
  MaxTime = 11
  Clients = 2
SPECIFICATION Spec
INVARIANTS StaleOnlyByCut SnapshotUsable
