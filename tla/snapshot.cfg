SPECIFICATION FairChannelSpec
CONSTANTS
  Caller = {w1, w2}
  Device = {d1, d2}
  None = None
  MaxChanges = 1
INVARIANTS
  SlotIsHolders
PROPERTIES
  SnapshotsAreHonest
  SnapshotReturns
