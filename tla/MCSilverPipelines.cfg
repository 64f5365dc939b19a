CONSTANTS
  k1 = k1
  k2 = k2
  i1 = i1
  i2 = i2
  i3 = i3
  i4 = i4
  insert = insert
  change = change
  delete = delete
  again = again
  disagree = disagree
  Event <- MCEvent
  Key = {k1, k2}
  Id = {i1, i2, i3, i4}
  KeyOf <- MCKeyOf
  IdOf <- MCIdOf
  TimeOf <- MCTimeOf
  OrderOf <- MCOrderOf
  StateOf <- MCStateOf
  Tombstone = {delete}
  Pattern = {"append", "scd1", "scd2"}
  Window <- BoundedReplays
  Retained = {insert, again}
  Copies <- MCCopies
SPECIFICATION Spec
INVARIANTS
  TypeOK
  OneRowPerIdentity
  NothingLost
  HistoryIsTrue
  LateEventsHarmless
PROPERTY ReplayKeepsBaseline
