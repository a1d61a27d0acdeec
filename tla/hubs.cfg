SPECIFICATION Spec
CONSTANTS
  LogReaders = {r1}
  LogCapacity = 1
  PageSize = 2
  MaxEntries = 4
  MaxRestarts = 1
  Runs = {g1, g2}
  Readers = {r1, r2}
  None = None
  Capacity = 1
  MaxEvents = 1
INVARIANTS
  TypeOK
  
  PublishSound
PROPERTIES
  StreamsEnd
CHECK_DEADLOCK FALSE
