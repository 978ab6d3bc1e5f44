\* Two clients, one scan with two gates, three CREATE statements.
SPECIFICATION FairSpec
CONSTANTS
  alice = alice
  bob = bob
  s1 = s1
  Nobody = Nobody
  Nil = Nil
  NaN = NaN
  Inf = Inf
  User = {alice, bob}
  Client = {alice, bob}
  Scan = {s1}
  ElevationCount = 1
  AzimuthBins = 1
  RangeGates = 2
  One = 1
  Schema = 3
  MaxStops = 1
  MaxAttempts <- MCMaxAttempts
  Batches <- MCBatches
INVARIANTS
  TypeOK
  AnswersAddUp
  AnswersHonest
  RetryInsertsNothing
PROPERTIES
  RowsAreAtomic
  UploadsEnd
