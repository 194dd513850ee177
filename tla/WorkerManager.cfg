\* A limit of two workers, asked for one or two at a time, two servers.
CONSTANTS
  r1 = r1  r2 = r2
  Request = {r1, r2}
  NULL = NULL
  Limit = 2
  Counts = {1, 2}
  MaxCall = 4
  MaxServer = 2
SPECIFICATION FairSpec
INVARIANTS
  NoWorkerForgotten LimitHolds NamesIdentifyWorkers StoppedBeforeWipe
PROPERTIES
  RequestsReturn
