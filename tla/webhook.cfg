\* Two deliveries to one endpoint, two workers, two attempts each, an endpoint
\* that is disabled after two failures; one fault or PATCH request.
SPECIFICATION FairSpec
CONSTANTS
  v1 = v1
  v2 = v2
  e1 = e1
  w1 = w1
  w2 = w2
  NoOne = NoOne
  Events <- TwoEvents
  Endpoints <- OneEndpoint
  Wants <- WantsAll
  Unsafe <- None
  Workers <- TwoWorkers
  MaxTries = 2
  Threshold = 2
  MaxStalled = 1
  MaxFaults = 1
INVARIANTS
  TypeOK
  RepeatsAreBounded
  RetriesAgree
  FailuresAreCounted
PROPERTIES
  DisabledByFailures
  AtLeastOnce
  DeliveriesSettle
CHECK_DEADLOCK FALSE
