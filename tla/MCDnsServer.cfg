\* Two updates, any query at any time.
SPECIFICATION Spec
CONSTANTS
  Labels = {"a", "b"}
  Vips = {0, 1, 2}
  ListenHost = 0
  Updates <- MCUpdates
  Queries <- MCQueries
  MaxUpdates = 2
INVARIANTS AnswerWasCurrent PublishedInOrder ZoneRules
PROPERTY ServerStops
CHECK_DEADLOCK FALSE
