\* Requests that share a route and one that does not, one of
\* which may fail in every way.  Handlers answer with a status that is neither the
\* recorder's initial one nor the recovery's.
SPECIFICATION FairSpec
CONSTANTS
  r1 = r1
  r2 = r2
  r3 = r3
  events = events
  run = run
  Requests = {r1, r2, r3}
  Keys = {events, run}
  KeyOf <- MCKeyOf
  Statuses = {404}
  NoExport = NoExport
  FaultsOf <- MCFaultsOf
  Outages = {"lost", "signal"}
INVARIANTS
  GaugeCatchesUp
  OneWholeAnswer
  CountedAsSent
PROPERTIES
  IdleRoutesForgotten
