SPECIFICATION FairSpec
CONSTANTS
  Option = {1, 2}
  Stock = {3}
  OnDemand = {5}
  MaxSubscriptions = 1
  Refused = {2}
  Faults = {"health", "hint", "subs", "watchlist", "demand", "cancel", "subscribe"}
  MaxChanges = 2
  MaxFailures = 1
INVARIANTS WatchlistWithinCap NoLinesBetweenSessions
PROPERTIES ServesWatchlist SessionEndsOnDisconnect CancelledServiceEnds
