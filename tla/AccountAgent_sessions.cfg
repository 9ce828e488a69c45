SPECIFICATION FairSpec
CONSTANTS
  Slot = {"Host", "Secondary"}
  FailLimit = 2
  Fill = {1}
  Faults = {"publish", "request", "stream"}
  MaxChanges = 2
  MaxFailures = 1
INVARIANTS SubscribedOnce WrittenOnce SessionsBeginSighted
PROPERTIES FillIsWritten HostIsServed SecondaryRecovers
