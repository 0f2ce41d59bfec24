SPECIFICATION FairSpec
CONSTANTS
  Devs = {d1, d2}
  NoDev = NoDev
  NumSerials = 3
  Descriptions <- MCDescriptions
  MaxPlugs = 3
  MaxFaults = 1
INVARIANTS TypeOK MapsAgree OpenIsOwned ListingIsCurrent
PROPERTIES ImplementsRegistry AttachedIsListed DetachedIsDelisted UnclaimedWatchedIsResolved
