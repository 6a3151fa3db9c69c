CONSTANTS
  call = call
  fax = fax
  attempt = attempt
  None = None
  Name = {fax}
  Rewritten = {fax}
  Raced = {}
  Broken = {}
  MaxWrites = 2
  MaxSources = 2
  MaxCrashes = 1
  Kind <- MCKind
SPECIFICATION FairSpec
INVARIANTS TypeOK SentWasAccepted LatestEventKept AcceptedFaxHasDocument OnePlace
PROPERTIES SourceRemovedOnlyAfterAck ImplementsDelivery EventuallyFiled
