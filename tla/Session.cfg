SPECIFICATION FairSpec
CONSTANTS
  Faults = {"call", "link", "timeout", "early", "register", "exit"}
INVARIANTS
  Inv
  DescriptorNamesBoundWindow
  ReceivePostedForSend
  DescriptorReadWhole
  WaitsPopTheirOwn
  SetupsLeavePrefixes
PROPERTIES
  KeepsPromise
  BothReturn
  TakenRequestGetsReady
CHECK_DEADLOCK FALSE
