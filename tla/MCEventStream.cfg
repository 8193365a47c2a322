SPECIFICATION Spec
CONSTANTS
  Clients = {c1}
  MaxFrames = 3
  MaxWire = 5
  MaxEvents = 7
  MaxEpochs = 3
INVARIANTS
  FeedInv
PROPERTY
  FeedMovesOn
