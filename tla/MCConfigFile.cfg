SPECIFICATION FairSpec
CONSTANTS
  Documents <- Complete
  Given = {"u0"}
  Rates = {"0"}
  Refused = {"0"}
  Zones = {"UTC"}
  Urls = {}
  Tokens = {"t1"}
INVARIANTS
  TypeOK
  ShownIsInForce
PROPERTIES
  StartsAsMeant
  ValidFileStarts
CHECK_DEADLOCK FALSE
