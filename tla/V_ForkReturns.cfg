SPECIFICATION FairSpec
CONSTANTS
  MaxTid = 3
  Codes = {7}
  None = None  Poison = Poison  Alive = Alive  Killed = Killed
PROPERTIES ForkReturns
