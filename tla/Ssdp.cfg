SPECIFICATION FairSpec
CONSTANTS
  Addrs = {a1, a2, a3}
  NoAddr = NoAddr
  Loopback = Loopback
  Mixed = Mixed
  WlanFirst = TRUE
  MaxChanges = 3
CHECK_DEADLOCK FALSE
INVARIANTS
  TypeOK
  AdvertisedIsJoined
  AddressHeld
  ExitExplained
PROPERTIES
  StopsUnlessSilent
