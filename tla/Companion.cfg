CONSTANTS
  RestartInterval = 1
  Handshake = 0
  Grace = 0
  Mics = {"On"}
  Mic = {"On"}
  Settings = {FALSE, TRUE}
  Bonds = {TRUE}
SPECIFICATION Spec
INVARIANTS
  RadioGivenBack
PROPERTIES
  AdvertisesAgain
  NoHostMaySleep
  StatusReachesScreen
