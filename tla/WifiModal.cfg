SPECIFICATION FairSpec
CONSTANTS
  wlan0 = wlan0
  wlan1 = wlan1
  cafe = cafe
  home = home
  lab = lab
  Ifaces <- MCIfaces
  Networks <- MCNetworks
  OpenNets <- MCOpenNets
  Visible <- MCVisible
  Printable <- MCPrintable
  Goroutines = {g1, g2}
  NoIface = NoIface
  NoNet = NoNet
  NoOp = NoOp
  MaxIfaces = 2
  MaxNets = 2
  MaxPwd = 2
  OpChCap = 4
  NoJob = NoJob
  NoReport = NoReport
INVARIANTS
  TypeOK
  OneOperation
  CommandTargetsSelection
  SelectionInRange
  ListedOnSelected
  PasswordForgotten
  PaintedRight
PROPERTIES
  OnlyUserOpens
  ImplementsSession
  BusyEnds
