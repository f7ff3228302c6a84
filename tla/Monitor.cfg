SPECIFICATION FairSpec
CONSTANTS
  wlan0 = wlan0
  cafe = cafe
  Ifaces = {wlan0}
  Networks = {cafe}
  OpenNets = {}
  Visible <- MCVisible
  Printable = {"q", "w"}
  Goroutines = {g1}
  NoIface = NoIface
  NoNet = NoNet
  NoOp = NoOp
  MaxIfaces = 1
  MaxNets = 1
  MaxPwd = 1
  OpChCap = 4
  HistoryLen = 2
  RefreshRate = 2
  StorageRate = 2
  MaxStall = 1
  GpuReadings = {}
  MemReadings = {}
  RxReadings = {}
  TxReadings = {}
  Widths = {20}
  NoReading = NoReading
  Addresses = {ip1}
  NoAddress = NoAddress
  NotAnAddress = NotAnAddress
PROPERTIES
  ViewsImplemented
  RefreshGoesOn
  AddressShown
