SPECIFICATION Spec
CONSTANTS
  HistoryLen = 3
  RefreshRate = 2
  StorageRate = 4
  MaxStall = 3
  GpuReadings = {0, 2}
  MemReadings = {1}
  RxReadings = {0, 2}
  TxReadings = {1}
  Widths = {0, 7, 8, 9, 20}
  NoReading = NoReading
INVARIANTS
  TypeOK
  HistoriesAligned
  PlotSafe
  PeakCoversHistory
  StorageFresh
