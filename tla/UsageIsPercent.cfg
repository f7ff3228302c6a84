SPECIFICATION CpuSpec
CONSTANTS
  NumCPUs = 2
  Width = 4
  MaxRan = 3
  Freqs = {1, 3}
  Sentinel = 9
  NoValue = NoValue
INVARIANTS
  UsageIsPercent
