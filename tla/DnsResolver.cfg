SPECIFICATION DnsFairSpec
CONSTANTS
  Addrs = {a1, a2}
  Names = {n1, n2}
  Goroutines = {g1, g2}
  TTL = 2
  NoName = NoName
  None = None
INVARIANTS
  DnsTypeOK
  SingleLookup
PROPERTIES
  AnsweredWhenReleased
  AnswersHold
  LookupEnds
