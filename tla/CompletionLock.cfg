\* Two requests, the collector and a bus thread.
SPECIFICATION Spec
CONSTANTS
  host1 = host1
  host2 = host2
  bgc = bgc
  bus = bus
  dev = dev
  map = map
  wb = wb
  bio = bio
  queue = queue
  None = None
  Thread = {host1, host2, bgc, bus}
  Lock = {dev, map, wb, bio, queue}
  Nesting <- MCNesting
  Rank <- MCRank
  MaxRank = 2
INVARIANTS TypeOK Mutex Token NoDeadlock
