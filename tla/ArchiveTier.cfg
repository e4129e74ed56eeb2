SPECIFICATION FairSpec
CONSTANTS
  MaxWrites = 3
  MaxNow = 3
  MaxCrashes = 3
  Tiers <- MCTiers
  Colder <- MCColder
  None = None
INVARIANTS NoBytesLost ServedFromFile
PROPERTY ArchiveSettles
