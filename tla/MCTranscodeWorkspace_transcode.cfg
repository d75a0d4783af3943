\* Two runs over two sources, with every failure and crashes.
CONSTANTS
  Sources <- MCSources
  None = None
  MaxRuns = 2
  MaxUploads = 1
SPECIFICATION FairSpec
INVARIANTS
  TypeOK
  InterimStaysHome
  RenditionIsConsistent
PROPERTIES
  ComesToRest
