\* No fault at all: the file is processed, then the metadata.
CONSTANTS
  Jobs = {j1}
  Updates = {u1}
  Deletes = {}
  MaxAttempts = 3
  MaxStalls = 1
SPECIFICATION HealthySpec
PROPERTIES
  PublishedWhenReady
