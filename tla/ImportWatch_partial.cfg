SPECIFICATION Spec
CONSTANTS
  NumFiles = 1
  NumServices = 1
  Configured = {1}
  Earlier = {}
  FromOne = {}
  PageSize = 2
  MaxRecords = 2
  MaxFaults = 0
PROPERTY
  DeletedWasTaken
CHECK_DEADLOCK FALSE
