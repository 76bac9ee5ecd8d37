SPECIFICATION FairSpec
CONSTANTS
  Events = {"request", "upload"}
  Persists = {"proxy", "controller", "other"}
  EventOf <- MCEventOf
  WithImage = {"proxy", "other"}
  WithFile = {"controller"}
  ContentDays = 1
  AttachmentDays = 2
  Batch = 1
  MaxDays = 3
  MaxFailures = 2
INVARIANT  NoOrphanBlobsWhenCalm RowsInOrder
PROPERTY ExpiredIsPurged
CHECK_DEADLOCK FALSE
