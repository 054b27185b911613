SPECIFICATION Spec
CONSTANTS
  p1 = p1  p2 = p2
  Procs <- TwoProcs
  Uploads = {1, 2, 3, 4}
  PartCount = 2
  Quota = 2
  EditBumpsMtime = TRUE
  MaxFaults = 1
  MaxEdits = 1
INVARIANTS TypeOK CompletedWhole 
PROPERTIES EventuallyUploaded PreservedStays
