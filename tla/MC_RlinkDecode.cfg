CONSTANTS
  MCCodes = {"rreg", "rblk", "labo", "wblk"}
  MaxCmds = 2
  BlkSizes = {1, 2}
  DataVals = {5}
  SeqVals = {0, 1}
SPECIFICATION Spec
INVARIANTS
  DecodeMatchesReference
  StatusCheckOnOwnReply
  ExecCountsCheckFailures
CHECK_DEADLOCK FALSE
