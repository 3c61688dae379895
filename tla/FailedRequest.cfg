CONSTANTS
  CheckInterval = 2
  Installed = 2
  Released = {1, 2, 3}
  LastCheckTime = 5
  MaxNoticeFaults = 2
SPECIFICATION NoticeSpec
PROPERTY FailedRequestChangesNothing
