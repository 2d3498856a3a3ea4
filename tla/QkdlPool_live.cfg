SPECIFICATION FairSpec
CONSTANTS
  Session = {s1, s2}
  q1 = q1
  Pool <- OneLink
  None = None
  InitRetries = 2
  MaxReports = 1
  MaxCancels = 1
  MaxFaults <- Unanswered
PROPERTIES InitEnds LinkGivenBack
CHECK_DEADLOCK FALSE
