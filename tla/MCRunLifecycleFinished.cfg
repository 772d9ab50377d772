\* Three components, two with a key they need and one of these with a log of
\* packets; all configurations; two runs, one to leave files and one to find them.
CONSTANTS
  InstallOrder <- Constructed
  WriteOrder <- Written
  Needing = {"utilization", "burst"}
  PacketLogging = {"burst"}
  MaxRuns = 2
SPECIFICATION RlSpec
INVARIANT YesIsAboutLatestRun
CHECK_DEADLOCK FALSE
