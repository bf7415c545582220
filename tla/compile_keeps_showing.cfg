SPECIFICATION FairSpec
CONSTANTS
  Programs <- BusyPrograms
  Pipeline <- FullPipeline
  RunAfter <- RunOnce
PROPERTY KeepsShowing
CHECK_DEADLOCK FALSE
