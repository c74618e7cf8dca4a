\* Four starts, two calls of the file system that fail, any calls
\* of CloudWatch that fail, and exits at any moment.
SPECIFICATION DropSpec
CONSTANTS
  MaxStarts = 4
  MaxFailures = 2
INVARIANTS PanicsOnlyTorn PublishesReports
PROPERTY Published
CHECK_DEADLOCK FALSE
