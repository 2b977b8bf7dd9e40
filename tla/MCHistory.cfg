CONSTANTS
  Texts = {"", "a"}
  Length <- MCLength
  CAP = 2
SPECIFICATION HistorySpec
PROPERTY ImplementsTimeline
