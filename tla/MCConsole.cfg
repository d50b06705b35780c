SPECIFICATION ConsoleSpec
CONSTANTS
  a = a  b = b  NoKey = NoKey
  Keys <- TwoKeys
  RingSize = 4
  TextKeys <- OneKey
  HIST_MAX = 2
  MaxInput = 2
  MaxLines = 4
INVARIANT LineFits
INVARIANT HistoryExact
PROPERTY ImplementsFifo
PROPERTY DropsOnlyWhenFull
PROPERTY RecallInOrder
