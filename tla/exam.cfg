SPECIFICATION SessionFairSpec
CONSTANTS
  Weights = {1, 2, 5}
  Caps = {1, 4}
  Lengths = {2, 6}
  MaxTopics = 3
  PerQuestion = 2
  MaxQuestions = 2
INVARIANTS OneClock ClockCoversTime SettledInOrder SharesWithinCaps LengthOrTopics HeavierNotShorted
PROPERTY TimedExamEnds
