SPECIFICATION LiveSpec
CONSTANTS
  p1 = p1
  p2 = p2
  p3 = p3
  Producers = {p1, p2, p3}
  Free = Free
INVARIANTS PollableWakeRemains ExitsIdle
PROPERTIES ItemsTaken
