SPECIFICATION Spec
CONSTANTS
  Setter = {s1}
  Sender = {o1, o2}
  Getter = {g1, g2}
  MaxSession = 2
  MaxSetup = 2
  MaxObs = 2
INVARIANTS
  ObservationsCorrect
  WakeupNotLost
PROPERTIES
  AnswersCurrent
  WaitersReleased
