SPECIFICATION FairSpec
CONSTANTS
  i1 = i1
  i2 = i2
  NoId = NoId
  Ids <- MCIds
  Requests = {r1, r2, r3}
  Answers <- MCAnswers
  Offers <- MCOffers
  Life = 1
  Wait = 1
PROPERTIES DroppedStaysAway EveryCallEnds
CHECK_DEADLOCK FALSE
