SPECIFICATION FairSpec
CONSTANTS
  ra = ra
  rb = rb
  rc = rc
  w1 = w1
  Runs = {ra, rb, rc}
  Parks <- ParksOf
  Stage <- StageOf
  Cancelable = {ra}
  Callers = {w1}
  On <- OnOf
  Inside = {}
  MaxVisited = 4
  MaxTries <- TriesOf
  Reapable = {rb}
  Flaky = {ra}
  MaxTroubles = 1
INVARIANTS
  JoinSound
  StatusHonest
  NothingMissed
  NoStandingCycle
  WakeIsTrue
  CascadeExact
PROPERTY
  EveryWaitEnds
