SPECIFICATION Spec
CONSTANTS
  s1 = s1
  s2 = s2
  s3 = s3
  t2 = t2
  NoState = NoState
  States <- MCStates
  Parent <- MCParent
  Ancestor <- MCAncestor
  MaxQueue = 2
INVARIANT CaughtUpIsConfirmed
