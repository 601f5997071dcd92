CONSTANTS
  root = root
  doc = doc
  new = new
  l1 = l1
  l2 = l2
  l3 = l3
  h1 = h1
  h2 = h2
  Object <- MCObject
  Root = root
  Remote <- MCRemote
  Lock <- MCLock
  Handle <- MCHandle
SPECIFICATION Spec
CHECK_DEADLOCK FALSE
PROPERTY ExclusiveLockRefuses
