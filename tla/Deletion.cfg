CONSTANTS
  Keys = {1,2,3,4,5,6,7,8}
  NoNode = NoNode
  Balancing = {TRUE}
SPECIFICATION Spec
INVARIANT AlwaysBalanced
CHECK_DEADLOCK FALSE
