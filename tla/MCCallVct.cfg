SPECIFICATION MCSpec
CONSTANTS
  k1 = k1
  Keys = {k1}
  Numbers = {0, 2}
  Unset = Unset
  NotArray = NotArray
  Replies <- MCReplies
  Vectors <- MCVectors
  Char = {a}
  NUL = NUL
  Times = {1, 2}
  MaxLen = 2
  MaxArgs = 2
INVARIANTS
  CallTypeOK
  AppendsLongestPrefix
  WordsArrive
  EveryDirectiveIsServed
