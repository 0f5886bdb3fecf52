\* Two calls, two filters of three sizes, one key. Merges in a circle stop
\* for good, so the system may deadlock: CallsReturn says that nothing else does.
CONSTANTS
  Threads = {t1, t2}
  Filters = {f1, f2}
  Keys = {"k1"}
  Hash1 <- MCHash1
  Hash2 <- MCHash2
  Word = 16
  Sizes <- MCSizes
  MaxItems = 1
SPECIFICATION FairSpec
INVARIANTS
  TypeOK
  NoFalseNegatives
  CountCoversBits
  
PROPERTY CallsReturn
CHECK_DEADLOCK FALSE
