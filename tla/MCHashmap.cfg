SPECIFICATION Spec
CONSTANTS
  t1 = t1
  t2 = t2
  e1 = e1
  e2 = e2
  e3 = e3
  apple = apple
  pear = pear
  Null = Null
  UseTags = TRUE
  Threads <- MCThreads
  Entries <- MCEntries
  Keys <- MCKeys
  Buckets = {0}
  Tags = {0, 1}
  Hashes = {1, 2}
  KeyOf <- MCKeyOf
  HashOf <- MCHashOf
  BucketOf <- MCBucketOf
  TagOf <- MCTagOf
INVARIANTS
  ChainsAreLinked
  TagsCoverTheChain
  SizeIsNoOverestimate
PROPERTIES
  KeepsEntries
  CallsEnd
CHECK_DEADLOCK FALSE
