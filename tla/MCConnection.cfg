CONSTANTS
  p1 = p1
  p2 = p2
  k1 = k1
  s1 = s1
  s2 = s2
  s3 = s3
  ch1 = ch1
  ch2 = ch2
  ch3 = ch3
  ch4 = ch4
  NULL = NULL
  Callers <- MCCallers
  Closers <- MCClosers
  Sessions <- MCSessions
  Channels <- MCChannels
  Declarations = 2
  MaxFaults = 3

SPECIFICATION Spec

INVARIANTS
  TypeOK
  OneOwner
  FlagIsTrue
  ServedDeclared
  OneAttemptPerWindow
