SPECIFICATION MCSpec
CONSTANTS
  Bodies <- MCBodies
  Stray <- MCStray
  MaxBodies = 2
  MaxLength = 56
  Keys = {"k1", "k2"}
  MaxChanges = 2
  Requests <- MCRequests
  Sockets <- MCSockets
  Datagrams <- MCDatagrams
  Txids <- MCTxids
INVARIANT TypeOK
INVARIANT BuiltIsRead
INVARIANT SignedIsSent
INVARIANT FingerprintWhole
INVARIANT WalksAgree
INVARIANT TypeKept
INVARIANT AnswerIsUnderstood
INVARIANT UnknownAreNamed
INVARIANT KindKept
INVARIANT RelayedUnchanged
CHECK_DEADLOCK FALSE
