CONSTANTS
  Shape <- Shapes
  IntOf <- Ints
  MaxPort = 65535
  SenderArgs <- MCSenderArgs
  RecipientArgs <- MCRecipientArgs
  Files <- MCFiles
  Chars <- MCChars
  DefaultFile = "1.jpg"
  DefaultAddr = "here"
  DefaultPort = 1
  Addresses = {"here", "there"}
  Local = {"here"}
  ChunkSize = 2
  RecvSize = 4
  MSS = 4
SPECIFICATION FairSpec
CHECK_DEADLOCK FALSE
INVARIANTS OptionsAreRight CopyIsFaithful OnlyUnreadIsLost
PROPERTY RecipientEnds
