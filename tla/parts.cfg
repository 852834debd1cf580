SPECIFICATION PartsSpec
CONSTANTS
  DataProcs = {"w1", "w2"}
  OpenFiles = {"f1", "f2"}
  ByteAt <- MCByteAt
  InodeOf <- MCInodeOf
  NDIRECT = 1
  BSIZE = 2
  Setups <- MCSetups
  WRITEMAX = 2
  Lengths = {3}
  WORDBITS = 5
  WORD = 4
  MaxSize = 24
  PathChars = {"/", "a", "b"}
  MaxPath = 6
  DIRSIZ = 2
  HEAPEND = 14
  CORE = 4
  HEADER = 2
  Requests = {1, 3, 9}
  Breaks = {1}
  MAXARGS = 3
  MaxLine = 5
  Keys = {"w", " ", ">", "|", "&", ";", "(", ")"}
  Commands <- MCCommands
  MaxLines = 2
  Pids = {1, 2, 3, 4, 5, 6}
  Inputs <- MCInputs
  BUFSIZE = 60
  Stack <- MCStack
  Digest <- MCDigest
  MemSize = 4
  ByteValues = {0, 1, 2}
  FmtChars = {"%", "d", "x", "l", "s", "c"}
  MaxFmt = 5
  INTBITS = 4
  LONGBITS = 8
  BUFLEN = 2
  Texts <- MCTexts
  Patterns <- MCPatterns
  BUF = 4
  MatchChars = {"a", ".", "*", "^", "$"}
  MaxRe = 4
  Subjects <- MCSubjects
  FSSIZE = 23
  NINODES = 7
  NLOGBLOCKS = 2
  IPB = 2
  BPB = 32
  BLOCK = 2
  NDIR = 1
  NINDIR = 2
  FileSizes = {0, 3, 6, 7}
  MaxFiles = 3
INVARIANTS
  FilesSound
  ArgumentsSound
  HeapSound
  LineUnderstood
  LineRuns
  
  StringsExact
  
  
  ImageSound
