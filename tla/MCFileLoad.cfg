CONSTANTS
  Path <- MCPath
  Inside <- MCInside
  i = i
  j = j
  Inode <- MCInode
  Absent = Absent
  Byte <- MCByte
  NotUtf8 = "?"
  Json <- MCJson
  Requests <- MCRequests
  Worlds <- MCWorlds
  Contents <- MCContents
  MaxBytes = 2
  ProcFd = TRUE
  MaxChanges = 2
SPECIFICATION Spec
INVARIANTS
  TypeOK
  OnlyJailedBytes
  SizeBounded
  QuietLoadExact
PROPERTY Termination
