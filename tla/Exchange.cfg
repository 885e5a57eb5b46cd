\* Two clients for the socket servers, up to one line and the word to leave each, and
\* one call that fails; three for the file server, two of which may leave, and a queue
\* of two messages, one of them with a content; pipes of three characters, reads of
\* two.  A server waits when nobody is left to talk to, and clients may find that it
\* is gone.
CONSTANTS
  Clients = {c1, c2}
  PROCNUM = 2
  MaxLines = 1
  MaxFaults = 1
  FtpClients = {f1, f2, f3}
  FileSizes <- MCFileSizes
  QueueMax = 2
  QueueBytes = 1
  MaxLeave = 2
  ReadSize = 2
  PipeMax = 3
  Typed <- MCTyped
  MaxSent = 5
SPECIFICATION ExchangeSpec
INVARIANTS
  AnsweredInFull
  NoTaskForgotten
  PacketsOnce
  LinesShown
PROPERTY ExchangesConclude
CHECK_DEADLOCK FALSE
