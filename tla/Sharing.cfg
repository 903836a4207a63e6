\* On POSIX two processes that create and one that only opens; a process may die
\* and come back, and the memory is remade under its name.  On Windows a process
\* in C++ that only opens, one in C# that reads data only, and one in Python; a
\* message and one that does not fit.  Two serial ports.  Two sockets and three
\* descriptors, the last of which does not fit in a set: numbers are used again,
\* and run out.
SPECIFICATION SharingSpec
CONSTANTS
  Processes = {cpp, cs, py}
  Creators = {cs, py}
  Messages = {m, big}
  Oversized = {big}
  MaxObjects = 2
  Staged = TRUE
  None = None
  CSharp = {cs}
  Python = {py}
  Openers = {cpp}
  TextReaders = {cpp, py}
  SerialPorts = {p, q}
  Sizes = {1, 2}
  MaxFd = 3
  Sockets = {s, t}
  MaxHandle = 3
  SetSize = 3
  Careful = TRUE
INVARIANTS MutualExclusion ReadsLast WindowsReadsLast PortsKept
PROPERTIES SelectionIsTrue
CHECK_DEADLOCK FALSE
