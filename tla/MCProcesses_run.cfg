CONSTANTS
  Callers = {c1, c2}
  Systems = {"posix", "win32"}
  PipeCap = 3
  BUF_SIZE = 3
  Symbols = {"c", "d", "e", "n", "0"}
  Jobs <- ThreeJobs
  AppPlatforms = {"console", "posix", "win32"}
  Words = {"", "help", "verbose", "listen", "install", "uninstall", "bogus", "f", "g", "80", "8000"}
  CommandLines <- Commands
  Examples = {"flag", "server"}
  MaxProcesses = 2
SPECIFICATION ProcessesSpec
\* a child and its parent may wait for each other, a daemon for itself; a process ends
CHECK_DEADLOCK FALSE
INVARIANTS StreamsWhole NothingLeft CommandLineServed
PROPERTIES ExecuteReturns TerminationHonoured
