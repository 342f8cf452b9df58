CONSTANTS
  Threads = {t1, t2}
  Levels = {1, 4}
  LogLevel = 3
  NoFile = NoFile
  NoThread = NoThread
  MaxDay = 2
  MaxFailures = 2
SPECIFICATION Spec
INVARIANT AssertionNeverFails
