------------------------------- MODULE SysLog -------------------------------
(***************************************************************************)
(* The log of src/src/SysLog.cpp, which all threads share: PrintLog and    *)
(* SwitchLogFile, which closes the file and opens that of the day.  A step *)
(* is one access to what the threads share: m_Logfp, m_DayOfYear, the      *)
(* lock, and the structure that localtime returns, one for all threads.    *)
(*                                                                         *)
(* A file is the day in its name.  Days are numbered from the start of the *)
(* process; that tm_yday starts again each year is left out, and so are    *)
(* the lines' text and m_FileName, the path in front of the day.           *)
(***************************************************************************)
EXTENDS Integers

CONSTANTS
  Threads,       \* the threads that print
  Levels,        \* the levels they print at
  LogLevel,      \* the level of the configuration: lines above it are dropped
  NoFile,        \* NULL
  NoThread,      \* the lock is free
  MaxDay,        \* bound: midnights
  MaxFailures    \* bound: calls of fopen that fail

ASSUME SysLogAssumption ==
  /\ NoThread \notin Threads
  /\ MaxDay \in Nat /\ MaxFailures \in Nat
  /\ NoFile \notin 0 .. MaxDay
  /\ Levels \subseteq Int /\ LogLevel \in Int

VARIABLES
  clock,        \* the day
  m_Logfp,      \* the open file
  m_DayOfYear,
  m_LogLocker,  \* the thread that holds it
  tm,           \* the day in localtime's structure
  pc,           \* per thread: its next step,
  then,         \* where it goes on when SwitchLogFile succeeds,
  level,        \* the level of its line,
  now,          \* and what it got from time()
  failures,     \* how often fopen has failed
  torn,         \* history: a thread's tm has been overwritten while in use
  aborted       \* the assertion in PrintLog has failed

file  == <<m_Logfp, m_DayOfYear, failures>>
local == <<pc, then, level, now>>
lvars == <<clock, file, m_LogLocker, tm, local, torn, aborted>>

Days == 0 .. MaxDay

\* SwitchLogFile's steps under the lock.
Switching == {"close", "time2", "localtime2", "open", "setDay"}

\* The steps of PrintLog, and of SwitchLogFile.
Places == {"idle", "level", "time", "localtime", "compare", "format", "lock", "write"}
            \union {"lock2"} \union Switching

TypeOK ==
  /\ clock \in Days /\ m_DayOfYear \in Days /\ tm \in Days
  /\ m_Logfp \in Days \union {NoFile}
  /\ m_LogLocker \in Threads \union {NoThread}
  /\ pc \in [Threads -> Places] /\ then \in [Threads -> {"level", "format"}]
  /\ level \in [Threads -> Levels \union {LogLevel}] /\ now \in [Threads -> Days]
  /\ failures \in 0 .. MaxFailures
  /\ torn \in BOOLEAN /\ aborted \in BOOLEAN

\* SysApp::Init has called OpenLogFile, on any day of the year (the
\* constructor's day is 0), with no other thread around; it may have failed.
Init ==
  /\ clock \in Days /\ tm = clock
  /\ \/ m_Logfp = clock /\ m_DayOfYear = clock /\ failures = 0
     \/ m_Logfp = NoFile /\ m_DayOfYear = 0 /\ failures = 1 /\ MaxFailures > 0
  /\ m_LogLocker = NoThread
  /\ pc = [t \in Threads |-> "idle"] /\ then = [t \in Threads |-> "level"]
  /\ level = [t \in Threads |-> LogLevel] /\ now = [t \in Threads |-> clock]
  /\ torn = FALSE /\ aborted = FALSE

-----------------------------------------------------------------------------
(* Helpers. *)

At(t, place)   == ~aborted /\ pc[t] = place
Goto(t, place) == pc' = [pc EXCEPT ![t] = place]

ReadsClock(t) == now' = [now EXCEPT ![t] = clock]

\* localtime, and whether it changes the day another thread is going to read.
CallsLocaltime(t) ==
  /\ tm' = now[t]
  /\ torn' = (torn \/ \E u \in Threads \ {t} :
                        pc[u] \in {"compare", "open", "setDay"} /\ tm # now[t])

-----------------------------------------------------------------------------
(* PrintLog. *)

\* The test of m_Logfp, without the lock.
CallPrintLog(t) ==
  /\ At(t, "idle")
  /\ \E l \in Levels : level' = [level EXCEPT ![t] = l]
  /\ IF m_Logfp = NoFile THEN Goto(t, "lock2") ELSE Goto(t, "level")
  /\ then' = [then EXCEPT ![t] = "level"]
  /\ UNCHANGED <<clock, file, m_LogLocker, tm, now, torn, aborted>>

TestLevel(t) ==
  /\ At(t, "level")
  /\ Goto(t, IF level[t] > LogLevel THEN "idle" ELSE "time")
  /\ UNCHANGED <<clock, file, m_LogLocker, tm, then, level, now, torn, aborted>>

PrintTime(t) ==
  /\ At(t, "time") /\ Goto(t, "localtime") /\ ReadsClock(t)
  /\ UNCHANGED <<clock, file, m_LogLocker, tm, then, level, torn, aborted>>

PrintLocaltime(t) ==
  /\ At(t, "localtime") /\ Goto(t, "compare") /\ CallsLocaltime(t)
  /\ UNCHANGED <<clock, file, m_LogLocker, then, level, now, aborted>>

\* m_DayOfYear != t->tm_yday, without the lock.
CompareDays(t) ==
  /\ At(t, "compare")
  /\ Goto(t, IF m_DayOfYear # tm THEN "lock2" ELSE "format")
  /\ then' = [then EXCEPT ![t] = "format"]
  /\ UNCHANGED <<clock, file, m_LogLocker, tm, level, now, torn, aborted>>

FormatTime(t) ==
  /\ At(t, "format") /\ Goto(t, "lock")
  /\ UNCHANGED <<clock, file, m_LogLocker, tm, then, level, now, torn, aborted>>

LockToPrint(t) ==
  /\ At(t, "lock") /\ m_LogLocker = NoThread
  /\ m_LogLocker' = t /\ Goto(t, "write")
  /\ UNCHANGED <<clock, file, tm, then, level, now, torn, aborted>>

\* The assertion, the line, and the unlock.
WriteLine(t) ==
  /\ At(t, "write") /\ m_Logfp # NoFile
  /\ m_LogLocker' = NoThread /\ Goto(t, "idle")
  /\ UNCHANGED <<clock, file, tm, then, level, now, torn, aborted>>

AssertFails(t) ==
  /\ At(t, "write") /\ m_Logfp = NoFile
  /\ aborted' = TRUE
  /\ UNCHANGED <<clock, file, m_LogLocker, tm, local, torn>>

-----------------------------------------------------------------------------
(* SwitchLogFile. *)

\* The mutant takes the lock without waiting for it.
LockToSwitch_Barging(t) ==
  /\ At(t, "lock2")
  /\ m_LogLocker' = t /\ Goto(t, "close")
  /\ UNCHANGED <<clock, file, tm, then, level, now, torn, aborted>>

LockToSwitch(t) ==
  /\ At(t, "lock2") /\ m_LogLocker = NoThread
  /\ m_LogLocker' = t /\ Goto(t, "close")
  /\ UNCHANGED <<clock, file, tm, then, level, now, torn, aborted>>

CloseFile(t) ==
  /\ At(t, "close") /\ Goto(t, "time2")
  /\ m_Logfp' = NoFile
  /\ UNCHANGED <<clock, m_DayOfYear, failures, m_LogLocker, tm, then, level, now,
                 torn, aborted>>

\* The mutant uses the time that PrintLog got.
SwitchTime_Cached(t) ==
  /\ At(t, "time2") /\ Goto(t, "localtime2") /\ now' = now
  /\ UNCHANGED <<clock, file, m_LogLocker, tm, then, level, torn, aborted>>

SwitchTime(t) ==
  /\ At(t, "time2") /\ Goto(t, "localtime2") /\ ReadsClock(t)
  /\ UNCHANGED <<clock, file, m_LogLocker, tm, then, level, torn, aborted>>

SwitchLocaltime(t) ==
  /\ At(t, "localtime2") /\ Goto(t, "open") /\ CallsLocaltime(t)
  /\ UNCHANGED <<clock, file, m_LogLocker, then, level, now, aborted>>

\* The file's name, and fopen.
OpenFile(t) ==
  /\ At(t, "open") /\ Goto(t, "setDay")
  /\ m_Logfp' = tm
  /\ UNCHANGED <<clock, m_DayOfYear, failures, m_LogLocker, tm, then, level, now,
                 torn, aborted>>

\* The mutant tries again and again.
OpenFails_Retried(t) ==
  /\ At(t, "open") /\ Goto(t, "time2")
  /\ failures < MaxFailures
  /\ UNCHANGED <<clock, file, m_LogLocker, tm, then, level, now, torn, aborted>>

\* SwitchLogFile unlocks and returns false, and PrintLog returns too.
OpenFails(t) ==
  /\ At(t, "open") /\ Goto(t, "idle")
  /\ failures < MaxFailures /\ failures' = failures + 1
  /\ m_LogLocker' = NoThread
  /\ UNCHANGED <<clock, m_Logfp, m_DayOfYear, tm, then, level, now, torn, aborted>>

\* The mutant counts the days from 1.
SetDayOfYear_FromOne(t) ==
  /\ At(t, "setDay") /\ Goto(t, then[t])
  /\ m_DayOfYear' = tm + 1
  /\ m_LogLocker' = NoThread
  /\ UNCHANGED <<clock, m_Logfp, failures, tm, then, level, now, torn, aborted>>

SetDayOfYear(t) ==
  /\ At(t, "setDay") /\ Goto(t, then[t])
  /\ m_DayOfYear' = tm
  /\ m_LogLocker' = NoThread
  /\ UNCHANGED <<clock, m_Logfp, failures, tm, then, level, now, torn, aborted>>

-----------------------------------------------------------------------------
SwitchLogFile(t) ==
  \/ LockToSwitch(t) \/ CloseFile(t) \/ SwitchTime(t) \/ SwitchLocaltime(t)
  \/ OpenFile(t) \/ OpenFails(t) \/ SetDayOfYear(t)

PrintLog(t) ==
  \/ TestLevel(t) \/ PrintTime(t) \/ PrintLocaltime(t) \/ CompareDays(t)
  \/ FormatTime(t) \/ LockToPrint(t) \/ WriteLine(t) \/ AssertFails(t)

Midnight ==
  /\ ~aborted /\ clock < MaxDay /\ clock' = clock + 1
  /\ UNCHANGED <<file, m_LogLocker, tm, local, torn, aborted>>

Dead == aborted /\ UNCHANGED lvars

Next ==
  \/ Midnight \/ Dead
  \/ \E t \in Threads : CallPrintLog(t) \/ PrintLog(t) \/ SwitchLogFile(t)

Spec == Init /\ [][Next]_lvars

\* A thread inside a call goes on, but nothing makes it call, and the mutex
\* promises no thread that it gets it.
FairSpec == Spec /\ \A t \in Threads : WF_lvars(PrintLog(t) \/ SwitchLogFile(t))
-----------------------------------------------------------------------------
\* As long as every fopen has succeeded, the assertion holds, although PrintLog
\* has looked at m_Logfp and m_DayOfYear without the lock and other threads
\* have closed and opened files since (PrintLog, SysLog.cpp:73-99).
AssertionHolds == failures = 0 => ~aborted

\* As long as no thread's tm is overwritten while it uses it, a line goes into
\* the file of the day at which PrintLog read the clock, or a later one's, with
\* any number of midnights and switches in between (SysLog.cpp:84-135).
LinesGoToTheirDay ==
  \A t \in Threads :
    ~torn /\ pc[t] = "write" /\ m_Logfp # NoFile => m_Logfp >= now[t]

\* A thread that takes the lock gives it back, also when it cannot open the
\* file (SwitchLogFile and PrintLog, SysLog.cpp:98-137).
LockIsReleased ==
  \A t \in Threads : m_LogLocker = t ~> (m_LogLocker # t \/ aborted)

\* The assertion never fails ("assert(NULL != m_Logfp)", SysLog.cpp:99).
AssertionNeverFails == ~aborted
=============================================================================
