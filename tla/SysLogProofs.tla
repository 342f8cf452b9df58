---------------------------- MODULE SysLogProofs ----------------------------
(***************************************************************************)
(* The safety of SysLog for any number of threads, days and failures.      *)
(***************************************************************************)
EXTENDS SysLog, TLAPS

\* The steps of SwitchLogFile in which there may be no file although fopen
\* has not failed.
NoFileYet == {"time2", "localtime2", "open"}

\* The lock's holder is the thread that is between a lock and an unlock.
HolderKnown ==
  \A t \in Threads :
    pc[t] \in Switching \union {"write"} <=> m_LogLocker = t

\* Unless fopen has failed, only the lock's holder sees no file.
FileIsOpen ==
  failures = 0 =>
    /\ ~aborted
    /\ m_Logfp = NoFile => /\ m_LogLocker \in Threads
                           /\ pc[m_LogLocker] \in NoFileYet

ClockIsLatest ==
  /\ m_DayOfYear <= clock /\ tm <= clock
  /\ \A t \in Threads : now[t] <= clock

\* What holds until a thread's tm is overwritten.  m_DayOfYear only grows, and
\* is not later than the file.
DaysAgree ==
  ~torn =>
    /\ m_Logfp # NoFile => m_DayOfYear <= m_Logfp
    /\ \A t \in Threads :
         /\ pc[t] \in {"compare", "open", "setDay"} => tm = now[t]
         /\ pc[t] \in {"localtime2", "open", "setDay"} => m_DayOfYear <= now[t]
         /\ pc[t] = "setDay" => m_Logfp = tm
         /\ pc[t] \in {"format", "lock", "write"} => now[t] <= m_DayOfYear

LogInv == TypeOK /\ HolderKnown /\ FileIsOpen /\ ClockIsLatest /\ DaysAgree

-----------------------------------------------------------------------------
(* A step's cases: one for each action. *)

LEMMA InitLogInv == Init => LogInv
  <1> SUFFICES ASSUME Init PROVE LogInv
    OBVIOUS
  <1> USE SysLogAssumption DEF Init, Days
  <1>1. TypeOK
    <2>1. /\ clock \in Days /\ m_DayOfYear \in Days /\ tm \in Days
          /\ m_Logfp \in Days \union {NoFile} /\ failures \in 0 .. MaxFailures
      OBVIOUS
    <2>2. /\ m_LogLocker \in Threads \union {NoThread}
          /\ torn \in BOOLEAN /\ aborted \in BOOLEAN
      OBVIOUS
    <2>3. /\ pc \in [Threads -> Places] /\ then \in [Threads -> {"level", "format"}]
          /\ level \in [Threads -> Levels \union {LogLevel}]
          /\ now \in [Threads -> Days]
      BY DEF Places
    <2> QED
      BY <2>1, <2>2, <2>3 DEF TypeOK
  <1>2. HolderKnown /\ FileIsOpen /\ ClockIsLatest /\ DaysAgree
    BY DEF HolderKnown, FileIsOpen, ClockIsLatest, DaysAgree, Switching, NoFileYet
  <1> QED
    BY <1>1, <1>2 DEF LogInv

LEMMA TypeOKStep == LogInv /\ [Next]_lvars => TypeOK'
  <1> SUFFICES ASSUME LogInv, [Next]_lvars PROVE TypeOK'
    OBVIOUS
  <1> USE SysLogAssumption DEF LogInv, TypeOK, Days, At, Goto, file, local
  <1> USE DEF Places, Switching
  <1>1. ASSUME NEW t \in Threads, CallPrintLog(t) PROVE TypeOK'
    BY <1>1 DEF CallPrintLog
  <1>2. ASSUME NEW t \in Threads, TestLevel(t) PROVE TypeOK'
    BY <1>2 DEF TestLevel
  <1>3. ASSUME NEW t \in Threads, PrintTime(t) PROVE TypeOK'
    BY <1>3 DEF PrintTime, ReadsClock
  <1>4. ASSUME NEW t \in Threads, PrintLocaltime(t) PROVE TypeOK'
    BY <1>4 DEF PrintLocaltime, CallsLocaltime
  <1>5. ASSUME NEW t \in Threads, CompareDays(t) PROVE TypeOK'
    BY <1>5 DEF CompareDays
  <1>6. ASSUME NEW t \in Threads, FormatTime(t) PROVE TypeOK'
    BY <1>6 DEF FormatTime
  <1>7. ASSUME NEW t \in Threads, LockToPrint(t) PROVE TypeOK'
    BY <1>7 DEF LockToPrint
  <1>8. ASSUME NEW t \in Threads, WriteLine(t) PROVE TypeOK'
    BY <1>8 DEF WriteLine
  <1>9. ASSUME NEW t \in Threads, AssertFails(t) PROVE TypeOK'
    BY <1>9 DEF AssertFails
  <1>10. ASSUME NEW t \in Threads, LockToSwitch(t) PROVE TypeOK'
    BY <1>10 DEF LockToSwitch
  <1>11. ASSUME NEW t \in Threads, CloseFile(t) PROVE TypeOK'
    BY <1>11 DEF CloseFile
  <1>12. ASSUME NEW t \in Threads, SwitchTime(t) PROVE TypeOK'
    BY <1>12 DEF SwitchTime, ReadsClock
  <1>13. ASSUME NEW t \in Threads, SwitchLocaltime(t) PROVE TypeOK'
    BY <1>13 DEF SwitchLocaltime, CallsLocaltime
  <1>14. ASSUME NEW t \in Threads, OpenFile(t) PROVE TypeOK'
    BY <1>14 DEF OpenFile
  <1>15. ASSUME NEW t \in Threads, OpenFails(t) PROVE TypeOK'
    BY <1>15 DEF OpenFails
  <1>16. ASSUME NEW t \in Threads, SetDayOfYear(t) PROVE TypeOK'
    BY <1>16 DEF SetDayOfYear
  <1>17. CASE Midnight
    BY <1>17 DEF Midnight
  <1>18. CASE UNCHANGED lvars
    BY <1>18 DEF lvars
  <1> QED
    BY <1>1, <1>2, <1>3, <1>4, <1>5, <1>6, <1>7, <1>8, <1>9, <1>10, <1>11, <1>12, <1>13, <1>14, <1>15, <1>16, <1>17, <1>18
       DEF Next, Dead, PrintLog, SwitchLogFile

LEMMA HolderKnownStep == LogInv /\ [Next]_lvars => HolderKnown'
  <1> SUFFICES ASSUME LogInv, [Next]_lvars PROVE HolderKnown'
    OBVIOUS
  <1> USE SysLogAssumption DEF LogInv, TypeOK, Days, At, Goto, file, local
  <1> USE DEF HolderKnown, Switching
  <1>1. ASSUME NEW t \in Threads, CallPrintLog(t) PROVE HolderKnown'
    BY <1>1 DEF CallPrintLog
  <1>2. ASSUME NEW t \in Threads, TestLevel(t) PROVE HolderKnown'
    BY <1>2 DEF TestLevel
  <1>3. ASSUME NEW t \in Threads, PrintTime(t) PROVE HolderKnown'
    BY <1>3 DEF PrintTime, ReadsClock
  <1>4. ASSUME NEW t \in Threads, PrintLocaltime(t) PROVE HolderKnown'
    BY <1>4 DEF PrintLocaltime, CallsLocaltime
  <1>5. ASSUME NEW t \in Threads, CompareDays(t) PROVE HolderKnown'
    BY <1>5 DEF CompareDays
  <1>6. ASSUME NEW t \in Threads, FormatTime(t) PROVE HolderKnown'
    BY <1>6 DEF FormatTime
  <1>7. ASSUME NEW t \in Threads, LockToPrint(t) PROVE HolderKnown'
    BY <1>7 DEF LockToPrint
  <1>8. ASSUME NEW t \in Threads, WriteLine(t) PROVE HolderKnown'
    BY <1>8 DEF WriteLine
  <1>9. ASSUME NEW t \in Threads, AssertFails(t) PROVE HolderKnown'
    BY <1>9 DEF AssertFails
  <1>10. ASSUME NEW t \in Threads, LockToSwitch(t) PROVE HolderKnown'
    BY <1>10 DEF LockToSwitch
  <1>11. ASSUME NEW t \in Threads, CloseFile(t) PROVE HolderKnown'
    BY <1>11 DEF CloseFile
  <1>12. ASSUME NEW t \in Threads, SwitchTime(t) PROVE HolderKnown'
    BY <1>12 DEF SwitchTime, ReadsClock
  <1>13. ASSUME NEW t \in Threads, SwitchLocaltime(t) PROVE HolderKnown'
    BY <1>13 DEF SwitchLocaltime, CallsLocaltime
  <1>14. ASSUME NEW t \in Threads, OpenFile(t) PROVE HolderKnown'
    BY <1>14 DEF OpenFile
  <1>15. ASSUME NEW t \in Threads, OpenFails(t) PROVE HolderKnown'
    BY <1>15 DEF OpenFails
  <1>16. ASSUME NEW t \in Threads, SetDayOfYear(t) PROVE HolderKnown'
    BY <1>16 DEF SetDayOfYear
  <1>17. CASE Midnight
    BY <1>17 DEF Midnight
  <1>18. CASE UNCHANGED lvars
    BY <1>18 DEF lvars
  <1> QED
    BY <1>1, <1>2, <1>3, <1>4, <1>5, <1>6, <1>7, <1>8, <1>9, <1>10, <1>11, <1>12, <1>13, <1>14, <1>15, <1>16, <1>17, <1>18
       DEF Next, Dead, PrintLog, SwitchLogFile

LEMMA FileIsOpenStep == LogInv /\ [Next]_lvars => FileIsOpen'
  <1> SUFFICES ASSUME LogInv, [Next]_lvars PROVE FileIsOpen'
    OBVIOUS
  <1> USE SysLogAssumption DEF LogInv, TypeOK, Days, At, Goto, file, local
  <1> USE DEF FileIsOpen, NoFileYet, HolderKnown, Switching
  <1>1. ASSUME NEW t \in Threads, CallPrintLog(t) PROVE FileIsOpen'
    BY <1>1 DEF CallPrintLog
  <1>2. ASSUME NEW t \in Threads, TestLevel(t) PROVE FileIsOpen'
    BY <1>2 DEF TestLevel
  <1>3. ASSUME NEW t \in Threads, PrintTime(t) PROVE FileIsOpen'
    BY <1>3 DEF PrintTime, ReadsClock
  <1>4. ASSUME NEW t \in Threads, PrintLocaltime(t) PROVE FileIsOpen'
    BY <1>4 DEF PrintLocaltime, CallsLocaltime
  <1>5. ASSUME NEW t \in Threads, CompareDays(t) PROVE FileIsOpen'
    BY <1>5 DEF CompareDays
  <1>6. ASSUME NEW t \in Threads, FormatTime(t) PROVE FileIsOpen'
    BY <1>6 DEF FormatTime
  <1>7. ASSUME NEW t \in Threads, LockToPrint(t) PROVE FileIsOpen'
    BY <1>7 DEF LockToPrint
  <1>8. ASSUME NEW t \in Threads, WriteLine(t) PROVE FileIsOpen'
    BY <1>8 DEF WriteLine
  <1>9. ASSUME NEW t \in Threads, AssertFails(t) PROVE FileIsOpen'
    BY <1>9 DEF AssertFails
  <1>10. ASSUME NEW t \in Threads, LockToSwitch(t) PROVE FileIsOpen'
    BY <1>10 DEF LockToSwitch
  <1>11. ASSUME NEW t \in Threads, CloseFile(t) PROVE FileIsOpen'
    BY <1>11 DEF CloseFile
  <1>12. ASSUME NEW t \in Threads, SwitchTime(t) PROVE FileIsOpen'
    BY <1>12 DEF SwitchTime, ReadsClock
  <1>13. ASSUME NEW t \in Threads, SwitchLocaltime(t) PROVE FileIsOpen'
    BY <1>13 DEF SwitchLocaltime, CallsLocaltime
  <1>14. ASSUME NEW t \in Threads, OpenFile(t) PROVE FileIsOpen'
    BY <1>14 DEF OpenFile
  <1>15. ASSUME NEW t \in Threads, OpenFails(t) PROVE FileIsOpen'
    BY <1>15 DEF OpenFails
  <1>16. ASSUME NEW t \in Threads, SetDayOfYear(t) PROVE FileIsOpen'
    BY <1>16 DEF SetDayOfYear
  <1>17. CASE Midnight
    BY <1>17 DEF Midnight
  <1>18. CASE UNCHANGED lvars
    BY <1>18 DEF lvars
  <1> QED
    BY <1>1, <1>2, <1>3, <1>4, <1>5, <1>6, <1>7, <1>8, <1>9, <1>10, <1>11, <1>12, <1>13, <1>14, <1>15, <1>16, <1>17, <1>18
       DEF Next, Dead, PrintLog, SwitchLogFile

LEMMA ClockIsLatestStep == LogInv /\ [Next]_lvars => ClockIsLatest'
  <1> SUFFICES ASSUME LogInv, [Next]_lvars PROVE ClockIsLatest'
    OBVIOUS
  <1> USE SysLogAssumption DEF LogInv, TypeOK, Days, At, Goto, file, local
  <1> USE DEF ClockIsLatest
  <1>1. ASSUME NEW t \in Threads, CallPrintLog(t) PROVE ClockIsLatest'
    BY <1>1 DEF CallPrintLog
  <1>2. ASSUME NEW t \in Threads, TestLevel(t) PROVE ClockIsLatest'
    BY <1>2 DEF TestLevel
  <1>3. ASSUME NEW t \in Threads, PrintTime(t) PROVE ClockIsLatest'
    BY <1>3 DEF PrintTime, ReadsClock
  <1>4. ASSUME NEW t \in Threads, PrintLocaltime(t) PROVE ClockIsLatest'
    BY <1>4 DEF PrintLocaltime, CallsLocaltime
  <1>5. ASSUME NEW t \in Threads, CompareDays(t) PROVE ClockIsLatest'
    BY <1>5 DEF CompareDays
  <1>6. ASSUME NEW t \in Threads, FormatTime(t) PROVE ClockIsLatest'
    BY <1>6 DEF FormatTime
  <1>7. ASSUME NEW t \in Threads, LockToPrint(t) PROVE ClockIsLatest'
    BY <1>7 DEF LockToPrint
  <1>8. ASSUME NEW t \in Threads, WriteLine(t) PROVE ClockIsLatest'
    BY <1>8 DEF WriteLine
  <1>9. ASSUME NEW t \in Threads, AssertFails(t) PROVE ClockIsLatest'
    BY <1>9 DEF AssertFails
  <1>10. ASSUME NEW t \in Threads, LockToSwitch(t) PROVE ClockIsLatest'
    BY <1>10 DEF LockToSwitch
  <1>11. ASSUME NEW t \in Threads, CloseFile(t) PROVE ClockIsLatest'
    BY <1>11 DEF CloseFile
  <1>12. ASSUME NEW t \in Threads, SwitchTime(t) PROVE ClockIsLatest'
    BY <1>12 DEF SwitchTime, ReadsClock
  <1>13. ASSUME NEW t \in Threads, SwitchLocaltime(t) PROVE ClockIsLatest'
    BY <1>13 DEF SwitchLocaltime, CallsLocaltime
  <1>14. ASSUME NEW t \in Threads, OpenFile(t) PROVE ClockIsLatest'
    BY <1>14 DEF OpenFile
  <1>15. ASSUME NEW t \in Threads, OpenFails(t) PROVE ClockIsLatest'
    BY <1>15 DEF OpenFails
  <1>16. ASSUME NEW t \in Threads, SetDayOfYear(t) PROVE ClockIsLatest'
    BY <1>16 DEF SetDayOfYear
  <1>17. CASE Midnight
    BY <1>17 DEF Midnight
  <1>18. CASE UNCHANGED lvars
    BY <1>18 DEF lvars
  <1> QED
    BY <1>1, <1>2, <1>3, <1>4, <1>5, <1>6, <1>7, <1>8, <1>9, <1>10, <1>11, <1>12, <1>13, <1>14, <1>15, <1>16, <1>17, <1>18
       DEF Next, Dead, PrintLog, SwitchLogFile

LEMMA DaysAgreeStep == LogInv /\ [Next]_lvars => DaysAgree'
  <1> SUFFICES ASSUME LogInv, [Next]_lvars PROVE DaysAgree'
    OBVIOUS
  <1> USE SysLogAssumption DEF LogInv, TypeOK, Days, At, Goto, file, local
  <1> USE DEF DaysAgree, HolderKnown, Switching, ClockIsLatest
  <1>1. ASSUME NEW t \in Threads, CallPrintLog(t) PROVE DaysAgree'
    BY <1>1 DEF CallPrintLog
  <1>2. ASSUME NEW t \in Threads, TestLevel(t) PROVE DaysAgree'
    BY <1>2 DEF TestLevel
  <1>3. ASSUME NEW t \in Threads, PrintTime(t) PROVE DaysAgree'
    BY <1>3 DEF PrintTime, ReadsClock
  <1>4. ASSUME NEW t \in Threads, PrintLocaltime(t) PROVE DaysAgree'
    BY <1>4 DEF PrintLocaltime, CallsLocaltime
  <1>5. ASSUME NEW t \in Threads, CompareDays(t) PROVE DaysAgree'
    BY <1>5 DEF CompareDays
  <1>6. ASSUME NEW t \in Threads, FormatTime(t) PROVE DaysAgree'
    BY <1>6 DEF FormatTime
  <1>7. ASSUME NEW t \in Threads, LockToPrint(t) PROVE DaysAgree'
    BY <1>7 DEF LockToPrint
  <1>8. ASSUME NEW t \in Threads, WriteLine(t) PROVE DaysAgree'
    BY <1>8 DEF WriteLine
  <1>9. ASSUME NEW t \in Threads, AssertFails(t) PROVE DaysAgree'
    BY <1>9 DEF AssertFails
  <1>10. ASSUME NEW t \in Threads, LockToSwitch(t) PROVE DaysAgree'
    BY <1>10 DEF LockToSwitch
  <1>11. ASSUME NEW t \in Threads, CloseFile(t) PROVE DaysAgree'
    BY <1>11 DEF CloseFile
  <1>12. ASSUME NEW t \in Threads, SwitchTime(t) PROVE DaysAgree'
    BY <1>12 DEF SwitchTime, ReadsClock
  <1>13. ASSUME NEW t \in Threads, SwitchLocaltime(t) PROVE DaysAgree'
    BY <1>13 DEF SwitchLocaltime, CallsLocaltime
  <1>14. ASSUME NEW t \in Threads, OpenFile(t) PROVE DaysAgree'
    BY <1>14 DEF OpenFile
  <1>15. ASSUME NEW t \in Threads, OpenFails(t) PROVE DaysAgree'
    BY <1>15 DEF OpenFails
  <1>16. ASSUME NEW t \in Threads, SetDayOfYear(t) PROVE DaysAgree'
    BY <1>16 DEF SetDayOfYear
  <1>17. CASE Midnight
    BY <1>17 DEF Midnight
  <1>18. CASE UNCHANGED lvars
    BY <1>18 DEF lvars
  <1> QED
    BY <1>1, <1>2, <1>3, <1>4, <1>5, <1>6, <1>7, <1>8, <1>9, <1>10, <1>11, <1>12, <1>13, <1>14, <1>15, <1>16, <1>17, <1>18
       DEF Next, Dead, PrintLog, SwitchLogFile

-----------------------------------------------------------------------------
(* The theorems. *)

LEMMA LogInvHolds == Spec => []LogInv
  <1>1. LogInv /\ [Next]_lvars => LogInv'
    BY TypeOKStep, HolderKnownStep, FileIsOpenStep, ClockIsLatestStep, DaysAgreeStep
       DEF LogInv
  <1> QED
    BY InitLogInv, <1>1, PTL DEF Spec

\* SysLog's variables keep their types, for any number of threads, days and
\* failures (SysLog.cpp:67-138).
THEOREM TypeCorrect == Spec => []TypeOK
  <1>1. LogInv => TypeOK
    BY DEF LogInv
  <1> QED
    BY LogInvHolds, <1>1, PTL

\* The assertion in PrintLog holds as long as every fopen has succeeded
\* (SysLog.cpp:99).
THEOREM AssertionIsSafe == Spec => []AssertionHolds
  <1>1. LogInv => AssertionHolds
    BY DEF LogInv, FileIsOpen, AssertionHolds
  <1> QED
    BY LogInvHolds, <1>1, PTL

\* Lines go into the file of their day, or of a later one, until two threads
\* use localtime's structure at once (SysLog.cpp:84-135).
THEOREM LinesAreFiledByDay == Spec => []LinesGoToTheirDay
  <1>1. LogInv => LinesGoToTheirDay
    BY SysLogAssumption DEF LogInv, TypeOK, Days, DaysAgree, LinesGoToTheirDay
  <1> QED
    BY LogInvHolds, <1>1, PTL
=============================================================================
