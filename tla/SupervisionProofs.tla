------------------------- MODULE SupervisionProofs -------------------------
(***************************************************************************)
(* Theorems about Supervision, for any number of slots, configuration      *)
(* files, faults and commands.                                             *)
(***************************************************************************)
EXTENDS Supervision, FiniteSetTheorems, WellFoundedInduction, TLAPS

USE DEF process, svars, scripts, vars, Goto, ScriptGoto, ThreadGoto, InThread, Fault

\* The fields are a sequence, one for each bar.
LEMMA FieldsAreASequence ==
  ASSUME NEW Symbols, NEW str \in Seq(Symbols)
  PROVE  /\ Cardinality(Bars(str)) \in Nat
         /\ \E S : Fields(str) \in Seq(S)
         /\ Len(Fields(str)) = Cardinality(Bars(str))
<1> DEFINE k == Cardinality(Bars(str))
           S == {Fields(str)[n] : n \in 1 .. k}
<1>1. IsFiniteSet(Bars(str))
  <2>1. IsFiniteSet(1 .. Len(str)) BY FS_Interval
  <2>2. Bars(str) \subseteq 1 .. Len(str) BY DEF Bars
  <2> QED BY <2>1, <2>2, FS_Subset
<1>2. k \in Nat BY <1>1, FS_CardinalityType
<1> HIDE DEF k
<1>3. Fields(str) = [n \in 1 .. k |-> Fields(str)[n]] BY DEF Fields, k
<1>4. Fields(str) \in [1 .. k -> S] BY <1>3 DEF S
<1>5. Fields(str) \in Seq(S) /\ Len(Fields(str)) = k BY <1>2, <1>4
<1> QED BY <1>2, <1>5 DEF k

\* The first of some lines.
LEMMA MinIsFirst ==
  ASSUME NEW S, S \subseteq Nat, S # {}
  PROVE  Min(S) \in S /\ \A y \in S : Min(S) <= y
<1> DEFINE Less == {ss \in Nat \X Nat : ss[1] < ss[2]}
<1>a. IsWellFoundedOn(Less, Nat)
  BY NatLessThanWellFounded, Zenon DEF OpToRel
<1>1. PICK x \in S : \A y \in S : ~(<<y, x>> \in Less)
  BY <1>a, WFMin
<1>2. ASSUME NEW y \in S, y < x PROVE FALSE
  <2>1. <<y, x>> \in Nat \X Nat /\ <<y, x>>[1] = y /\ <<y, x>>[2] = x
    OBVIOUS
  <2>2. <<y, x>> \in Less
    BY <1>2, <2>1
  <2> QED BY <1>1, <2>2
<1>3. \A y \in S : x <= y
  BY <1>2
<1> QED BY <1>3 DEF Min

\* What the first line of a key says is what the key is mapped to.
LEMMA ReadFileType ==
  ASSUME NEW f \in Files, NEW key \in DOMAIN ReadFile(f)
  PROVE  ReadFile(f)[key] \in Seq(STRING)
<1>1. f \in Seq([key : STRING, value : Seq(STRING)])
  BY ServiceAssumption
<1>2. LinesOf(f, key) \subseteq DOMAIN f /\ DOMAIN f \subseteq Nat /\ LinesOf(f, key) # {}
  BY <1>1 DEF ReadFile, LinesOf, Lines
<1> DEFINE n == Min(LinesOf(f, key))
<1>3. n \in DOMAIN f
  BY <1>2, MinIsFirst
<1>5. ReadFile(f)[key] = f[n].value
  BY DEF ReadFile
<1> HIDE DEF n
<1>4. f[n].value \in Seq(STRING)
  <2> DEFINE L == [key : STRING, value : Seq(STRING)]
  <2>1. \A l \in L : l.value \in Seq(STRING)
    OBVIOUS
  <2>2. f \in Seq(L)
    BY <1>1
  <2> HIDE DEF L
  <2>3. f[n] \in L
    BY <1>3, <2>2
  <2> QED BY <2>1, <2>3
<1> QED BY <1>4, <1>5

\* The file names its devices in a sequence.
LEMMA DevsAreASequence == ASSUME NEW f \in Files PROVE \E S : Devs(f) \in Seq(S)
<1>1. CASE "dev" \notin DOMAIN ReadFile(f)
  <2>1. Devs(f) \in Seq({}) BY <1>1 DEF Devs
  <2> QED BY <2>1
<1>2. CASE "dev" \in DOMAIN ReadFile(f)
  <2> DEFINE v == ReadFile(f)["dev"]
  <2>1. v \in Seq(STRING) BY <1>2, ReadFileType
  <2>2. Devs(f) = Fields(Append(v, Bar)) BY <1>2 DEF Devs, Split
  <2> HIDE DEF v
  <2>3. Append(v, Bar) \in Seq(STRING \union {Bar}) BY <2>1
  <2> QED BY <2>2, <2>3, FieldsAreASequence
<1> QED BY <1>1, <1>2

-----------------------------------------------------------------------------
(* The processes. *)

\* A process has its devices as soon as it has left Init,
Configured ==
  \A p \in Procs : main[p] \in {"daemon", "start", "threads"} \union Looping => devs[p] = Devs(file)

\* no thread before Start, and one for each of them when its loop runs.
Started ==
  \A p \in Procs :
    /\ main[p] \notin Looping \union {"threads", "exit"} => thread[p] = <<>>
    /\ main[p] \in Looping => Len(thread[p]) = Len(devs[p])

ServiceInv == ServiceTypeOK /\ Configured /\ Started

LEMMA DevsType ==
  ASSUME ServiceInv, NEW p \in Procs
  PROVE  /\ Len(devs[p]) \in Nat /\ DOMAIN devs[p] = 1 .. Len(devs[p])
         /\ devs[p] # <<>> => 1 \in DOMAIN devs[p]
<1>1. \E S : devs[p] \in Seq(S)
  BY DevsAreASequence, <<>> \in Seq({}) DEF ServiceInv, ServiceTypeOK
<1> QED BY <1>1

LEMMA GoneKeeps ==
  ASSUME ServiceInv, NEW ps, Gone(ps), UNCHANGED file, faults' \in 0 .. MaxFaults
  PROVE  ServiceInv'
<1> USE DEF ServiceInv, Gone, MainPlaces, Looping
<1>1. ServiceTypeOK'
  BY <<>> \in Seq({"open", "loop", "ended"}) DEF ServiceTypeOK
<1>2. Configured' /\ Started'
  BY DEF ServiceTypeOK, Configured, Started
<1> QED BY <1>1, <1>2

LEMMA MainKeeps ==
  ASSUME ServiceInv, NEW p \in Procs, MainStep(p)
  PROVE  ServiceInv'
<1> USE DEF ServiceInv, MainPlaces, Looping
<1> USE DevsType
<1>1. CASE NewSysApp(p)
  BY <1>1 DEF NewSysApp, ServiceTypeOK, Configured, Started
<1>2. CASE InitApp(p)
  BY <1>2 DEF InitApp, ServiceTypeOK, Configured, Started
<1>3. CASE Daemonize(p)
  <2>1. Slot \in Procs /\ main[Slot] = "absent"
    BY <1>3 DEF Daemonize, Slot, Absent
  <2> HIDE DEF Slot
  <2> QED BY <1>3, <2>1 DEF Daemonize, ServiceTypeOK, Configured, Started
<1>4. CASE Start(p)
  BY <1>4 DEF Start, ServiceTypeOK, Configured, Started
<1>5. CASE StartThread(p)
  BY <1>5 DEF StartThread, ServiceTypeOK, Configured, Started
<1>6. CASE AllStarted(p)
  BY <1>6 DEF AllStarted, ServiceTypeOK, Configured, Started
<1>7. CASE TestRunFlag(p)
  BY <1>7 DEF TestRunFlag, ServiceTypeOK, Configured, Started
<1>8. CASE CheckLRU(p)
  <2>1. CASE at[p] < Len(devs[p])
    <3>1. /\ main[p] = "lru" /\ UNCHANGED <<file, main, devs, bRun, thread, faults>>
          /\ at' = [at EXCEPT ![p] = @ + 1]
      BY <1>8, <2>1 DEF CheckLRU
    <3>2. at[p] + 1 \in DOMAIN devs[p]
      BY <2>1, <3>1 DEF ServiceTypeOK
    <3>3. at' \in [Procs -> Nat] /\ \A q \in Procs : main[q] = "lru" => at'[q] \in DOMAIN devs[q]
      BY <3>1, <3>2 DEF ServiceTypeOK
    <3>4. ServiceTypeOK'
      BY <3>1, <3>3 DEF ServiceTypeOK
    <3>5. Configured'
      BY <3>1 DEF Configured
    <3>6. Started'
      BY <3>1 DEF Started
    <3> QED BY <3>4, <3>5, <3>6
  <2>2. CASE ~(at[p] < Len(devs[p]))
    <3>1. /\ main[p] = "lru" /\ UNCHANGED <<file, devs, bRun, thread, faults>>
          /\ at' = [at EXCEPT ![p] = 0] /\ main' = [main EXCEPT ![p] = "sleep"]
      BY <1>8, <2>2 DEF CheckLRU
    <3> QED BY <3>1 DEF ServiceTypeOK, Configured, Started
  <2> QED BY <2>1, <2>2
<1>9. CASE Wake(p)
  BY <1>9 DEF Wake, ServiceTypeOK, Configured, Started
<1>10. CASE Exit(p)
  BY <1>10, GoneKeeps DEF Exit, ServiceTypeOK
<1> QED
  BY <1>1, <1>2, <1>3, <1>4, <1>5, <1>6, <1>7, <1>8, <1>9, <1>10 DEF MainStep

\* A step of one thread that stays among the places of threads.
LEMMA ThreadMoves ==
  ASSUME ServiceInv, NEW p \in Procs, NEW k, k \in DOMAIN thread[p],
         NEW place \in {"open", "loop", "ended"}, ThreadGoto(p, k, place),
         UNCHANGED <<file, main, devs, at, bRun>>, faults' \in 0 .. MaxFaults
  PROVE  ServiceInv'
<1> DEFINE T == {"open", "loop", "ended"}
<1> USE DEF ServiceInv
<1>1. thread[p] \in Seq(T) /\ thread \in [Procs -> Seq(T)]
  BY DEF ServiceTypeOK
<1>2. /\ [thread[p] EXCEPT ![k] = place] \in Seq(T)
      /\ Len([thread[p] EXCEPT ![k] = place]) = Len(thread[p])
  BY <1>1
<1>3. thread' \in [Procs -> Seq(T)] /\ \A q \in Procs : Len(thread'[q]) = Len(thread[q])
  BY <1>1, <1>2
<1> QED BY <1>3 DEF ServiceTypeOK, Configured, Started

LEMMA ThreadKeeps ==
  ASSUME ServiceInv, NEW p \in Procs, ThreadStep(p)
  PROVE  ServiceInv'
<1>1. PICK k : OpenPcap(p, k)
  BY DEF ThreadStep
<1> QED BY <1>1, ThreadMoves DEF OpenPcap, ServiceInv, ServiceTypeOK

LEMMA FailureKeeps ==
  ASSUME ServiceInv, NEW p \in Procs, Failure(p)
  PROVE  ServiceInv'
<1>1. faults' \in 0 .. MaxFaults /\ UNCHANGED file
  BY ServiceAssumption DEF Failure, InitAborts, Sigusr1, Dies, OpenFails, LoopEnds, ServiceInv, ServiceTypeOK
<1>2. CASE InitAborts(p) \/ Dies(p)
  BY <1>1, <1>2, GoneKeeps DEF InitAborts, Dies
<1>3. CASE Sigusr1(p)
  <2>1. CASE main[p] = "begin"
    BY <1>1, <1>3, <2>1, GoneKeeps DEF Sigusr1
  <2>2. CASE main[p] # "begin"
    BY <1>1, <1>3, <2>2 DEF Sigusr1, ServiceInv, ServiceTypeOK, Configured, Started
  <2> QED BY <2>1, <2>2
<1>4. ASSUME NEW k, OpenFails(p, k) PROVE ServiceInv'
  BY <1>1, <1>4 DEF OpenFails, ServiceInv, ServiceTypeOK, Configured, Started, MainPlaces, Looping
<1>5. ASSUME NEW k, LoopEnds(p, k) PROVE ServiceInv'
  BY <1>1, <1>5, ThreadMoves DEF LoopEnds
<1> QED BY <1>2, <1>3, <1>4, <1>5 DEF Failure

-----------------------------------------------------------------------------
(* The scripts. *)

\* As long as the scripts have not been about to launch together, a script that
\* is about to launch sees what it saw in ps: nothing.
OneProcess ==
  /\ (\A s \in Scripts : spc[s] = "launch") => overlapped
  /\ ~overlapped =>
       /\ \A p, q \in Workers : p = q
       /\ \A s \in Scripts : spc[s] = "launch" => Pids = {}

SupervisionInv == TypeOK /\ Configured /\ Started /\ OneProcess

LEMMA InitSupervisionInv == Init => SupervisionInv
<1> SUFFICES ASSUME Init PROVE SupervisionInv
  OBVIOUS
<1> USE DEF Init, ServiceInit, MainPlaces, Looping, Pids, Workers, Absent, Scripts
<1>1. TypeOK
  <2>1. /\ thread \in [Procs -> Seq({"open", "loop", "ended"})]
        /\ main \in [Procs -> MainPlaces] /\ devs \in [Procs -> {<<>>, Devs(file)}]
    BY <<>> \in Seq({"open", "loop", "ended"})
  <2>2. /\ file \in Files /\ at \in [Procs -> Nat] /\ bRun \in [Procs -> BOOLEAN]
        /\ faults \in 0 .. MaxFaults /\ \A q \in Procs : main[q] # "lru"
    BY ServiceAssumption
  <2>3. ServiceTypeOK
    BY <2>1, <2>2 DEF ServiceTypeOK
  <2>4. spc \in [Scripts -> {"idle", "start", "launch", "stop", "kill"}]
    OBVIOUS
  <2>5. victims \subseteq Pids /\ restarting \in BOOLEAN /\ overlapped \in BOOLEAN
    OBVIOUS
  <2>6. commands \in 0 .. MaxCommands
    BY SupervisionAssumption
  <2> QED BY <2>3, <2>4, <2>5, <2>6 DEF TypeOK
<1>2. Configured /\ Started /\ OneProcess
  BY DEF Configured, Started, OneProcess
<1> QED BY <1>1, <1>2 DEF SupervisionInv

\* What a step of a process leaves of the scripts' places and of the processes.
LEMMA AloneKeeps ==
  ASSUME SupervisionInv, ServiceInv', Alone,
         \/ Workers' \subseteq Workers /\ Pids' \subseteq Pids
         \/ \E p \in Workers : \E q : Workers' = (Workers \ {p}) \union {q}
  PROVE  SupervisionInv'
<1> USE DEF SupervisionInv, ServiceInv, Alone
<1>1. TypeOK'
  BY DEF TypeOK, Pids, Absent
<1>2. OneProcess'
  <2>1. UNCHANGED <<spc, overlapped>>
    OBVIOUS
  <2>2. CASE Workers' \subseteq Workers /\ Pids' \subseteq Pids
    BY <2>1, <2>2 DEF OneProcess
  <2>3. ASSUME NEW p \in Workers, NEW q, Workers' = (Workers \ {p}) \union {q}
        PROVE  OneProcess'
    <3>1. Pids # {}
      BY DEF Workers
    <3>2. ~overlapped => \A a \in Workers : a = p
      BY DEF OneProcess
    <3>3. ~overlapped => \A s \in Scripts : spc[s] # "launch"
      BY <3>1 DEF OneProcess
    <3> QED BY <2>1, <2>3, <3>2, <3>3 DEF OneProcess
  <2> QED BY <2>2, <2>3
<1> QED BY <1>1, <1>2

\* Only daemon() puts a process in the place of another; no other step of a
\* process adds one.
LEMMA ProcessStepKeeps ==
  ASSUME SupervisionInv, NEW p \in Procs, Runs(p) \/ Threads(p) \/ Fails(p)
  PROVE  SupervisionInv'
<1> USE DEF Workers, Pids, Absent
<1>1. ServiceInv
  BY DEF SupervisionInv, ServiceInv, TypeOK
<1>2. main \in [Procs -> MainPlaces]
  BY <1>1 DEF ServiceInv, ServiceTypeOK
<1>3. ServiceInv' /\ Alone
  BY <1>1, MainKeeps, ThreadKeeps, FailureKeeps DEF Runs, Threads, Fails
<1>4. CASE Daemonize(p)
  <2>1. Slot \in Procs /\ main[Slot] = "absent"
    BY <1>4 DEF Daemonize, Slot
  <2> HIDE DEF Slot
  <2>2. p \in Workers /\ Workers' = (Workers \ {p}) \union {Slot}
    BY <1>2, <1>4, <2>1 DEF Daemonize
  <2> QED BY <1>3, <2>2, AloneKeeps
<1>5. ASSUME main[p] \notin {"absent", "parent"},
             UNCHANGED main \/ \E place \in MainPlaces : Goto(p, place) /\ place \notin {"absent", "parent"}
      PROVE  Workers' \subseteq Workers /\ Pids' \subseteq Pids
  BY <1>2, <1>5
<1>6. ASSUME NEW ps, Gone(ps) PROVE Workers' \subseteq Workers /\ Pids' \subseteq Pids
  BY <1>2, <1>6 DEF Gone
<1>7. CASE MainStep(p) /\ ~Daemonize(p)
  <2>1. CASE Exit(p)
    BY <1>3, <1>6, <2>1, AloneKeeps DEF Exit
  <2>2. CASE ~Exit(p)
    <3>1. Workers' \subseteq Workers /\ Pids' \subseteq Pids
      BY <1>5, <1>7, <2>2 DEF MainStep, NewSysApp, InitApp, Start, StartThread, AllStarted, TestRunFlag,
                              CheckLRU, Wake, MainPlaces, Looping
    <3> QED BY <1>3, <3>1, AloneKeeps
  <2> QED BY <2>1, <2>2
<1>8. ASSUME NEW k, k \in DOMAIN thread[p] PROVE main[p] \notin {"absent", "parent"}
  BY <1>1, <1>8 DEF ServiceInv, Started, Looping
<1>9. CASE ThreadStep(p) \/ Failure(p)
  <2>1. CASE InitAborts(p) \/ Dies(p)
    BY <1>3, <1>6, <2>1, AloneKeeps DEF InitAborts, Dies
  <2>2. CASE Sigusr1(p)
    <3>1. Workers' \subseteq Workers /\ Pids' \subseteq Pids
      BY <1>6, <2>2 DEF Sigusr1
    <3> QED BY <1>3, <3>1, AloneKeeps
  <2>3. ASSUME NEW k, OpenPcap(p, k) \/ OpenFails(p, k) \/ LoopEnds(p, k)
        PROVE  SupervisionInv'
    <3>1. Workers' \subseteq Workers /\ Pids' \subseteq Pids
      BY <1>5, <1>8, <2>3 DEF OpenPcap, OpenFails, LoopEnds, MainPlaces
    <3> QED BY <1>3, <3>1, AloneKeeps
  <2> QED BY <1>9, <2>1, <2>2, <2>3 DEF ThreadStep, Failure
<1> QED BY <1>4, <1>7, <1>9 DEF Runs, Threads, Fails

LEMMA LaunchKeeps ==
  ASSUME SupervisionInv, NEW s \in Scripts, Launch(s)
  PROVE  SupervisionInv'
<1> USE DEF SupervisionInv, Scripts, Launch
<1>1. Slot \in Procs /\ main[Slot] = "absent"
  BY DEF Slot, Absent
<1> HIDE DEF Slot
<1>2. TypeOK'
  BY <1>1 DEF TypeOK, ServiceTypeOK, MainPlaces, Pids, Absent
<1>3. Configured' /\ Started'
  BY <1>1 DEF TypeOK, ServiceTypeOK, Configured, Started, Looping
<1>4. ~overlapped => Workers' = {Slot}
  BY <1>1 DEF TypeOK, ServiceTypeOK, OneProcess, Workers, Pids, Absent
<1>5. \A t \in Scripts : spc'[t] = "launch" => spc[t] = "launch" /\ t # s
  BY DEF TypeOK
<1>6. OneProcess'
  BY <1>4, <1>5 DEF OneProcess
<1> QED BY <1>2, <1>3, <1>6

LEMMA ScriptStepKeeps ==
  ASSUME SupervisionInv, ProgmonStep \/ OperatorStep \/ Command
  PROVE  SupervisionInv'
<1> USE DEF SupervisionInv, TypeOK, Scripts
<1>0. ServiceInv
  BY DEF ServiceInv
<1>1. CASE Watch \/ Command
  <2>1. UNCHANGED svars /\ UNCHANGED <<victims, overlapped>>
    BY <1>1 DEF Watch, Command
  <2>2. TypeOK'
    BY <1>1, <2>1, SupervisionAssumption DEF Watch, Command, ServiceTypeOK, Pids, Absent
  <2>3. \A s \in Scripts : spc'[s] = "launch" => spc[s] = "launch"
    BY <1>1 DEF Watch, Command
  <2> QED BY <2>1, <2>2, <2>3 DEF Configured, Started, OneProcess, Workers, Pids, Absent
<1>2. ASSUME NEW s \in Scripts, StartLooks(s) PROVE SupervisionInv'
  <2>1. UNCHANGED svars /\ UNCHANGED <<victims, restarting, commands>>
    BY <1>2 DEF StartLooks
  <2>2. overlapped' \in BOOLEAN /\ spc' = [spc EXCEPT ![s] = IF Pids = {} THEN "launch" ELSE "idle"]
    BY <1>2 DEF StartLooks
  <2>3. TypeOK'
    BY <2>1, <2>2 DEF ServiceTypeOK, Pids, Absent
  <2>4. \A t \in Scripts : spc'[t] = "launch" => spc[t] = "launch" \/ Pids = {}
    BY <2>2
  <2>5. overlapped => overlapped'
    BY <1>2 DEF StartLooks
  <2>6. (\A t \in Scripts : spc'[t] = "launch") => overlapped'
    BY <1>2 DEF StartLooks
  <2>7. OneProcess'
    BY <2>1, <2>4, <2>5, <2>6 DEF OneProcess, Workers, Pids, Absent
  <2> QED BY <2>1, <2>3, <2>7 DEF Configured, Started
<1>3. CASE StopLooks
  <2>1. TypeOK'
    BY <1>3 DEF StopLooks, ServiceTypeOK, Pids, Absent
  <2>2. UNCHANGED svars /\ UNCHANGED overlapped
    BY <1>3 DEF StopLooks
  <2>3. \A s \in Scripts : spc'[s] = "launch" => spc[s] = "launch"
    BY <1>3 DEF StopLooks
  <2> QED BY <2>1, <2>2, <2>3 DEF Configured, Started, OneProcess, Workers, Pids, Absent
<1>4. CASE Kill
  <2>1. ServiceInv'
    BY <1>0, <1>4, GoneKeeps DEF Kill, ServiceTypeOK
  <2>2. TypeOK'
    BY <1>4, <2>1 DEF Kill, ServiceInv, Pids, Absent
  <2>3. Workers' \subseteq Workers /\ Pids' \subseteq Pids
    BY <1>4 DEF Kill, Gone, Workers, Pids, Absent
  <2>4. \A s \in Scripts : spc'[s] = "launch" => spc[s] = "launch"
    BY <1>4 DEF Kill
  <2> QED BY <1>4, <2>1, <2>2, <2>3, <2>4 DEF Kill, ServiceInv, OneProcess
<1> QED BY <1>1, <1>2, <1>3, <1>4, LaunchKeeps DEF ProgmonStep, OperatorStep

LEMMA NextKeepsSupervisionInv == SupervisionInv /\ [Next]_vars => SupervisionInv'
<1>1. ASSUME SupervisionInv, UNCHANGED vars PROVE SupervisionInv'
  BY <1>1 DEF SupervisionInv, TypeOK, ServiceTypeOK, Configured, Started, OneProcess, Workers, Pids, Absent
<1> QED BY <1>1, ProcessStepKeeps, ScriptStepKeeps DEF Next

LEMMA SupervisionInvHolds == Spec => []SupervisionInv
<1> QED BY InitSupervisionInv, NextKeepsSupervisionInv, PTL DEF Spec

-----------------------------------------------------------------------------
(* The properties. *)

\* The variables keep their types: CheckLRU never goes beyond the last sniffer,
\* devs is what the file names, and stop only has processes that are there to
\* kill.
THEOREM TypeCorrect == Spec => []TypeOK
<1>1. SupervisionInv => TypeOK
  BY DEF SupervisionInv
<1> QED BY <1>1, SupervisionInvHolds, PTL

\* As long as the scripts have not been about to launch at the same time, at
\* most one process works.
THEOREM OneProcessWorks == Spec => []NoSecondProcess
<1>1. SupervisionInv => NoSecondProcess
  BY DEF SupervisionInv, OneProcess, NoSecondProcess
<1> QED BY <1>1, SupervisionInvHolds, PTL

\* A process in main's loop has a capture thread for each field of the first
\* dev line.
THEOREM ThreadsMatchDevices == Spec => []ThreadPerDevice
<1>1. ASSUME SupervisionInv, NEW p \in Procs, main[p] \in Looping
      PROVE  Len(thread[p]) = Len(Devs(file))
  BY <1>1 DEF SupervisionInv, Configured, Started
<1>2. ASSUME SupervisionInv, NEW n \in Lines(file), FirstDevLine(n)
      PROVE  Len(Devs(file)) = 1 + Cardinality(Bars(file[n].value))
  <2>1. file \in Files /\ file \in Seq([key : STRING, value : Seq(STRING)])
    BY <1>2, ServiceAssumption DEF SupervisionInv, TypeOK, ServiceTypeOK
  <2>2. n \in LinesOf(file, "dev") /\ \A m \in LinesOf(file, "dev") : n <= m
    BY <1>2 DEF FirstDevLine, LinesOf
  <2>3. LinesOf(file, "dev") \subseteq Nat
    BY <2>1 DEF LinesOf, Lines
  <2>4. Min(LinesOf(file, "dev")) = n
    BY <2>2, <2>3, MinIsFirst
  <2> DEFINE v == file[n].value
  <2>5. "dev" \in DOMAIN ReadFile(file) /\ ReadFile(file)["dev"] = v
    BY <2>2, <2>4 DEF ReadFile, LinesOf
  <2>6. Devs(file) = Fields(Append(v, Bar)) /\ v \in Seq(STRING)
    BY <2>1, <2>5, ReadFileType DEF Devs, Split
  <2> HIDE DEF v
  <2>7. Append(v, Bar) \in Seq(STRING \union {Bar})
    BY <2>6
  <2>8. Len(Devs(file)) = Cardinality(Bars(Append(v, Bar)))
    BY <2>6, <2>7, FieldsAreASequence
  <2>9. /\ Bars(Append(v, Bar)) = Bars(v) \union {Len(v) + 1}
        /\ Len(v) + 1 \notin Bars(v)
    BY <2>6 DEF Bars
  <2>10. IsFiniteSet(Bars(v))
    BY <2>6, FS_Interval, FS_Subset DEF Bars
  <2>11. Cardinality(Bars(v)) \in Nat
    BY <2>10, FS_CardinalityType
  <2>12. Cardinality(Bars(Append(v, Bar))) = Cardinality(Bars(v)) + 1
    BY <2>9, <2>10, FS_AddElement
  <2> QED BY <2>8, <2>11, <2>12 DEF v
<1>3. ASSUME SupervisionInv, LinesOf(file, "dev") = {}
      PROVE  Devs(file) = <<>>
  BY <1>3 DEF Devs, ReadFile, LinesOf
<1>4. ASSUME SupervisionInv, NEW p \in Procs, Len(thread[p]) = 0
      PROVE  thread[p] = <<>>
  BY <1>4 DEF SupervisionInv, TypeOK, ServiceTypeOK
<1>5. SupervisionInv => ThreadPerDevice
  BY <1>1, <1>2, <1>3, <1>4 DEF ThreadPerDevice
<1> QED BY <1>5, SupervisionInvHolds, PTL
=============================================================================
