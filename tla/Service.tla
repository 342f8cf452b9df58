------------------------------ MODULE Service ------------------------------
(***************************************************************************)
(* The process: main of src/src/main.cpp, SysApp of src/src/sysapp.cpp,    *)
(* and the capture thread it starts for each device (Start, InitKafka and  *)
(* PcapSniffer of src/src/packet_sniffer.cpp).  There may be several       *)
(* processes, each in a slot of Procs; Supervision has the scripts that    *)
(* start and kill them.                                                    *)
(*                                                                         *)
(* What the threads do with frames, and LRUClear's inside, is in           *)
(* PacketSniffer; the log in SysLog.  Whether InitKafka makes a producer   *)
(* is left out: the thread goes on in either case.  A process that exits   *)
(* destroys its statics, the configuration among them, while its other     *)
(* threads run on: what they do until it is gone reaches nobody, and is    *)
(* left out.                                                               *)
(***************************************************************************)
EXTENDS SysConfig

CONSTANTS
  Procs,      \* slots for processes: a slot is used again when its process is gone
  Files,      \* what ../conf/sys.cfg may say
  MaxFaults   \* bound: signals, kills and failures of system calls

ASSUME ServiceAssumption ==
  /\ Files \subseteq Seq([key : STRING, value : Seq(STRING)])
  /\ MaxFaults \in Nat

VARIABLES
  file,     \* the configuration file
  main,     \* per process: where its main thread is,
  devs,     \*   the devices in its configuration, with a sniffer for each,
  at,       \*   the sniffer it is at in CheckLRU,
  bRun,     \*   the run flag,
  thread,   \*   and where its capture threads are, in the order of their start
  faults    \* how many of the faults there have been

process == <<main, devs, at, bRun, thread>>
svars   == <<file, process, faults>>

\* The places, in the order of the code: in front of the new SysApp, in Init, at
\* daemon(), in front of Start's first line, in its loop, at RunFlag(), in
\* CheckLRU, in sleep, and in exit(), which any thread may have called.  "parent"
\* is the process that daemon() ends.
Looping    == {"test", "lru", "sleep"}
MainPlaces == {"absent", "begin", "init", "daemon", "start", "threads", "exit",
               "parent"} \union Looping

ServiceTypeOK ==
  /\ file \in Files
  /\ main \in [Procs -> MainPlaces]
  /\ devs \in [Procs -> {<<>>, Devs(file)}]
  /\ at \in [Procs -> Nat] /\ \A p \in Procs : main[p] = "lru" => at[p] \in DOMAIN devs[p]
  /\ bRun \in [Procs -> BOOLEAN]
  /\ thread \in [Procs -> Seq({"open", "loop", "ended"})]
  /\ faults \in 0 .. MaxFaults

ServiceInit ==
  /\ file \in Files
  /\ main = [p \in Procs |-> "absent"]
  /\ devs = [p \in Procs |-> <<>>] /\ at = [p \in Procs |-> 0]
  /\ bRun = [p \in Procs |-> FALSE]
  /\ thread = [p \in Procs |-> <<>>]
  /\ faults = 0

Absent == {p \in Procs : main[p] = "absent"}

\* The first free slot: which one a process gets makes no difference.
Slot == CHOOSE p \in Absent : TRUE

Goto(p, place) == main' = [main EXCEPT ![p] = place]

\* The processes of a set are gone.
Gone(ps) ==
  /\ main'    = [p \in Procs |-> IF p \in ps THEN "absent" ELSE main[p]]
  /\ devs'    = [p \in Procs |-> IF p \in ps THEN <<>> ELSE devs[p]]
  /\ at'      = [p \in Procs |-> IF p \in ps THEN 0 ELSE at[p]]
  /\ bRun'    = [p \in Procs |-> bRun[p] /\ p \notin ps]
  /\ thread'  = [p \in Procs |-> IF p \in ps THEN <<>> ELSE thread[p]]

Fault == faults' = faults + 1 /\ faults' <= MaxFaults /\ UNCHANGED file

-----------------------------------------------------------------------------
(* The main thread. *)

\* The handler is there before the SysApp is.
NewSysApp(p) ==
  /\ main[p] = "begin" /\ Goto(p, "init")
  /\ bRun' = [bRun EXCEPT ![p] = FALSE]
  /\ UNCHANGED <<file, devs, at, thread, faults>>

\* The configuration, the log and, unless the process becomes a daemon first,
\* the sniffers.
InitApp(p) ==
  /\ main[p] = "init"
  /\ Goto(p, IF Daemon(file) THEN "daemon" ELSE "start")
  /\ devs' = [devs EXCEPT ![p] = Devs(file)]
  /\ UNCHANGED <<file, at, bRun, thread, faults>>

\* An assertion fails: the file cannot be read, or there is no pool.
InitAborts(p) ==
  /\ main[p] = "init" /\ Gone({p}) /\ Fault

\* daemon() goes on in a child; both are there until the parent has exited.
Daemonize(p) ==
  /\ main[p] = "daemon" /\ Absent # {}
  /\ main' = [main EXCEPT ![p] = "parent", ![Slot] = "start"]
  /\ devs' = [devs EXCEPT ![Slot] = devs[p]]
  /\ bRun' = [bRun EXCEPT ![Slot] = bRun[p]]
  /\ UNCHANGED <<file, at, thread, faults>>

Start(p) ==
  /\ main[p] = "start" /\ Goto(p, "threads")
  /\ bRun' = [bRun EXCEPT ![p] = TRUE]
  /\ UNCHANGED <<file, devs, at, thread, faults>>

StartThread(p) ==
  /\ main[p] = "threads" /\ Len(thread[p]) < Len(devs[p])
  /\ thread' = [thread EXCEPT ![p] = Append(@, "open")]
  /\ UNCHANGED <<file, main, devs, at, bRun, faults>>

\* The mutant sets the flag when the threads have been started.
AllStarted_SetsRun(p) ==
  /\ main[p] = "threads" /\ Len(thread[p]) = Len(devs[p]) /\ Goto(p, "test")
  /\ bRun' = [bRun EXCEPT ![p] = TRUE]
  /\ UNCHANGED <<file, devs, at, thread, faults>>

AllStarted(p) ==
  /\ main[p] = "threads" /\ Len(thread[p]) = Len(devs[p]) /\ Goto(p, "test")
  /\ UNCHANGED <<file, devs, at, bRun, thread, faults>>

\* RunFlag(): the loop of main, or its return.
TestRunFlag(p) ==
  /\ main[p] = "test"
  /\ Goto(p, IF ~bRun[p] THEN "exit" ELSE IF devs[p] = <<>> THEN "sleep" ELSE "lru")
  /\ at' = [at EXCEPT ![p] = IF bRun[p] /\ devs[p] # <<>> THEN 1 ELSE 0]
  /\ UNCHANGED <<file, devs, bRun, thread, faults>>

\* The mutants check the first sniffer only, and one too many.
CheckLRU_First(p) ==
  /\ main[p] = "lru"
  /\ at' = [at EXCEPT ![p] = 0] /\ Goto(p, "sleep")
  /\ UNCHANGED <<file, devs, bRun, thread, faults>>
CheckLRU_OffTheEnd(p) ==
  /\ main[p] = "lru"
  /\ IF at[p] <= Len(devs[p])
     THEN at' = [at EXCEPT ![p] = @ + 1] /\ UNCHANGED main
     ELSE at' = [at EXCEPT ![p] = 0] /\ Goto(p, "sleep")
  /\ UNCHANGED <<file, devs, bRun, thread, faults>>

\* CheckLRU: the LRUClear of one sniffer ends.
CheckLRU(p) ==
  /\ main[p] = "lru"
  /\ IF at[p] < Len(devs[p])
     THEN at' = [at EXCEPT ![p] = @ + 1] /\ UNCHANGED main
     ELSE at' = [at EXCEPT ![p] = 0] /\ Goto(p, "sleep")
  /\ UNCHANGED <<file, devs, bRun, thread, faults>>

Wake(p) ==
  /\ main[p] = "sleep" /\ Goto(p, "test")
  /\ UNCHANGED <<file, devs, at, bRun, thread, faults>>

\* The end of exit(), and of the process that daemon() leaves.
Exit(p) ==
  /\ main[p] \in {"exit", "parent"}
  /\ Gone({p})
  /\ UNCHANGED <<file, faults>>

MainStep(p) ==
  \/ NewSysApp(p) \/ InitApp(p) \/ Daemonize(p) \/ Start(p) \/ StartThread(p) \/ AllStarted(p)
  \/ TestRunFlag(p) \/ CheckLRU(p) \/ Wake(p) \/ Exit(p)

-----------------------------------------------------------------------------
(* The capture threads. *)

InThread(p, k, place) == main[p] # "exit" /\ k \in DOMAIN thread[p] /\ thread[p][k] = place
ThreadGoto(p, k, place) == thread' = [thread EXCEPT ![p][k] = place]

\* InitKafka, and the device is opened.
OpenPcap(p, k) ==
  /\ InThread(p, k, "open") /\ ThreadGoto(p, k, "loop")
  /\ UNCHANGED <<file, main, devs, at, bRun, faults>>

\* It cannot be opened: exit(1), for the other devices as well.
OpenFails(p, k) ==
  /\ InThread(p, k, "open") /\ Goto(p, "exit")
  /\ Fault /\ UNCHANGED <<devs, at, bRun, thread>>

\* pcap_loop returns, because the device is gone, and the thread ends.
LoopEnds(p, k) ==
  /\ InThread(p, k, "loop") /\ ThreadGoto(p, k, "ended")
  /\ Fault /\ UNCHANGED <<main, devs, at, bRun>>

ThreadStep(p) == \E k \in DOMAIN devs[p] : OpenPcap(p, k)

-----------------------------------------------------------------------------
(* Signals. *)

\* SIGUSR1: without the handler it ends the process, and so does the handler
\* when there is no SysApp yet; then it clears the flag.
Sigusr1(p) ==
  /\ p \notin Absent
  /\ IF main[p] = "begin" THEN Gone({p})
     ELSE bRun' = [bRun EXCEPT ![p] = FALSE] /\ UNCHANGED <<main, devs, at, thread>>
  /\ Fault

\* SIGKILL from elsewhere, or any fault of the process's own.
Dies(p) == p \notin Absent /\ Gone({p}) /\ Fault

Failure(p) ==
  \/ InitAborts(p) \/ Sigusr1(p) \/ Dies(p)
  \/ \E k \in DOMAIN devs[p] : OpenFails(p, k) \/ LoopEnds(p, k)
=============================================================================
