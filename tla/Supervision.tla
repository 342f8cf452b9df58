---------------------------- MODULE Supervision ----------------------------
(***************************************************************************)
(* The scripts of src/bin with the processes they look after:              *)
(* progmon.sh, which cron runs again and again, and service.sh, which      *)
(* progmon.sh and an operator run.  Each looks for processes with ps and   *)
(* acts on what it saw later, when it may no longer be so.                 *)
(*                                                                         *)
(* A script's "launch" lasts from the look at ps until ps can see the new  *)
(* process, "kill" from the look until kill -9.  What the scripts print,   *)
(* status, and the second look of start, which only chooses what to print, *)
(* are left out.  Numbers of processes are not used again between ps and   *)
(* kill.                                                                   *)
(***************************************************************************)
EXTENDS Service

CONSTANT MaxCommands  \* bound: commands of the operator

ASSUME SupervisionAssumption == MaxCommands \in Nat

VARIABLES
  spc,        \* where each script is
  victims,    \* the processes that stop is about to kill
  restarting, \* whether a start follows the stop
  commands,   \* how many commands the operator has given
  overlapped  \* history: whether both scripts have ever been about to launch at once

scripts == <<spc, victims, restarting, commands, overlapped>>
vars    == <<svars, scripts>>

Scripts == {"progmon", "operator"}

\* What ps finds: daemon()'s parent is among them until it has exited.
Pids    == Procs \ Absent
Workers == {p \in Pids : main[p] # "parent"}

TypeOK ==
  /\ ServiceTypeOK
  /\ spc \in [Scripts -> {"idle", "start", "launch", "stop", "kill"}]
  /\ victims \subseteq Pids
  /\ restarting \in BOOLEAN /\ commands \in 0 .. MaxCommands /\ overlapped \in BOOLEAN

Init ==
  /\ ServiceInit
  /\ spc = [s \in Scripts |-> "idle"]
  /\ victims = {} /\ restarting = FALSE /\ commands = 0 /\ overlapped = FALSE

ScriptGoto(s, place) == spc' = [spc EXCEPT ![s] = place]

-----------------------------------------------------------------------------
(* progmon.sh starts the program when ps shows no process of it; the mutant *)
(* forgets grep -v grep and always counts one.                              *)
SeesNone_CountsItself == FALSE
SeesNone == Pids = {}

Watch ==
  /\ spc["progmon"] = "idle"
  /\ ScriptGoto("progmon", IF SeesNone THEN "start" ELSE "idle")
  /\ UNCHANGED <<svars, victims, restarting, commands, overlapped>>

(* service.sh *)
Command ==
  /\ spc["operator"] = "idle" /\ commands < MaxCommands
  /\ \/ ScriptGoto("operator", "start") /\ UNCHANGED restarting
     \/ ScriptGoto("operator", "stop") /\ restarting' \in BOOLEAN
  /\ commands' = commands + 1
  /\ UNCHANGED <<svars, victims, overlapped>>

\* The mutant launches whatever ps shows.
StartLooks_Blindly(s) ==
  /\ spc[s] = "start" /\ ScriptGoto(s, "launch")
  /\ overlapped' = (overlapped \/ \A t \in Scripts : spc'[t] = "launch")
  /\ UNCHANGED <<svars, victims, restarting, commands>>

\* start: with two processes the test of their number fails as if there were one.
StartLooks(s) ==
  /\ spc[s] = "start"
  /\ ScriptGoto(s, IF Pids = {} THEN "launch" ELSE "idle")
  /\ overlapped' = (overlapped \/ \A t \in Scripts : spc'[t] = "launch")
  /\ UNCHANGED <<svars, victims, restarting, commands>>

Launch(s) ==
  /\ spc[s] = "launch" /\ Absent # {}
  /\ Goto(Slot, "begin") /\ ScriptGoto(s, "idle")
  /\ UNCHANGED <<file, devs, at, bRun, thread, faults,
                 victims, restarting, commands, overlapped>>

StopLooks ==
  /\ spc["operator"] = "stop"
  /\ victims' = Pids
  /\ ScriptGoto("operator", IF Pids # {} THEN "kill" ELSE IF restarting THEN "start" ELSE "idle")
  /\ restarting' = (restarting /\ Pids # {})
  /\ UNCHANGED <<svars, commands, overlapped>>

Kill ==
  /\ spc["operator"] = "kill"
  /\ Gone(victims) /\ victims' = {}
  /\ ScriptGoto("operator", IF restarting THEN "start" ELSE "idle")
  /\ restarting' = FALSE
  /\ UNCHANGED <<file, faults, commands, overlapped>>

ProgmonStep  == Watch \/ StartLooks("progmon") \/ Launch("progmon")
OperatorStep == StopLooks \/ Kill \/ StartLooks("operator") \/ Launch("operator")

-----------------------------------------------------------------------------
(* The processes' own steps.  A victim that is gone is no victim any more. *)
Alone == victims' = {p \in victims : main'[p] # "absent"}
         /\ UNCHANGED <<spc, restarting, commands, overlapped>>

Runs(p)    == MainStep(p) /\ Alone
Threads(p) == ThreadStep(p) /\ Alone
Fails(p)   == Failure(p) /\ Alone

Next ==
  \/ ProgmonStep \/ Command \/ OperatorStep
  \/ \E p \in Procs : Runs(p) \/ Threads(p) \/ Fails(p)

Spec == Init /\ [][Next]_vars

\* Threads and scripts go on as long as they can, and cron runs progmon.sh.
Fairness ==
  /\ WF_vars(ProgmonStep) /\ WF_vars(OperatorStep)
  /\ \A p \in Procs : WF_vars(Runs(p)) /\ WF_vars(Threads(p))

FairSpec == Spec /\ Fairness

-----------------------------------------------------------------------------
(* Properties. *)

\* Two scripts that look and then launch can start two processes, which both
\* put the same messages into Kafka; as long as they have not been about to
\* launch at the same time, there is never more than one process that works,
\* whatever restarts, kills and daemon() do.
NoSecondProcess == ~overlapped => \A p, q \in Workers : p = q

\* When main's loop runs there are as many capture threads as the first dev
\* line has fields, whatever other lines and comments there are, and none when
\* there is no such line.
FirstDevLine(n) ==
  file[n].key = "dev" /\ \A m \in Lines(file) : file[m].key = "dev" => n <= m
ThreadPerDevice ==
  \A p \in Procs : main[p] \in Looping =>
    /\ \A n \in Lines(file) : FirstDevLine(n) => Len(thread[p]) = 1 + Cardinality(Bars(file[n].value))
    /\ LinesOf(file, "dev") = {} => thread[p] = <<>>

\* SIGUSR1 ends a process whose Start has set the flag, also one that is still
\* starting its threads.
SignalStops ==
  \A p \in Procs : (main[p] \in {"threads"} \union Looping /\ ~bRun[p]) ~> (main[p] = "absent")

\* Kills, crashes, signals, devices that do not open and commands that cross the
\* watchdog's: the program always comes back and captures on all devices, unless
\* a thread whose pcap_loop has returned leaves it running blind.
Captures(p) == main[p] \in Looping /\ bRun[p] /\ \A k \in DOMAIN thread[p] : thread[p][k] = "loop"
Blind(p)    == \E k \in DOMAIN thread[p] : thread[p][k] = "ended"
Recovers ==
  <>[](\A p \in Procs : ~Blind(p)) => []<>(\E p \in Procs : Captures(p))

\* A process that captures for ever runs LRUClear for each of its sniffers
\* again and again, which is what PacketSniffer assumes of main.
SniffersAreChecked ==
  \A p \in Procs : \A k \in UNION {DOMAIN Devs(f) : f \in Files} :
    <>[]Captures(p) => []<>(k \in DOMAIN devs[p] => main[p] = "lru" /\ at[p] = k)
=============================================================================
