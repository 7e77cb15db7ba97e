------------------------------- MODULE Daemon -------------------------------
(***************************************************************************)
(* The rustscreen command line: start, stop and status as processes of     *)
(* their own, the detached worker they start and signal, and the pid file  *)
(* between them (crates/macos-host/src/bin/rustscreen.rs, daemon.rs).      *)
(*                                                                         *)
(* Nothing locks the pid file: each command reads it once and acts on what *)
(* it read.  A pid is free again once its process is gone, and any other   *)
(* process may get it.                                                     *)
(***************************************************************************)
EXTENDS Naturals, FiniteSets

CONSTANTS
    Clis,     \* bound: commands that run at a time
    MaxPid    \* bound: pids

ASSUME DaemonAssumption ==
    /\ IsFiniteSet(Clis)
    /\ MaxPid \in Nat \ {0}

VARIABLES
    cli,        \* the commands: where each is, and the pid it read or spawned
    pidFile,    \* the pid in it; NoPid when it is missing or empty
    process,    \* the process table
    term,       \* the workers whose STOP flag is set
    \* History.  No guard of the code reads these.
    overlapped, \* a start ran at the same time as a start or a stop
    unrecorded  \* the pid file could not be written

vars == <<cli, pidFile, process, term, overlapped, unrecorded>>

NoPid == 0
Pid == 1 .. MaxPid

Worker == {"starting", "serving", "blocked", "closing"}
Workers == {p \in Pid : process[p] \in Worker}
Alive(p) == process[p] # "free"

Starting == {"read", "probe", "spawn", "truncate", "record"}
Stopping == {"find", "check", "term", "grace", "kill", "reap", "remove"}
Idle == [at |-> "idle", pid |-> NoPid]

Running(places) == {c \in Clis : cli[c].at \in places}
Goes(c, place) == cli' = [cli EXCEPT ![c].at = place]
Ends(c) == cli' = [cli EXCEPT ![c] = Idle]

\* Mutated form: the stop flag outlives the worker it was set for.
BecomesKeepingStop(p, state) ==
    /\ process' = [process EXCEPT ![p] = state]
    /\ term' = term

\* The flag is a static of the worker's process.
Becomes(p, state) ==
    /\ process' = [process EXCEPT ![p] = state]
    /\ term' = IF state \in Worker THEN term ELSE term \ {p}

Init ==
    /\ cli = [c \in Clis |-> Idle]
    /\ pidFile = NoPid
    /\ process = [p \in Pid |-> "free"] /\ term = {}
    /\ overlapped = FALSE /\ unrecorded = FALSE

-----------------------------------------------------------------------------
(***************************************************************************)
(* cmd_start.                                                              *)
(***************************************************************************)
Start(c) ==
    /\ cli[c].at = "idle"
    /\ Goes(c, "read")
    /\ overlapped' = (overlapped \/ Running(Starting \cup Stopping) # {})
    /\ UNCHANGED <<pidFile, process, term, unrecorded>>

Read(c, none, some) ==
    /\ cli' = [cli EXCEPT ![c] = IF pidFile = NoPid THEN none
                                 ELSE [at |-> some, pid |-> pidFile]]
    /\ UNCHANGED <<pidFile, process, term, overlapped, unrecorded>>

StartRead(c) == cli[c].at = "read" /\ Read(c, [at |-> "spawn", pid |-> NoPid], "probe")

\* Mutated form: a recorded pid is taken for stale.
ProbeSkipped(c) ==
    /\ cli[c].at = "probe"
    /\ Goes(c, "spawn")
    /\ UNCHANGED <<pidFile, process, term, overlapped, unrecorded>>

\* start_state: a live pid refuses the start, a dead one is stale.
StartProbe(c) ==
    /\ cli[c].at = "probe"
    /\ IF Alive(cli[c].pid) THEN Ends(c) ELSE Goes(c, "spawn")
    /\ UNCHANGED <<pidFile, process, term, overlapped, unrecorded>>

Spawn(c) ==
    /\ cli[c].at = "spawn"
    /\ \E p \in Pid :
          /\ ~Alive(p)
          /\ Becomes(p, "starting")
          /\ cli' = [cli EXCEPT ![c] = [at |-> "truncate", pid |-> p]]
    /\ UNCHANGED <<pidFile, overlapped, unrecorded>>

\* The log or the worker cannot be opened.
SpawnFails(c) ==
    /\ cli[c].at = "spawn"
    /\ Ends(c)
    /\ UNCHANGED <<pidFile, process, term, overlapped, unrecorded>>

\* write_pid: fs::write empties the file and then writes it.
Truncate(c) ==
    /\ cli[c].at = "truncate"
    /\ pidFile' = NoPid
    /\ Goes(c, "record")
    /\ UNCHANGED <<process, term, overlapped, unrecorded>>

Record(c) ==
    /\ cli[c].at = "record"
    /\ pidFile' = cli[c].pid
    /\ Ends(c)
    /\ UNCHANGED <<process, term, overlapped, unrecorded>>

\* A warning, and the worker runs without a record.
RecordFails(c) ==
    /\ cli[c].at \in {"truncate", "record"}
    /\ Ends(c)
    /\ unrecorded' = TRUE
    /\ UNCHANGED <<pidFile, process, term, overlapped>>

-----------------------------------------------------------------------------
(***************************************************************************)
(* cmd_stop.                                                               *)
(***************************************************************************)
Stop(c) ==
    /\ cli[c].at = "idle"
    /\ Goes(c, "find")
    /\ overlapped' = (overlapped \/ Running(Starting) # {})
    /\ UNCHANGED <<pidFile, process, term, unrecorded>>

StopRead(c) == cli[c].at = "find" /\ Read(c, Idle, "check")

StopProbe(c) ==
    /\ cli[c].at = "check"
    /\ Goes(c, IF Alive(cli[c].pid) THEN "term" ELSE "remove")
    /\ UNCHANGED <<pidFile, process, term, overlapped, unrecorded>>

\* SIGTERM to the group: a worker without its handler dies of it.
Terminate(c) ==
    /\ cli[c].at = "term"
    /\ Goes(c, "grace")
    /\ LET p == cli[c].pid IN
       \/ /\ process[p] \in {"serving", "blocked", "closing"}
          /\ term' = term \cup {p}
          /\ UNCHANGED process
       \/ /\ process[p] \in {"starting", "other"}
          /\ Becomes(p, "free")
       \/ /\ process[p] \in {"free", "dying", "other"}
          /\ UNCHANGED <<process, term>>
    /\ UNCHANGED <<pidFile, overlapped, unrecorded>>

GraceEnds(c) ==
    /\ cli[c].at = "grace"
    /\ ~Alive(cli[c].pid)
    /\ Goes(c, "remove")
    /\ UNCHANGED <<pidFile, process, term, overlapped, unrecorded>>

\* A worker that runs its loop sees the flag within the 3 s.
StillThere(c) ==
    /\ cli[c].at = "grace"
    /\ Alive(cli[c].pid)
    /\ process[cli[c].pid] # "serving" \/ cli[c].pid \notin term

\* Mutated form: no escalation, the record is removed all the same.
GraceGivesUp(c) ==
    /\ StillThere(c)
    /\ Goes(c, "remove")
    /\ UNCHANGED <<pidFile, process, term, overlapped, unrecorded>>

GraceExpires(c) ==
    /\ StillThere(c)
    /\ Goes(c, "kill")
    /\ UNCHANGED <<pidFile, process, term, overlapped, unrecorded>>

\* SIGKILL to the group: nothing catches it, but a process in the kernel
\* takes its time to die.
KillGroup(c) ==
    /\ cli[c].at = "kill"
    /\ Goes(c, "reap")
    /\ IF Alive(cli[c].pid) THEN Becomes(cli[c].pid, "dying") ELSE UNCHANGED <<process, term>>
    /\ UNCHANGED <<pidFile, overlapped, unrecorded>>

\* Gone, or 1 s has passed.
Reap(c) ==
    /\ cli[c].at = "reap"
    /\ Goes(c, "remove")
    /\ UNCHANGED <<pidFile, process, term, overlapped, unrecorded>>

Remove(c) ==
    /\ cli[c].at = "remove"
    /\ pidFile' = NoPid
    /\ Ends(c)
    /\ UNCHANGED <<process, term, overlapped, unrecorded>>

-----------------------------------------------------------------------------
(***************************************************************************)
(* The worker (cmd_serve), and the other processes of the machine.         *)
(***************************************************************************)
ProcessStep(p, from, to) ==
    /\ process[p] = from
    /\ Becomes(p, to)
    /\ UNCHANGED <<cli, pidFile, overlapped, unrecorded>>

\* install_signal_handlers.
Serve(p) == ProcessStep(p, "starting", "serving")

\* A transfer blocks, and SA_RESTART keeps a signal from ending it.  One that
\* blocks right after the signal has blocked right before it.
Block(p)   == p \notin term /\ ProcessStep(p, "serving", "blocked")
Unblock(p) == ProcessStep(p, "blocked", "serving")

SeeStop(p) == p \in term /\ ProcessStep(p, "serving", "closing")
Close(p)   == ProcessStep(p, "closing", "free")
Die(p)     == ProcessStep(p, "dying", "free")

\* run_host returns an error, or the process crashes.
Crash(p) == \E from \in Worker : ProcessStep(p, from, "free")

OtherStarts(p) == ProcessStep(p, "free", "other")
OtherEnds(p)   == ProcessStep(p, "other", "free")

-----------------------------------------------------------------------------
CliStep(c) ==
    \/ StartRead(c) \/ StartProbe(c) \/ Spawn(c) \/ Truncate(c) \/ Record(c)
    \/ StopRead(c) \/ StopProbe(c) \/ Terminate(c) \/ GraceEnds(c) \/ GraceExpires(c)
    \/ KillGroup(c) \/ Reap(c) \/ Remove(c)

WorkerStep(p) == Serve(p) \/ SeeStop(p) \/ Close(p) \/ Die(p)

Next ==
    \/ \E c \in Clis : Start(c) \/ Stop(c) \/ CliStep(c) \/ SpawnFails(c) \/ RecordFails(c)
    \/ \E p \in Pid : WorkerStep(p) \/ Block(p) \/ Unblock(p) \/ Crash(p)
                      \/ OtherStarts(p) \/ OtherEnds(p)

\* Commands run to their end, and a worker that is not blocked runs its loop.
\* Nothing makes a blocked transfer end.
Fairness ==
    /\ \A c \in Clis : WF_vars(CliStep(c))
    /\ \A p \in Pid : WF_vars(WorkerStep(p))

Spec == Init /\ [][Next]_vars /\ Fairness

-----------------------------------------------------------------------------
TypeOK ==
    /\ cli \in [Clis -> [at : {"idle"} \cup Starting \cup Stopping, pid : Pid \cup {NoPid}]]
    /\ pidFile \in Pid \cup {NoPid}
    /\ process \in [Pid -> Worker \cup {"free", "dying", "other"}]
    /\ term \subseteq {p \in Pid : process[p] \in {"serving", "blocked", "closing"}}
    /\ {overlapped, unrecorded} \subseteq BOOLEAN

\* As long as no start overlaps a start or a stop and every pid was written,
\* there is at most one worker, whatever crashed and whatever got its pid,
\* and while no command runs the pid file names it: start refuses a second
\* one and stop finds it (cmd_start, cmd_stop).  Stops may overlap.
OneWorkerOnRecord ==
    ~overlapped /\ ~unrecorded =>
        /\ Cardinality(Workers) <= 1
        /\ Running(Starting \cup Stopping) = {} => Workers \subseteq {pidFile}

\* A stop ends the worker it signals, also when that is blocked in a transfer
\* that no signal interrupts (cmd_stop's grace period and SIGKILL).
StopKills ==
    \A c \in Clis, p \in Pid :
        (cli[c] = [at |-> "term", pid |-> p] /\ p \in Workers) ~> (p \notin Workers)
=============================================================================
