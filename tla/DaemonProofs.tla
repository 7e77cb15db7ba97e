---------------------------- MODULE DaemonProofs ----------------------------
(***************************************************************************)
(* Proofs about Daemon for any number of commands and pids.                *)
(***************************************************************************)
EXTENDS Daemon, TLAPS, FiniteSetTheorems

Places == {"idle"} \cup Starting \cup Stopping
State  == Worker \cup {"free", "dying", "other"}
Signalled == {"serving", "blocked", "closing"}

-----------------------------------------------------------------------------
(***************************************************************************)
(* Types.                                                                  *)
(***************************************************************************)
CliType == cli \in [Clis -> [at : Places, pid : Pid \cup {NoPid}]]

\* A command past its read of the file, or its spawn, has a pid.
PidHeld ==
    \A c \in Clis : cli[c].at \notin {"idle", "read", "spawn", "find"} => cli[c].pid \in Pid

ProcessType ==
    /\ process \in [Pid -> State]
    /\ term \subseteq {p \in Pid : process[p] \in Signalled}
FileType == pidFile \in Pid \cup {NoPid}
FlagType == overlapped \in BOOLEAN /\ unrecorded \in BOOLEAN

TypeInv == CliType /\ PidHeld /\ ProcessType /\ FileType /\ FlagType

LEMMA TypeParts == TypeInv => TypeOK
<1> SUFFICES ASSUME TypeInv PROVE TypeOK
  OBVIOUS
<1>1. {overlapped, unrecorded} \subseteq BOOLEAN
  BY DEF TypeInv, FlagType
<1>2. QED
  BY <1>1 DEF TypeInv, CliType, ProcessType, FileType, TypeOK, Places, State, Signalled

\* One step of a command, taken apart: where it goes and what it carries.
LEMMA GoesTyped ==
    ASSUME CliType, NEW c \in Clis, NEW place \in Places, Goes(c, place)
    PROVE  /\ CliType'
           /\ cli'[c].at = place /\ cli'[c].pid = cli[c].pid
           /\ \A d \in Clis \ {c} : cli'[d] = cli[d]
<1>1. cli[c] \in [at : Places, pid : Pid \cup {NoPid}]
  BY DEF CliType
<1>2. cli' = [cli EXCEPT ![c] = [at |-> place, pid |-> cli[c].pid]]
  <2>1. [cli[c] EXCEPT !.at = place] = [at |-> place, pid |-> cli[c].pid]
    BY <1>1
  <2>2. cli' = [cli EXCEPT ![c] = [cli[c] EXCEPT !.at = place]]
    BY DEF Goes
  <2>3. QED
    BY <2>1, <2>2
<1>3. [at |-> place, pid |-> cli[c].pid] \in [at : Places, pid : Pid \cup {NoPid}]
  BY <1>1
<1>4. QED
  BY <1>2, <1>3 DEF CliType

LEMMA SetTyped ==
    ASSUME CliType, NEW c \in Clis, NEW entry \in [at : Places, pid : Pid \cup {NoPid}],
           cli' = [cli EXCEPT ![c] = entry]
    PROVE  /\ CliType'
           /\ cli'[c] = entry
           /\ \A d \in Clis \ {c} : cli'[d] = cli[d]
BY DEF CliType

LEMMA IdleTyped == Idle \in [at : Places, pid : Pid \cup {NoPid}] /\ Idle.at = "idle"
BY DEF Idle, Places

LEMMA BecomesTyped ==
    ASSUME ProcessType, NEW p \in Pid, NEW state \in State, Becomes(p, state),
           p \in term => state \in Signalled \cup (State \ Worker)
    PROVE  /\ ProcessType'
           /\ process'[p] = state
           /\ \A q \in Pid \ {p} : process'[q] = process[q]
<1>1. /\ process' \in [Pid -> State] /\ process'[p] = state
      /\ \A q \in Pid \ {p} : process'[q] = process[q]
  BY DEF Becomes, ProcessType
<1>2. term' \subseteq {q \in Pid : process'[q] \in Signalled}
  <2>1. CASE state \in Worker
    BY <1>1, <2>1 DEF Becomes, ProcessType
  <2>2. CASE state \notin Worker
    BY <1>1, <2>2 DEF Becomes, ProcessType
  <2>3. QED
    BY <2>1, <2>2
<1>3. QED
  BY <1>1, <1>2 DEF ProcessType

\* Who touches the commands.
LEMMA CliTypeStep ==
    ASSUME TypeInv, [Next]_vars
    PROVE  (CliType /\ PidHeld)'
<1>0. CliType /\ PidHeld
  BY DEF TypeInv
<1>1. CASE cli' = cli
  BY <1>0, <1>1 DEF CliType, PidHeld
<1>2. ASSUME NEW c \in Clis, NEW entry \in [at : Places, pid : Pid \cup {NoPid}],
             cli' = [cli EXCEPT ![c] = entry],
             entry.at \in {"idle", "read", "spawn", "find"} \/ entry.pid \in Pid
      PROVE  (CliType /\ PidHeld)'
  BY <1>0, <1>2, SetTyped DEF PidHeld
<1>3. ASSUME NEW c \in Clis, NEW place \in Places, Goes(c, place),
             place \in {"idle", "read", "spawn", "find"} \/ cli[c].pid \in Pid
      PROVE  (CliType /\ PidHeld)'
  BY <1>0, <1>3, GoesTyped DEF PidHeld
<1>4. ASSUME NEW c \in Clis, Ends(c)
      PROVE  (CliType /\ PidHeld)'
  BY <1>2, <1>4, IdleTyped DEF Ends
<1>5. ASSUME NEW c \in Clis, StartRead(c) \/ StopRead(c)
      PROVE  (CliType /\ PidHeld)'
  <2>1. /\ [at |-> "spawn", pid |-> NoPid] \in [at : Places, pid : Pid \cup {NoPid}]
        /\ [at |-> "probe", pid |-> pidFile] \in [at : Places, pid : Pid \cup {NoPid}]
        /\ [at |-> "check", pid |-> pidFile] \in [at : Places, pid : Pid \cup {NoPid}]
    BY DEF TypeInv, FileType, Places, Starting, Stopping
  <2>2. CASE pidFile = NoPid
    BY <1>2, <1>5, <2>1, <2>2, IdleTyped DEF StartRead, StopRead, Read
  <2>3. CASE pidFile # NoPid
    <3>1. pidFile \in Pid
      BY <2>3 DEF TypeInv, FileType
    <3>2. QED
      BY <1>2, <1>5, <2>1, <2>3, <3>1 DEF StartRead, StopRead, Read
  <2>4. QED
    BY <2>2, <2>3
<1>6. ASSUME NEW c \in Clis, Spawn(c)
      PROVE  (CliType /\ PidHeld)'
  <2>1. PICK q \in Pid : cli' = [cli EXCEPT ![c] = [at |-> "truncate", pid |-> q]]
    BY <1>6 DEF Spawn
  <2>2. [at |-> "truncate", pid |-> q] \in [at : Places, pid : Pid \cup {NoPid}]
    BY DEF Places, Starting
  <2>3. QED
    BY <1>2, <2>1, <2>2
<1>7. ASSUME NEW c \in Clis, Start(c) \/ Stop(c) \/ CliStep(c) \/ SpawnFails(c) \/ RecordFails(c)
      PROVE  (CliType /\ PidHeld)'
  <2>1. {"read", "find", "spawn", "term", "remove", "record", "grace", "kill", "reap"} \subseteq Places
    BY DEF Places, Starting, Stopping
  <2>2. CASE Start(c) \/ Stop(c)
    BY <1>3, <2>1, <2>2 DEF Start, Stop
  <2>3. CASE SpawnFails(c) \/ RecordFails(c) \/ Record(c) \/ Remove(c)
    BY <1>4, <2>3 DEF SpawnFails, RecordFails, Record, Remove
  <2>4. CASE StartProbe(c)
    BY <1>3, <1>4, <2>1, <2>4 DEF StartProbe
  <2>5. CASE StopProbe(c)
    <3>1. cli[c].pid \in Pid /\ (Goes(c, "term") \/ Goes(c, "remove"))
      BY <1>0, <2>5 DEF StopProbe, PidHeld
    <3>2. QED
      BY <1>3, <2>1, <3>1
  <2>6. CASE Truncate(c) \/ Terminate(c) \/ GraceEnds(c) \/ GraceExpires(c) \/ KillGroup(c) \/ Reap(c)
    <3>1. cli[c].pid \in Pid
      BY <1>0, <2>6 DEF Truncate, Terminate, GraceEnds, GraceExpires, StillThere, KillGroup,
         Reap, PidHeld
    <3>2. QED
      BY <1>3, <2>1, <2>6, <3>1 DEF Truncate, Terminate, GraceEnds, GraceExpires, KillGroup, Reap
  <2>7. QED
    BY <1>5, <1>6, <1>7, <2>2, <2>3, <2>4, <2>5, <2>6 DEF CliStep
<1>8. ASSUME NEW p \in Pid, WorkerStep(p) \/ Block(p) \/ Unblock(p) \/ Crash(p)
                              \/ OtherStarts(p) \/ OtherEnds(p)
      PROVE  (CliType /\ PidHeld)'
  BY <1>1, <1>8 DEF WorkerStep, Serve, SeeStop, Close, Die, Block, Unblock, Crash,
     OtherStarts, OtherEnds, ProcessStep
<1>9. QED
  BY <1>1, <1>7, <1>8 DEF Next, vars

\* A step of a process that makes no worker.
Declines(p, state) ==
    /\ Becomes(p, state)
    /\ state \in Worker => process[p] \in Worker
    /\ p \in term => state \in Signalled \cup (State \ Worker)

\* Who touches the processes.  Only a spawn makes a worker.
LEMMA StepsOnProcesses ==
    ASSUME TypeInv, [Next]_vars
    PROVE  \/ UNCHANGED <<process, term>>
           \/ \E c \in Clis : Spawn(c)
           \/ \E p \in Pid, state \in State : Declines(p, state)
           \/ /\ process' = process
              /\ \E p \in Pid : process[p] \in Signalled /\ term' = term \cup {p}
<1> USE DEF Worker, State, Signalled
<1>1. CASE UNCHANGED vars
  BY <1>1 DEF vars
<1>2. ASSUME NEW c \in Clis, Start(c) \/ Stop(c) \/ SpawnFails(c) \/ RecordFails(c)
      PROVE  UNCHANGED <<process, term>>
  BY <1>2 DEF Start, Stop, SpawnFails, RecordFails
<1>3. ASSUME NEW c \in Clis, StartRead(c) \/ StartProbe(c) \/ Truncate(c) \/ Record(c) \/ StopRead(c)
               \/ StopProbe(c) \/ GraceEnds(c) \/ GraceExpires(c) \/ Reap(c) \/ Remove(c)
      PROVE  UNCHANGED <<process, term>>
  BY <1>3 DEF StartRead, StartProbe, Truncate, Record, StopRead, StopProbe, GraceEnds,
     GraceExpires, Reap, Remove, Read
<1>4. ASSUME NEW c \in Clis, Terminate(c)
      PROVE  \/ UNCHANGED <<process, term>>
             \/ Declines(cli[c].pid, "free")
             \/ process' = process /\ process[cli[c].pid] \in Signalled
                  /\ term' = term \cup {cli[c].pid}
  BY <1>4 DEF Terminate, Declines
<1>5. ASSUME NEW c \in Clis, KillGroup(c)
      PROVE  UNCHANGED <<process, term>> \/ Declines(cli[c].pid, "dying")
  BY <1>5 DEF KillGroup, Declines
<1>6. ASSUME NEW c \in Clis, Terminate(c) \/ KillGroup(c)
      PROVE  cli[c].pid \in Pid
  BY <1>6 DEF Terminate, KillGroup, TypeInv, PidHeld
<1>7. ASSUME NEW p \in Pid, WorkerStep(p) \/ Block(p) \/ Unblock(p) \/ Crash(p)
                              \/ OtherStarts(p) \/ OtherEnds(p)
      PROVE  \E state \in State : Declines(p, state)
  <2>1. p \in term => process[p] \in Signalled
    BY DEF TypeInv, ProcessType
  <2>2. CASE Serve(p) \/ Unblock(p) \/ OtherStarts(p) \/ Block(p)
    BY <2>1, <2>2 DEF Serve, Unblock, Block, OtherStarts, ProcessStep, Declines
  <2>3. CASE SeeStop(p) \/ Close(p) \/ Die(p) \/ OtherEnds(p) \/ Crash(p)
    BY <2>1, <2>3 DEF SeeStop, Close, Die, OtherEnds, Crash, ProcessStep, Declines
  <2>4. QED
    BY <1>7, <2>2, <2>3 DEF WorkerStep
<1>8. {"free", "dying"} \subseteq State
  OBVIOUS
<1> HIDE DEF Worker, State, Signalled
<1>9. ASSUME NEW c \in Clis, CliStep(c)
      PROVE  \/ UNCHANGED <<process, term>>
             \/ Spawn(c)
             \/ \E p \in Pid, state \in State : Declines(p, state)
             \/ /\ process' = process
                /\ \E p \in Pid : process[p] \in Signalled /\ term' = term \cup {p}
  BY <1>3, <1>4, <1>5, <1>6, <1>8, <1>9 DEF CliStep
<1>10. QED
  BY <1>1, <1>2, <1>7, <1>9 DEF Next

LEMMA ProcessTypeStep ==
    ASSUME TypeInv, [Next]_vars
    PROVE  ProcessType'
<1>0. ProcessType
  BY DEF TypeInv
<1>1. CASE UNCHANGED <<process, term>>
  BY <1>0, <1>1 DEF ProcessType
<1>2. ASSUME NEW c \in Clis, Spawn(c)
      PROVE  ProcessType'
  <2>1. PICK p \in Pid : process[p] = "free" /\ Becomes(p, "starting")
    BY <1>2 DEF Spawn, Alive
  <2>2. p \notin term /\ "starting" \in State
    BY <1>0, <2>1 DEF ProcessType, Signalled, State, Worker
  <2>3. QED
    BY <1>0, <2>1, <2>2, BecomesTyped
<1>3. ASSUME NEW p \in Pid, NEW state \in State, Declines(p, state)
      PROVE  ProcessType'
  BY <1>0, <1>3, BecomesTyped DEF Declines
<1>4. ASSUME NEW p \in Pid, process' = process, process[p] \in Signalled, term' = term \cup {p}
      PROVE  ProcessType'
  BY <1>0, <1>4 DEF ProcessType
<1>5. QED
  BY <1>1, <1>2, <1>3, <1>4, StepsOnProcesses

LEMMA FileAndFlags ==
    ASSUME TypeInv, [Next]_vars
    PROVE  /\ (FileType /\ FlagType)'
           /\ overlapped => overlapped'
           /\ unrecorded => unrecorded'
<1>0. FileType /\ FlagType
  BY DEF TypeInv
<1>1. CASE UNCHANGED <<pidFile, overlapped, unrecorded>>
  BY <1>0, <1>1 DEF FileType, FlagType
<1>2. ASSUME NEW c \in Clis, Start(c) \/ Stop(c)
      PROVE  /\ (FileType /\ FlagType)'
             /\ overlapped => overlapped'
             /\ unrecorded => unrecorded'
  <2>1. /\ UNCHANGED <<pidFile, unrecorded>>
        /\ \/ overlapped' = (overlapped \/ Running(Starting \cup Stopping) # {})
           \/ overlapped' = (overlapped \/ Running(Starting) # {})
    BY <1>2 DEF Start, Stop
  <2>2. overlapped' \in BOOLEAN /\ (overlapped => overlapped')
    BY <2>1, Zenon
  <2>3. QED
    BY <1>0, <2>1, <2>2 DEF FileType, FlagType
<1>3. ASSUME NEW c \in Clis, Truncate(c) \/ Record(c) \/ Remove(c)
      PROVE  pidFile' \in Pid \cup {NoPid} /\ UNCHANGED <<overlapped, unrecorded>>
  BY <1>3 DEF Truncate, Record, Remove, TypeInv, PidHeld
<1>4. ASSUME NEW c \in Clis, RecordFails(c)
      PROVE  pidFile' = pidFile /\ overlapped' = overlapped /\ unrecorded' = TRUE
  BY <1>4 DEF RecordFails
<1>5. ASSUME NEW c \in Clis, StartRead(c) \/ StartProbe(c) \/ Spawn(c) \/ SpawnFails(c) \/ StopRead(c)
               \/ StopProbe(c) \/ Terminate(c) \/ GraceEnds(c) \/ GraceExpires(c)
               \/ KillGroup(c) \/ Reap(c)
      PROVE  UNCHANGED <<pidFile, overlapped, unrecorded>>
  BY <1>5 DEF StartRead, StartProbe, Spawn, SpawnFails, StopRead, StopProbe, Terminate, GraceEnds,
     GraceExpires, KillGroup, Reap, Read
<1>6. ASSUME NEW p \in Pid, WorkerStep(p) \/ Block(p) \/ Unblock(p) \/ Crash(p)
                              \/ OtherStarts(p) \/ OtherEnds(p)
      PROVE  UNCHANGED <<pidFile, overlapped, unrecorded>>
  BY <1>6 DEF WorkerStep, Serve, SeeStop, Close, Die, Block, Unblock, Crash, OtherStarts,
     OtherEnds, ProcessStep
<1>7. ASSUME NEW c \in Clis, Truncate(c) \/ Record(c) \/ Remove(c) \/ RecordFails(c)
      PROVE  /\ (FileType /\ FlagType)'
             /\ overlapped => overlapped'
             /\ unrecorded => unrecorded'
  BY <1>0, <1>3, <1>4, <1>7 DEF FileType, FlagType
<1>8. UNCHANGED vars => UNCHANGED <<pidFile, overlapped, unrecorded>>
  BY DEF vars
<1>9. QED
  BY <1>1, <1>2, <1>5, <1>6, <1>7, <1>8 DEF Next, CliStep

LEMMA TypeStep == TypeInv /\ [Next]_vars => TypeInv'
BY CliTypeStep, ProcessTypeStep, FileAndFlags DEF TypeInv

LEMMA InitTyped == Init => TypeInv
<1> SUFFICES ASSUME Init PROVE TypeInv
  OBVIOUS
<1>1. CliType /\ PidHeld
  BY IdleTyped DEF Init, CliType, PidHeld
<1>2. ProcessType
  BY DEF Init, ProcessType, State
<1>3. FileType /\ FlagType
  BY DEF Init, FileType, FlagType
<1>4. QED
  BY <1>1, <1>2, <1>3 DEF TypeInv

\* Every variable keeps its type, and a stop flag is only ever set in a worker
\* that is there and handles the signal.
THEOREM DaemonTypeCorrect == Spec => []TypeOK
BY InitTyped, TypeStep, TypeParts, PTL DEF Spec

-----------------------------------------------------------------------------
(***************************************************************************)
(* One worker, on record.  A start has the file to itself, so what it read *)
(* is still there when it spawns; a stop that read the file knows the one  *)
(* worker there can be, and past its signals there is none.                *)
(***************************************************************************)
Alone ==
    \A c, d \in Clis :
        cli[c].at \in Starting /\ cli[d].at \in Starting \cup Stopping => c = d

OnFile ==
    (\A c \in Clis : cli[c].at \notin {"spawn", "truncate", "record"})
        => Workers \subseteq {pidFile}

Knows(c) ==
    /\ cli[c].at = "probe" => cli[c].pid = pidFile
    /\ cli[c].at \in {"spawn", "reap", "remove"} => Workers = {}
    /\ cli[c].at \in {"truncate", "record", "check", "term", "grace", "kill"}
           => Workers \subseteq {cli[c].pid}

RecordInv == Alone /\ OnFile /\ \A c \in Clis : Knows(c)

LEMMA FewWorkers == RecordInv => Cardinality(Workers) <= 1
<1> SUFFICES ASSUME RecordInv PROVE Cardinality(Workers) <= 1
  OBVIOUS
<1>1. \E p : Workers \subseteq {p}
  BY DEF RecordInv, OnFile, Knows
<1>2. PICK p : Workers \subseteq {p}
  BY <1>1
<1>3. IsFiniteSet({p}) /\ Cardinality({p}) = 1
  BY FS_Singleton
<1>4. QED
  BY <1>2, <1>3, FS_Subset

LEMMA Declined ==
    ASSUME TypeInv, NEW p \in Pid, NEW state, Declines(p, state)
    PROVE  Workers' \subseteq Workers /\ (state \notin Worker => p \notin Workers')
BY DEF TypeInv, ProcessType, Declines, Becomes, Workers

\* Nothing but a spawn adds a worker.
LEMMA WorkersShrink ==
    ASSUME TypeInv, [Next]_vars, \A c \in Clis : ~Spawn(c)
    PROVE  Workers' \subseteq Workers
<1>1. CASE process' = process
  BY <1>1 DEF Workers
<1>2. QED
  BY <1>1, Declined, StepsOnProcesses

LEMMA RecordStep ==
    ASSUME TypeInv, RecordInv, [Next]_vars, ~overlapped', ~unrecorded'
    PROVE  RecordInv'
<1> USE DEF RecordInv, Alone, OnFile, Knows
<1>0. CliType
  BY DEF TypeInv
<1>1. ASSUME UNCHANGED <<cli, pidFile>>, Workers' \subseteq Workers
      PROVE  RecordInv'
  BY <1>1
<1>2. ASSUME NEW c \in Clis, Start(c)
      PROVE  RecordInv'
  <2>1. \A d \in Clis : cli[d].at \notin Starting \cup Stopping
    BY <1>2 DEF Start, Running
  <2>2. cli'[c].at = "read" /\ \A d \in Clis \ {c} : cli'[d] = cli[d]
    BY <1>0, <1>2, GoesTyped DEF Start, Places, Starting
  <2>3. pidFile' = pidFile /\ Workers' = Workers
    BY <1>2 DEF Start, Workers
  <2>4. OnFile'
    BY <2>1, <2>3 DEF Starting
  <2>5. Alone'
    BY <2>1, <2>2
  <2>6. QED
    BY <2>2, <2>3, <2>4, <2>5
<1>3. ASSUME NEW c \in Clis, Stop(c)
      PROVE  RecordInv'
  <2>1. \A d \in Clis : cli[d].at \notin Starting
    BY <1>3 DEF Stop, Running
  <2>2. cli'[c].at = "find" /\ \A d \in Clis \ {c} : cli'[d] = cli[d]
    BY <1>0, <1>3, GoesTyped DEF Stop, Places, Stopping
  <2>3. pidFile' = pidFile /\ Workers' = Workers
    BY <1>3 DEF Stop, Workers
  <2>4. OnFile'
    BY <2>1, <2>3 DEF Starting
  <2>5. Alone'
    BY <2>1, <2>2 DEF Starting
  <2>6. QED
    BY <2>2, <2>3, <2>4, <2>5
\* A step of a start: nothing else runs.
<1>4. ASSUME NEW c \in Clis, cli[c].at \in Starting, cli'[c].at \in Starting \cup {"idle"},
             \A d \in Clis \ {c} : cli'[d] = cli[d],
             Knows(c)', OnFile'
      PROVE  RecordInv'
  <2>1. \A d \in Clis \ {c} : cli[d].at \notin Starting \cup Stopping
    BY <1>4
  <2>2. Alone'
    BY <1>4, <2>1 DEF Starting, Stopping
  <2>3. \A d \in Clis \ {c} : Knows(d)'
    BY <1>4, <2>1 DEF Starting, Stopping
  <2>4. QED
    BY <1>4, <2>2, <2>3
\* A step of a stop, other than its last.
<1>5. ASSUME NEW c \in Clis, cli[c].at \in Stopping, cli'[c].at \in Stopping \cup {"idle"},
             \A d \in Clis \ {c} : cli'[d] = cli[d],
             pidFile' = pidFile, Workers' \subseteq Workers, Knows(c)'
      PROVE  RecordInv'
  <2>1. Alone' /\ \A d \in Clis : cli[d].at \notin Starting
    BY <1>5 DEF Starting, Stopping
  <2>2. OnFile'
    BY <1>5, <2>1 DEF Starting
  <2>3. \A d \in Clis \ {c} : Knows(d)'
    BY <1>5
  <2>4. QED
    BY <1>5, <2>1, <2>2, <2>3
\* A start in progress without a worker of its own has the file's.
<1>6. ASSUME NEW c \in Clis, cli[c].at \in {"read", "probe", "find"}
      PROVE  Workers \subseteq {pidFile}
  BY <1>6 DEF Starting, Stopping
\* A pid that is free is no worker's.
<1>7. ASSUME NEW q \in Pid, process[q] = "free"
      PROVE  q \notin Workers
  BY <1>7 DEF Workers, Worker
<1>8. ASSUME NEW c \in Clis, cli[c].at \notin {"idle", "read", "spawn", "find"}
      PROVE  cli[c].pid \in Pid
  BY <1>8 DEF TypeInv, PidHeld
<1>9. ASSUME NEW c \in Clis, StartRead(c)
      PROVE  RecordInv'
  <2>1. /\ cli[c].at = "read" /\ pidFile' = pidFile /\ Workers' = Workers
        /\ \A d \in Clis \ {c} : cli'[d] = cli[d]
    BY <1>0, <1>9 DEF StartRead, Read, Workers, CliType
  <2>2. CASE pidFile = NoPid
    <3>1. cli'[c].at = "spawn"
      BY <1>0, <1>9, <2>2 DEF StartRead, Read, CliType
    <3>2. Workers = {}
      BY <1>6, <2>1, <2>2 DEF Workers, Pid, NoPid
    <3>3. Knows(c)' /\ OnFile'
      BY <2>1, <3>1, <3>2
    <3>4. QED
      BY <1>4, <2>1, <3>1, <3>3 DEF Starting
  <2>3. CASE pidFile # NoPid
    <3>1. cli'[c].at = "probe" /\ cli'[c].pid = pidFile
      BY <1>0, <1>9, <2>3 DEF StartRead, Read, CliType
    <3>2. Knows(c)' /\ OnFile'
      BY <1>6, <2>1, <3>1
    <3>3. QED
      BY <1>4, <2>1, <3>1, <3>2 DEF Starting
  <2>4. QED
    BY <2>2, <2>3
<1>10. ASSUME NEW c \in Clis, StartProbe(c)
       PROVE  RecordInv'
  <2>1. /\ cli[c].at = "probe" /\ cli[c].pid = pidFile /\ Workers \subseteq {pidFile}
        /\ pidFile' = pidFile /\ Workers' = Workers
    BY <1>6, <1>10 DEF StartProbe, Workers
  <2>2. CASE Alive(cli[c].pid)
    <3>1. cli'[c].at = "idle" /\ \A d \in Clis \ {c} : cli'[d] = cli[d]
      BY <1>0, <1>10, <2>2, IdleTyped, SetTyped DEF StartProbe, Ends
    <3>2. QED
      BY <1>4, <2>1, <3>1 DEF Starting
  <2>3. CASE ~Alive(cli[c].pid)
    <3>1. cli'[c].at = "spawn" /\ \A d \in Clis \ {c} : cli'[d] = cli[d]
      BY <1>0, <1>10, <2>3, GoesTyped DEF StartProbe, Places, Starting
    <3>2. Workers = {}
      BY <1>7, <1>8, <2>1, <2>3 DEF Alive
    <3>3. QED
      BY <1>4, <2>1, <3>1, <3>2 DEF Starting
  <2>4. QED
    BY <2>2, <2>3
<1>11. ASSUME NEW c \in Clis, Spawn(c)
       PROVE  RecordInv'
  <2>1. PICK q \in Pid : Becomes(q, "starting")
                         /\ cli' = [cli EXCEPT ![c] = [at |-> "truncate", pid |-> q]]
    BY <1>11 DEF Spawn
  <2>2. /\ cli[c].at = "spawn" /\ Workers = {}
        /\ cli'[c].at = "truncate" /\ cli'[c].pid = q
        /\ \A d \in Clis \ {c} : cli'[d] = cli[d]
    BY <1>0, <1>11, <2>1 DEF Spawn, CliType
  <2>3. Workers' \subseteq {q}
    BY <2>1, <2>2 DEF Workers, Becomes, TypeInv, ProcessType
  <2>4. Knows(c)' /\ OnFile'
    BY <2>2, <2>3
  <2>5. QED
    BY <1>4, <2>2, <2>4 DEF Starting
<1>12. ASSUME NEW c \in Clis, SpawnFails(c)
       PROVE  RecordInv'
  <2>1. /\ cli[c].at = "spawn" /\ Workers = {} /\ Workers' = {}
        /\ cli'[c].at = "idle" /\ \A d \in Clis \ {c} : cli'[d] = cli[d]
    BY <1>0, <1>12, IdleTyped, SetTyped DEF SpawnFails, Ends, Workers
  <2>2. Knows(c)' /\ OnFile'
    BY <2>1
  <2>3. QED
    BY <1>4, <2>1, <2>2 DEF Starting
<1>13. ASSUME NEW c \in Clis, Truncate(c)
       PROVE  RecordInv'
  <2>1. /\ cli[c].at = "truncate" /\ Workers' = Workers
        /\ cli'[c].at = "record" /\ cli'[c].pid = cli[c].pid
        /\ \A d \in Clis \ {c} : cli'[d] = cli[d]
    BY <1>0, <1>13, GoesTyped DEF Truncate, Workers, Places, Starting
  <2>2. Knows(c)' /\ OnFile'
    BY <2>1
  <2>3. QED
    BY <1>4, <2>1, <2>2 DEF Starting
<1>14. ASSUME NEW c \in Clis, Record(c)
       PROVE  RecordInv'
  <2>1. /\ cli[c].at = "record" /\ Workers' = Workers /\ pidFile' = cli[c].pid
        /\ cli'[c].at = "idle" /\ \A d \in Clis \ {c} : cli'[d] = cli[d]
    BY <1>0, <1>14, IdleTyped, SetTyped DEF Record, Ends, Workers
  <2>2. Knows(c)' /\ OnFile'
    BY <2>1
  <2>3. QED
    BY <1>4, <2>1, <2>2 DEF Starting
<1>15. ASSUME NEW c \in Clis, StopRead(c)
       PROVE  RecordInv'
  <2>1. /\ cli[c].at = "find" /\ pidFile' = pidFile /\ Workers' = Workers
        /\ \A d \in Clis \ {c} : cli'[d] = cli[d]
    BY <1>0, <1>15 DEF StopRead, Read, Workers, CliType
  <2>2. cli'[c].at = "idle" \/ (cli'[c].at = "check" /\ cli'[c].pid = pidFile)
    BY <1>0, <1>15, IdleTyped DEF StopRead, Read, CliType
  <2>3. Knows(c)'
    BY <1>6, <2>1, <2>2
  <2>4. QED
    BY <1>5, <2>1, <2>2, <2>3 DEF Stopping
<1>16. ASSUME NEW c \in Clis, StopProbe(c) \/ GraceEnds(c)
       PROVE  RecordInv'
  <2>1. /\ cli[c].at \in {"check", "grace"} /\ Workers \subseteq {cli[c].pid} /\ cli[c].pid \in Pid
        /\ pidFile' = pidFile /\ Workers' = Workers
    BY <1>8, <1>16 DEF StopProbe, GraceEnds, Workers
  <2>2. CASE Goes(c, "remove") /\ ~Alive(cli[c].pid)
    <3>1. cli'[c].at = "remove" /\ \A d \in Clis \ {c} : cli'[d] = cli[d]
      BY <1>0, <2>2, GoesTyped DEF Places, Stopping
    <3>2. Workers = {}
      BY <1>7, <2>1, <2>2 DEF Alive
    <3>3. QED
      BY <1>5, <2>1, <3>1, <3>2 DEF Stopping
  <2>3. CASE Goes(c, "term")
    <3>1. cli'[c].at = "term" /\ cli'[c].pid = cli[c].pid /\ \A d \in Clis \ {c} : cli'[d] = cli[d]
      BY <1>0, <2>3, GoesTyped DEF Places, Stopping
    <3>2. QED
      BY <1>5, <2>1, <3>1 DEF Stopping
  <2>4. QED
    BY <1>16, <2>2, <2>3 DEF StopProbe, GraceEnds
<1>17. ASSUME NEW c \in Clis, Terminate(c) \/ GraceExpires(c)
       PROVE  RecordInv'
  <2>1. \A d \in Clis : ~Spawn(d)
    <3>1. cli[c].at \in Stopping
      BY <1>17 DEF Terminate, GraceExpires, StillThere, Stopping
    <3>2. QED
      BY <3>1 DEF Spawn, Starting, Stopping
  <2>2. Workers' \subseteq Workers
    BY <2>1, WorkersShrink
  <2>3. /\ cli[c].at \in {"term", "grace"} /\ Workers \subseteq {cli[c].pid}
        /\ pidFile' = pidFile
    BY <1>17 DEF Terminate, GraceExpires, StillThere
  <2>4. PICK place \in {"grace", "kill"} : Goes(c, place)
    BY <1>17 DEF Terminate, GraceExpires
  <2>5. cli'[c].at = place /\ cli'[c].pid = cli[c].pid /\ \A d \in Clis \ {c} : cli'[d] = cli[d]
    BY <1>0, <2>4, GoesTyped DEF Places, Stopping
  <2>6. Knows(c)'
    BY <2>2, <2>3, <2>5
  <2>7. QED
    BY <1>5, <2>2, <2>3, <2>5, <2>6 DEF Stopping
<1>18. ASSUME NEW c \in Clis, KillGroup(c)
       PROVE  RecordInv'
  <2>1. /\ cli[c].at = "kill" /\ Workers \subseteq {cli[c].pid} /\ cli[c].pid \in Pid
        /\ pidFile' = pidFile
    BY <1>8, <1>18 DEF KillGroup
  <2>2. cli'[c].at = "reap" /\ \A d \in Clis \ {c} : cli'[d] = cli[d]
    BY <1>0, <1>18, GoesTyped DEF KillGroup, Places, Stopping
  <2>3. Workers' = {}
    <3>1. CASE Alive(cli[c].pid)
      <4>1. Declines(cli[c].pid, "dying") /\ "dying" \notin Worker
        BY <1>18, <3>1 DEF KillGroup, Declines, State, Worker
      <4>2. QED
        BY <2>1, <4>1, Declined
    <3>2. CASE ~Alive(cli[c].pid)
      <4>1. Workers' = Workers
        BY <1>18, <3>2 DEF KillGroup, Workers
      <4>2. QED
        BY <1>7, <2>1, <3>2, <4>1 DEF Alive
    <3>3. QED
      BY <3>1, <3>2
  <2>4. QED
    BY <1>5, <2>1, <2>2, <2>3 DEF Stopping
<1>19. ASSUME NEW c \in Clis, Reap(c)
       PROVE  RecordInv'
  <2>1. /\ cli[c].at = "reap" /\ Workers = {} /\ Workers' = {} /\ pidFile' = pidFile
        /\ cli'[c].at = "remove" /\ \A d \in Clis \ {c} : cli'[d] = cli[d]
    BY <1>0, <1>19, GoesTyped DEF Reap, Workers, Places, Stopping
  <2>2. QED
    BY <1>5, <2>1 DEF Stopping
<1>20. ASSUME NEW c \in Clis, Remove(c)
       PROVE  RecordInv'
  <2>1. /\ cli[c].at = "remove" /\ Workers = {} /\ Workers' = {}
        /\ cli'[c].at = "idle" /\ \A d \in Clis \ {c} : cli'[d] = cli[d]
    BY <1>0, <1>20, IdleTyped, SetTyped DEF Remove, Ends, Workers
  <2>2. \A d \in Clis : cli[d].at \notin Starting
    BY <2>1 DEF Starting, Stopping
  <2>3. Alone'
    BY <2>1, <2>2 DEF Starting
  <2>4. \A d \in Clis : Knows(d)'
    BY <2>1, <2>2 DEF Starting
  <2>5. QED
    BY <2>1, <2>3, <2>4
<1>21. ASSUME NEW q \in Pid, WorkerStep(q) \/ Block(q) \/ Unblock(q) \/ Crash(q)
                               \/ OtherStarts(q) \/ OtherEnds(q)
       PROVE  RecordInv'
  <2>1. UNCHANGED <<cli, pidFile>>
    BY <1>21 DEF WorkerStep, Serve, SeeStop, Close, Die, Block, Unblock, Crash, OtherStarts,
       OtherEnds, ProcessStep
  <2>2. \A c \in Clis : ~Spawn(c)
    BY <1>0, <2>1 DEF Spawn, CliType
  <2>3. QED
    BY <1>1, <2>1, <2>2, WorkersShrink
<1>22. ASSUME UNCHANGED vars
       PROVE  RecordInv'
  BY <1>1, <1>22 DEF vars, Workers
<1>23. ASSUME NEW c \in Clis, RecordFails(c)
       PROVE  FALSE
  BY <1>23 DEF RecordFails
<1> HIDE DEF RecordInv, Alone, OnFile, Knows
<1>24. QED
  BY <1>2, <1>3, <1>9, <1>10, <1>11, <1>12, <1>13, <1>14, <1>15, <1>16, <1>17, <1>18, <1>19,
     <1>20, <1>21, <1>22, <1>23 DEF Next, CliStep

\* While no start overlaps another command and every pid was written, there is
\* one worker at most and the file names it.
THEOREM OneWorker == Spec => []OneWorkerOnRecord
<1> DEFINE RInv == ~overlapped /\ ~unrecorded => RecordInv
<1>1. Init => RInv
  BY DEF Init, RecordInv, Alone, OnFile, Knows, Idle, Starting, Workers, Worker
<1>2. TypeInv /\ RInv /\ [Next]_vars => (TypeInv /\ RInv)'
  <2>1. ASSUME TypeInv, RInv, [Next]_vars, ~overlapped', ~unrecorded'
        PROVE  RecordInv'
    BY <2>1, FileAndFlags, RecordStep
  <2>2. QED
    BY <2>1, TypeStep
<1>3. RInv => OneWorkerOnRecord
  <2>1. ASSUME RecordInv, Running(Starting \cup Stopping) = {}
        PROVE  Workers \subseteq {pidFile}
    BY <2>1 DEF RecordInv, OnFile, Running, Starting
  <2>2. QED
    BY <2>1, FewWorkers DEF OneWorkerOnRecord
<1> HIDE DEF RInv
<1>4. QED
  BY <1>1, <1>2, <1>3, InitTyped, PTL DEF Spec
=============================================================================
