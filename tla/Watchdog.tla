------------------------------ MODULE Watchdog ------------------------------
(***************************************************************************)
(* The watchdog, cbwd: a process with one thread that starts the brokers   *)
(* of its configuration file, starts again those that have ended, follows  *)
(* changes of the file on SIGHUP and stops everything on SIGTERM           *)
(* (watchdog/src/main.cc, instance.cc).                                    *)
(*                                                                         *)
(* A configuration is [valid, cbd]: valid is FALSE if the file cannot be   *)
(* parsed or its log file cannot be opened, cbd gives each name it holds a *)
(* record [child, run], where child stands for the executable and the file *)
(* it is given; SIGHUP for the brokers (reload) is left out, as it changes *)
(* nothing here.  Names are numbers: std::set is walked in their order.  A *)
(* process is "up", "term" when it was told to end, "zombie" when it has   *)
(* ended and was not waited for, and then its number is free again.        *)
(***************************************************************************)
EXTENDS Naturals, FiniteSets, Functions, FiniteSetsExt

CONSTANTS
    CbdFiles,       \* what the configuration file may hold
    Pids,           \* numbers of processes, not 0
    MaxHups,        \* bound: SIGHUPs
    MaxDeaths,      \* bound: brokers that end of themselves
    MaxForkFailures \* bound: calls of fork that fail

ASSUME WatchdogAssumption ==
    /\ {MaxHups, MaxDeaths, MaxForkFailures} \subseteq Nat
    /\ Pids \subseteq Nat \ {0}
    /\ \A c \in CbdFiles : \A n \in DOMAIN c.cbd : c.cbd[n].run \in BOOLEAN

VARIABLES
    wpc, phase,     \* where the thread is; "start", "watch", "reload" or "exit"
    file,           \* the file on the disk
    sighup, shouldExit,     \* set by the signal handler
    cbdConfig,      \* the static variable config
    newConfig,      \* the argument of apply_new_configuration
    instances,      \* name -> [cfg, started, pid]
    left,           \* names the loop that runs has still to go through
    creating,       \* to_create
    stopPid,        \* _pid of the instance whose stop() runs
    procs,          \* children of the watchdog
    missed,         \* a SIGHUP came between parse() and sighup = false
    hups, deaths, forkFailures

flagVars == <<file, sighup, shouldExit, missed, hups>>
applyVars == <<cbdConfig, newConfig, creating>>
watchdogVars == <<wpc, phase, applyVars, instances, left, stopPid, procs, flagVars,
                  deaths, forkFailures>>

Failed == 0     \* the -1 that fork() returns
Names(c) == DOMAIN c.cbd
NoCbd == [valid |-> TRUE, cbd |-> [n \in {} |-> {}]]
Put(f, x, y) == [z \in DOMAIN f \union {x} |-> IF z = x THEN y ELSE f[z]]
Without(f, x) == Restrict(f, DOMAIN f \ {x})

-----------------------------------------------------------------------------
(* exec_process: a new process, or -1, which start() takes as it is.       *)
ForkChild(p) ==
    \/ /\ p \in Pids \ DOMAIN procs
       /\ procs' = Put(procs, p, "up")
       /\ UNCHANGED forkFailures
    \/ /\ p = Failed /\ forkFailures < MaxForkFailures
       /\ forkFailures' = forkFailures + 1
       /\ UNCHANGED procs

(* instance::start: o is an instance that is not started. *)
StartInstance(n, o, p) ==
    IF o.cfg.run
    THEN /\ ForkChild(p)
         /\ instances' = Put(instances, n, [o EXCEPT !.started = TRUE, !.pid = p])
    ELSE /\ p = Failed
         /\ instances' = Put(instances, n, o)
         /\ UNCHANGED <<procs, forkFailures>>

(* The handlers only set flags; main() sets them when the file is parsed.  *)
(* The file is edited before SIGHUP is sent.                               *)
Hup(c) ==
    /\ wpc \notin {"main", "ended"} /\ hups < MaxHups
    /\ hups' = hups + 1 /\ file' = c /\ sighup' = TRUE
    /\ missed' = (phase = "reload")
    /\ UNCHANGED <<wpc, phase, applyVars, instances, left, stopPid, procs, shouldExit,
                   deaths, forkFailures>>

Term ==
    /\ wpc \notin {"main", "ended"} /\ ~shouldExit
    /\ shouldExit' = TRUE
    /\ UNCHANGED <<wpc, phase, applyVars, instances, left, stopPid, procs, file, sighup,
                   missed, hups, deaths, forkFailures>>

(* A broker ends, because it was told to or of itself. *)
ChildDies(p) ==
    /\ procs[p] # "zombie"
    /\ procs[p] = "up" => deaths < MaxDeaths
    /\ deaths' = IF procs[p] = "up" THEN deaths + 1 ELSE deaths
    /\ procs' = [procs EXCEPT ![p] = "zombie"]
    /\ UNCHANGED <<wpc, phase, applyVars, instances, left, stopPid, flagVars,
                   forkFailures>>

-----------------------------------------------------------------------------
(* The loop of main(): waitpid(0, WNOHANG) takes one child that has ended; *)
(* the instances with its number are to be restarted.                      *)
Reap(p) ==
    /\ wpc = "loop" /\ ~shouldExit
    /\ procs[p] = "zombie"
    /\ procs' = Without(procs, p)
    /\ left' = {n \in DOMAIN instances : instances[n].pid = p}
    /\ wpc' = "restart"
    /\ UNCHANGED <<phase, applyVars, instances, stopPid, flagVars, deaths, forkFailures>>

NothingEnded ==
    /\ wpc = "loop" /\ ~shouldExit
    /\ \A p \in DOMAIN procs : procs[p] # "zombie"
    /\ wpc' = "hup"
    /\ UNCHANGED <<phase, applyVars, instances, left, stopPid, procs, flagVars, deaths,
                   forkFailures>>

(* Mutant: start() without _started = false before it does nothing. *)
RestartInstanceAsStarted(n, p) ==
    /\ wpc = "restart" /\ n \in left /\ p = Failed
    /\ left' = left \ {n}
    /\ UNCHANGED <<wpc, phase, applyVars, instances, stopPid, procs, flagVars, deaths,
                   forkFailures>>

(* restart(): _started is false, then start(); in any order of the map.    *)
RestartInstance(n, p) ==
    /\ wpc = "restart" /\ n \in left
    /\ left' = left \ {n}
    /\ StartInstance(n, [instances[n] EXCEPT !.started = FALSE], p)
    /\ UNCHANGED <<wpc, phase, applyVars, stopPid, flagVars, deaths>>

RestartsDone ==
    /\ wpc = "restart" /\ left = {}
    /\ wpc' = "hup"
    /\ UNCHANGED <<phase, applyVars, instances, left, stopPid, procs, flagVars, deaths,
                   forkFailures>>

(* Without a SIGHUP the thread sleeps and starts over. *)
Pause ==
    /\ wpc = "hup" /\ ~sighup
    /\ wpc' = "loop"
    /\ UNCHANGED <<phase, applyVars, instances, left, stopPid, procs, flagVars, deaths,
                   forkFailures>>

-----------------------------------------------------------------------------
SameChild(a, b) == a.child = b.child /\ a.run = b.run

(* apply_new_configuration up to its first change. *)
BeginApply(c) ==
    LET changed == {n \in Names(cbdConfig) \intersect Names(c) :
                       ~SameChild(cbdConfig.cbd[n], c.cbd[n])}
    IN  /\ newConfig' = c
        /\ left' = (Names(cbdConfig) \ Names(c)) \union changed
        /\ creating' = (Names(c) \ Names(cbdConfig)) \union changed
        /\ wpc' = "delete"
        /\ UNCHANGED cbdConfig

(* main() applies the file, or returns if it cannot. *)
Main ==
    /\ wpc = "main"
    /\ IF file.valid THEN BeginApply(file)
       ELSE wpc' = "ended" /\ UNCHANGED <<applyVars, left>>
    /\ UNCHANGED <<phase, instances, stopPid, procs, flagVars, deaths, forkFailures>>

Reload ==
    /\ wpc = "hup" /\ sighup
    /\ phase' = "reload" /\ missed' = FALSE
    /\ IF file.valid THEN BeginApply(file)
       ELSE wpc' = "clear" /\ UNCHANGED <<applyVars, left>>
    /\ UNCHANGED <<instances, stopPid, procs, file, sighup, shouldExit, hups, deaths,
                   forkFailures>>

-----------------------------------------------------------------------------
(* kill(-1) and waitpid(-1) are about every process. *)
Targets(pid) == IF pid = Failed THEN DOMAIN procs ELSE {pid} \intersect DOMAIN procs

(* instance::stop() up to SIGTERM. *)
SendTerm(pid) ==
    /\ procs' = [q \in DOMAIN procs |->
          IF q \in Targets(pid) /\ procs[q] = "up" THEN "term" ELSE procs[q]]
    /\ stopPid' = pid
    /\ wpc' = "stop"

(* Mutant: the destructor does not stop. *)
DeleteInstanceOnly(n) ==
    /\ wpc = "delete" /\ left # {} /\ n = Min(left)
    /\ left' = left \ {n}
    /\ instances' = Without(instances, n)
    /\ UNCHANGED <<wpc, phase, applyVars, stopPid, procs, flagVars, deaths, forkFailures>>

(* The next of to_delete leaves the map, its destructor stops it. *)
DeleteInstance(n) ==
    /\ wpc = "delete" /\ left # {} /\ n = Min(left)
    /\ left' = left \ {n}
    /\ instances' = Without(instances, n)
    /\ IF instances[n].started THEN SendTerm(instances[n].pid)
                               ELSE UNCHANGED <<wpc, procs, stopPid>>
    /\ UNCHANGED <<phase, applyVars, flagVars, deaths, forkFailures>>

(* The end of stop(): back to the destructor or to the end of main().      *)
Return ==
    /\ wpc' = IF phase = "exit" THEN "exit" ELSE "delete"
    /\ UNCHANGED <<phase, applyVars, instances, left, stopPid, flagVars, deaths,
                   forkFailures>>

(* waitpid(_pid, WNOHANG) once a second: it takes the child, or fails if   *)
(* there is none.                                                          *)
WaitStopped ==
    /\ wpc = "stop"
    /\ \/ Targets(stopPid) = {} /\ UNCHANGED procs
       \/ \E p \in Targets(stopPid) : procs[p] = "zombie" /\ procs' = Without(procs, p)
    /\ Return

(* After 15 seconds SIGKILL, and a waitpid that blocks. *)
KillStopped ==
    /\ wpc = "stop" /\ Targets(stopPid) # {}
    /\ \A p \in Targets(stopPid) : procs[p] # "zombie"
    /\ \E p \in Targets(stopPid) :
          procs' = [q \in DOMAIN procs \ {p} |->
                      IF q \in Targets(stopPid) THEN "zombie" ELSE procs[q]]
    /\ Return

(* merge_configuration of what stays, which has the same child. *)
UpdateInstances ==
    /\ wpc = "delete" /\ left = {}
    /\ instances' = [n \in DOMAIN instances |->
                       [instances[n] EXCEPT !.cfg = newConfig.cbd[n]]]
    /\ wpc' = "create"
    /\ UNCHANGED <<phase, applyVars, left, stopPid, procs, flagVars, deaths, forkFailures>>

(* The constructor of an instance starts it. *)
CreateInstance(n, p) ==
    /\ wpc = "create" /\ creating # {} /\ n = Min(creating)
    /\ creating' = creating \ {n}
    /\ StartInstance(n, [cfg |-> newConfig.cbd[n], started |-> FALSE, pid |-> Failed], p)
    /\ UNCHANGED <<wpc, phase, cbdConfig, newConfig, left, stopPid, flagVars, deaths>>

SaveConfig ==
    /\ wpc = "create" /\ creating = {}
    /\ cbdConfig' = newConfig
    /\ wpc' = IF phase = "reload" THEN "clear" ELSE "loop"
    /\ phase' = IF phase = "reload" THEN "reload" ELSE "watch"
    /\ UNCHANGED <<newConfig, creating, instances, left, stopPid, procs, flagVars,
                   deaths, forkFailures>>

ClearHup ==
    /\ wpc = "clear"
    /\ sighup' = FALSE
    /\ wpc' = "loop" /\ phase' = "watch"
    /\ UNCHANGED <<applyVars, instances, left, stopPid, procs, file, shouldExit, missed,
                   hups, deaths, forkFailures>>

-----------------------------------------------------------------------------
(* The loop ends on should_exit; every instance is stopPid, in any order.  *)
LeaveLoop ==
    /\ wpc = "loop" /\ shouldExit
    /\ left' = DOMAIN instances
    /\ wpc' = "exit" /\ phase' = "exit"
    /\ UNCHANGED <<applyVars, instances, stopPid, procs, flagVars, deaths, forkFailures>>

ExitStop(n) ==
    /\ wpc = "exit" /\ n \in left
    /\ left' = left \ {n}
    /\ instances' = [instances EXCEPT ![n].started = FALSE]
    /\ IF instances[n].started THEN SendTerm(instances[n].pid)
                               ELSE UNCHANGED <<wpc, procs, stopPid>>
    /\ UNCHANGED <<phase, applyVars, flagVars, deaths, forkFailures>>

EndMain ==
    /\ wpc = "exit" /\ left = {}
    /\ wpc' = "ended"
    /\ UNCHANGED <<phase, applyVars, instances, left, stopPid, procs, flagVars, deaths,
                   forkFailures>>

-----------------------------------------------------------------------------
WatchdogInit ==
    /\ wpc = "main" /\ phase = "start"
    /\ file \in CbdFiles
    /\ cbdConfig = NoCbd /\ newConfig = NoCbd /\ creating = {} /\ left = {}
    /\ instances = [n \in {} |-> {}] /\ procs = [p \in {} |-> {}] /\ stopPid = Failed
    /\ sighup = FALSE /\ shouldExit = FALSE /\ missed = FALSE
    /\ hups = 0 /\ deaths = 0 /\ forkFailures = 0

WatchdogStep ==
    \/ Main \/ NothingEnded \/ RestartsDone \/ Pause \/ Reload
    \/ \E p \in DOMAIN procs : Reap(p)
    \/ \E n \in left, p \in Pids \union {Failed} : RestartInstance(n, p)
    \/ \E n \in left : DeleteInstance(n) \/ ExitStop(n)
    \/ WaitStopped \/ KillStopped
    \/ UpdateInstances
    \/ \E n \in creating, p \in Pids \union {Failed} : CreateInstance(n, p)
    \/ SaveConfig \/ ClearHup \/ LeaveLoop \/ EndMain

WatchdogNext ==
    \/ WatchdogStep
    \/ \E c \in CbdFiles : Hup(c)
    \/ Term
    \/ \E p \in DOMAIN procs : ChildDies(p)

(* The thread runs; brokers need not end, signals need not come. *)
WatchdogSpec ==
    WatchdogInit /\ [][WatchdogNext]_watchdogVars /\ WF_watchdogVars(WatchdogStep)

-----------------------------------------------------------------------------
(* Brokers the watchdog answers for. *)
Owned == {instances[n].pid : n \in {m \in DOMAIN instances : instances[m].started}}

(* No broker runs that no instance knows of, but for the one whose stop()  *)
(* or restart() is under way, and none is left when the watchdog has       *)
(* ended.  So main() divides by instances.size() only if it is not 0.      *)
NoStray ==
    /\ DOMAIN procs \subseteq Owned \union (IF wpc = "stop" THEN Targets(stopPid) ELSE {})
    /\ wpc = "ended" => procs = <<>>

(* Between reloads the instances are those of the configuration, and a     *)
(* broker that should run has a process that runs, or that waitpid() is    *)
(* still to report; two instances never have the same.  A fork that fails  *)
(* breaks this for good, since -1 is kept as a number.                     *)
Watched ==
    wpc \in {"loop", "hup"} =>
       /\ DOMAIN instances = Names(cbdConfig)
       /\ \A n \in DOMAIN instances :
             /\ instances[n].cfg = cbdConfig.cbd[n]
             /\ instances[n].started = instances[n].cfg.run
       /\ forkFailures = 0 =>
             /\ \A n \in DOMAIN instances :
                   instances[n].started => instances[n].pid \in DOMAIN procs
             /\ \A n, m \in DOMAIN instances :
                   instances[n].started /\ instances[m].started
                   /\ instances[n].pid = instances[m].pid => n = m

WatchdogInv == NoStray /\ Watched

(* Nothing is left to be done: every broker that should run is up and the  *)
(* last file is applied, unless its SIGHUP came while another was served.  *)
Settled ==
    \/ wpc \in {"main", "ended"}
    \/ /\ ~shouldExit /\ wpc = "loop"
       /\ forkFailures = 0 =>
             \A n \in DOMAIN instances : instances[n].cfg.run =>
                instances[n].pid \in DOMAIN procs /\ procs[instances[n].pid] = "up"
       /\ file.valid => cbdConfig = file \/ missed

(* So it comes to be again and again: brokers that end are started again,  *)
(* files are applied, and SIGTERM ends the watchdog with all its brokers,  *)
(* also those that do not listen to SIGTERM.                               *)
WatchdogLive == []<>Settled

(* A change of the file followed by SIGHUP is always applied. *)
NoHupMissed == ~missed
=============================================================================
