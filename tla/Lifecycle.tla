----------------------------- MODULE Lifecycle ------------------------------
(***************************************************************************)
(* How the scripts run the servers and the clients: the drivers            *)
(* script/benchmark.sh (with clients.sh and servers.sh) and                *)
(* script/benchmarkN.sh, and start_server and stop_server of               *)
(* script/env.sh, with server.sh, killall.sh and clean.sh.                 *)
(*                                                                         *)
(* A driver looks at a server through its log and its pid.  The server     *)
(* starts in the background: it opens its log, which empties it, some time *)
(* after server.sh has returned.  A server of an earlier run may still be  *)
(* there, and another socket may hold a port for a while.  Loops that      *)
(* sleep and count end at any time, on the condition they wait for or not. *)
(***************************************************************************)
EXTENDS Integers, FiniteSets

CONSTANTS
  N,                   \* the frameworks are 1..N, in the order of the list
  Setups,              \* how a run may be started, and on what machine
  ServerStartRetries,
  MaxFailures            \* a bound on what fails

ASSUME LifecycleAssumption ==
  /\ N \in Nat \ {0} /\ ServerStartRetries \in Nat /\ MaxFailures \in Nat
  /\ Setups \subseteq
       [role : {"both", "server", "client"},   \* BENCH_ROLE
        matrix : BOOLEAN,          \* whether the driver is benchmarkN.sh
        combos : Nat \ {0},        \* client runs for a framework: 1 in clients.sh
        left : SUBSET (1..N),      \* the frameworks with a server of an earlier run
        stale : SUBSET (1..N)]     \* those with a log of an earlier run

VARIABLES
  setup,
  stage, f, combo,   \* where the driver is, in which framework and combination
  attempt, status,
  old,            \* the server of an earlier run, for each framework
  server,         \* the server this run started
  held,           \* the frameworks with a port in use by another socket
  log, pid_file,
  bound,          \* the servers of this run that have bound every port
  ran,            \* the client runs that succeeded
  failures

env == <<setup, old, server, held, log, bound, failures>>
driver == <<stage, f, combo, attempt, status, pid_file, ran>>
lifecycleVars == <<driver, env>>

Frameworks == 1..N
Running == {"spawned", "open", "listening"}
RunsServers == setup.role # "client"
RunsClients == setup.role # "server"
OwnsServers == setup.role = "both"
Matrix == setup.matrix

LifecycleInit ==
  /\ setup \in Setups
  /\ stage = IF Matrix THEN "clean" ELSE "killall"
  /\ f = 1 /\ combo = 1 /\ attempt = 0 /\ status = 0
  /\ old = [g \in Frameworks |-> IF g \in setup.left THEN "up" ELSE "gone"]
  /\ server = [g \in Frameworks |-> "none"]
  /\ held \in SUBSET Frameworks
  /\ log = [g \in Frameworks |-> IF g \in setup.stale THEN {"listening"} ELSE {}]
  /\ pid_file = {} /\ bound = {} /\ ran = {} /\ failures = 0

Failure == failures < MaxFailures /\ failures' = failures + 1

-----------------------------------------------------------------------------
(* The servers and the sockets. *)

(* server.sh's redirection, in the child. *)
ServerOpensLog(g) ==
  /\ server[g] = "spawned"
  /\ server' = [server EXCEPT ![g] = "open"]
  /\ log' = [log EXCEPT ![g] = {}]
  /\ UNCHANGED <<setup, driver, old, held, bound, failures>>

ServerListens(g) ==
  /\ server[g] = "open" /\ old[g] = "gone" /\ g \notin held
  /\ server' = [server EXCEPT ![g] = "listening"]
  /\ log' = [log EXCEPT ![g] = @ \cup {"listening"}]
  /\ bound' = bound \cup {g}
  /\ UNCHANGED <<setup, driver, old, held, failures>>

ServerPortInUse(g) ==
  /\ server[g] = "open" /\ (old[g] # "gone" \/ g \in held)
  /\ server' = [server EXCEPT ![g] = "dead"]
  /\ log' = [log EXCEPT ![g] = @ \cup {"in_use"}]
  /\ UNCHANGED <<setup, driver, old, held, bound, failures>>

ServerCrashes(g) ==
  /\ server[g] \in Running /\ Failure
  /\ server' = [server EXCEPT ![g] = "dead"]
  /\ UNCHANGED <<setup, driver, old, held, log, bound>>

(* A server that SIGKILL was sent to does nothing any more, and is gone later. *)
KilledExits(g) ==
  /\ server[g] = "killed"
  /\ server' = [server EXCEPT ![g] = "dead"]
  /\ UNCHANGED <<setup, driver, old, held, log, bound, failures>>

OldExits(g) ==
  /\ old[g] = "signalled"
  /\ old' = [old EXCEPT ![g] = "gone"]
  /\ UNCHANGED <<setup, driver, server, held, log, bound, failures>>

PortReleased(g) ==
  /\ g \in held /\ held' = held \ {g}
  /\ UNCHANGED <<setup, driver, old, server, log, bound, failures>>

World(g) ==
  \/ ServerOpensLog(g) \/ ServerListens(g) \/ ServerPortInUse(g)
  \/ KilledExits(g) \/ OldExits(g) \/ PortReleased(g)

-----------------------------------------------------------------------------
(* The driver. *)

Quit(s) == stage' = "done" /\ status' = s
Turn == IF RunsServers THEN "spawn" ELSE "client"

(* Slip of killall.sh: the role is not asked for. *)
KillAllAlways ==
  /\ stage = "killall" /\ stage' = IF Matrix THEN Turn ELSE "clean"
  /\ old' = [g \in Frameworks |-> IF old[g] = "up" THEN "signalled" ELSE old[g]]
  /\ UNCHANGED <<setup, f, combo, attempt, status, pid_file,
                 ran, server, held, log, bound, failures>>

(* killall.sh: SIGINT by name, which is not waited for; a node of clients only
   leaves the servers alone.  benchmarkN.sh does this after the build. *)
KillAll ==
  /\ stage = "killall" /\ stage' = IF Matrix THEN Turn ELSE "clean"
  /\ old' = IF OwnsServers \/ ~RunsClients
            THEN [g \in Frameworks |-> IF old[g] = "up" THEN "signalled" ELSE old[g]]
            ELSE old
  /\ UNCHANGED <<setup, f, combo, attempt, status, pid_file,
                 ran, server, held, log, bound, failures>>

(* clean.sh and build.sh: only the owner of the servers removes their logs. *)
CleanAndBuild ==
  /\ stage = "clean" /\ log' = IF OwnsServers THEN [g \in Frameworks |-> {}] ELSE log
  /\ \/ Failure /\ Quit(1)
     \/ /\ stage' = IF Matrix THEN "killall" ELSE Turn
        /\ UNCHANGED <<setup, status, failures>>
  /\ UNCHANGED <<setup, f, combo, attempt, pid_file, ran, old, server, held, bound>>

(* start_server, with server.sh. *)
Spawn ==
  /\ stage = "spawn" /\ stage' = "grep"
  /\ server' = [server EXCEPT ![f] = "spawned"]
  /\ bound' = bound \ {f}
  /\ pid_file' = pid_file \cup {f}
  /\ UNCHANGED <<setup, f, combo, attempt, status, ran, old, held, log, failures>>

(* Slip of start_server: it waits for the server's output for ever. *)
CheckPidWaits ==
  /\ stage = "kill0" /\ stage' = "grep"
  /\ UNCHANGED <<f, combo, attempt, status, pid_file, ran, env>>

(* Slip of start_server: the process stands for the port. *)
GrepLogSkipped ==
  /\ stage = "grep"
  /\ stage' = IF server[f] \in Running THEN "up" ELSE "kill0"
  /\ UNCHANGED <<f, combo, attempt, status, pid_file, ran, env>>

GrepLog ==
  /\ stage = "grep"
  /\ stage' = IF "listening" \in log[f] THEN "up" ELSE "kill0"
  /\ UNCHANGED <<f, combo, attempt, status, pid_file, ran, env>>

CheckPid ==
  /\ stage = "kill0"
  /\ \/ server[f] \in Running /\ stage' = "grep"
     \/ server[f] \in Running /\ stage' = "late"
     \/ server[f] \notin Running /\ stage' = "exited"
  /\ UNCHANGED <<f, combo, attempt, status, pid_file, ran, env>>

(* What the drivers do with a server that did not start: clients.sh and
   servers.sh go on with the next one, benchmarkN.sh gives up. *)
NotStarted ==
  IF Matrix /\ RunsClients THEN Quit(1) ELSE stage' = "next" /\ status' = 1

Exited ==
  /\ stage = "exited"
  /\ \/ /\ attempt < ServerStartRetries /\ "in_use" \in log[f]
        /\ attempt' = attempt + 1 /\ stage' = "spawn"
        /\ UNCHANGED <<status, pid_file>>
     \/ /\ attempt >= ServerStartRetries \/ "in_use" \notin log[f]
        /\ pid_file' = pid_file \ {f}
        /\ NotStarted
        /\ UNCHANGED attempt
  /\ UNCHANGED <<f, combo, ran, env>>

(* A server that is up: a server node leaves it running. *)
Up ==
  /\ stage = "up" /\ stage' = IF RunsClients THEN "client" ELSE "next"
  /\ UNCHANGED <<f, combo, attempt, status, pid_file, ran, env>>

(* Whether the client finds a server. *)
Reachable == IF OwnsServers THEN server[f] = "listening" ELSE old[f] = "up"

(* script/client.sh: it fails when it wants to, and when there is no server. *)
ClientSucceeds ==
  /\ stage = "client"
  /\ Reachable
  /\ ran' = ran \cup {<<f, combo>>}
  /\ IF combo < setup.combos THEN combo' = combo + 1 /\ UNCHANGED stage
     ELSE UNCHANGED combo /\ stage' = IF OwnsServers THEN "stop" ELSE "next"
  /\ UNCHANGED <<f, attempt, status, pid_file, env>>

(* Slip of clients.sh: only the last client's status counts. *)
ClientFailsQuietly ==
  /\ stage = "client"
  /\ \/ Failure
     \/ ~Reachable /\ UNCHANGED failures
  /\ status' = IF f = N THEN 1 ELSE 0
  /\ stage' = IF OwnsServers THEN "stop" ELSE "next"
  /\ UNCHANGED <<setup, f, combo, attempt, pid_file, ran, old, server, held, log, bound>>

ClientFails ==
  /\ stage = "client"
  /\ \/ Failure
     \/ ~Reachable /\ UNCHANGED failures
  /\ status' = 1
  /\ stage' = IF OwnsServers THEN "stop" ELSE IF Matrix THEN "done" ELSE "next"
  /\ UNCHANGED <<setup, f, combo, attempt, pid_file, ran, old, server, held, log, bound>>

(* What follows stop_server: in start_server, in benchmarkN.sh after a client
   that failed, and at the end of a framework's turn. *)
Stopped == IF Matrix /\ status # 0 THEN Quit(status) ELSE stage' = "next" /\ UNCHANGED status

(* Slip of stop_server: the exit is not waited for. *)
StopAtOnce ==
  /\ stage \in {"stop", "late"}
  /\ pid_file' = pid_file \ {f}
  /\ stage' = "next" /\ status' = IF stage = "late" THEN 1 ELSE status
  /\ UNCHANGED <<f, combo, attempt, ran, env>>

(* stop_server, by the pid file that is always there when it is called: SIGINT,
   and SIGKILL for a server that does not exit in time.  The pid file is removed
   five seconds later, whether the server has gone by then or not. *)
StopServer ==
  /\ stage \in {"stop", "late"}
  /\ \E s \in IF server[f] \in Running THEN {"dead", "killed"} ELSE {server[f]} :
       server' = [server EXCEPT ![f] = s]
  /\ pid_file' = pid_file \ {f}
  /\ IF stage = "late" THEN NotStarted ELSE Stopped
  /\ UNCHANGED <<setup, f, combo, attempt, ran, old, held, log, bound, failures>>

(* The next framework, or the end of the list: the report, if all went well. *)
NextFramework ==
  /\ stage = "next"
  /\ IF f < N
     THEN /\ f' = f + 1 /\ combo' = 1 /\ attempt' = 0
          /\ stage' = Turn
     ELSE /\ stage' = IF RunsClients /\ status = 0 THEN "report" ELSE "done"
          /\ UNCHANGED <<f, combo, attempt>>
  /\ UNCHANGED <<status, pid_file, ran, env>>

WriteReport ==
  /\ stage = "report" /\ stage' = "done"
  /\ UNCHANGED <<f, combo, attempt, status, pid_file, ran, env>>

Driver ==
  \/ KillAll \/ CleanAndBuild \/ Spawn \/ GrepLog \/ CheckPid \/ Exited \/ Up
  \/ ClientSucceeds \/ ClientFails \/ StopServer \/ NextFramework \/ WriteReport

Done == stage = "done" /\ UNCHANGED lifecycleVars

LifecycleNext == Driver \/ Done \/ \E g \in Frameworks : World(g) \/ ServerCrashes(g)

LifecycleSpec == LifecycleInit /\ [][LifecycleNext]_lifecycleVars

(* The scripts and the servers run. *)
LifecycleFairSpec ==
  /\ LifecycleSpec /\ WF_lifecycleVars(Driver)
  /\ \A g \in Frameworks : WF_lifecycleVars(World(g))

-----------------------------------------------------------------------------
(* Properties. *)

(* The state of the driver and of the servers; a server is started again at
   most ServerStartRetries times. *)
LifecycleTypeOK ==
  /\ stage \in {"killall", "clean", "spawn", "grep", "kill0", "late", "exited", "up", "client",
             "stop", "next", "report", "done"}
  /\ setup \in Setups /\ f \in Frameworks /\ combo \in 1..setup.combos
  /\ attempt \in 0..ServerStartRetries
  /\ status \in 0..1
  /\ old \in [Frameworks -> {"up", "signalled", "gone"}]
  /\ server \in [Frameworks -> {"none", "spawned", "open", "listening", "killed", "dead"}]
  /\ held \subseteq Frameworks /\ pid_file \subseteq Frameworks /\ bound \subseteq Frameworks
  /\ log \in [Frameworks -> SUBSET {"listening", "in_use"}]
  /\ ran \subseteq Frameworks \X (1..setup.combos)

(* The logs of earlier runs are out of the way, and their servers told to exit. *)
Cleaned == stage \notin {"killall", "clean"} \/ (Matrix /\ stage = "killall")
Killed == stage \notin {"killall", "clean", "done"} \/ (~Matrix /\ stage = "clean")

Kept(g) == ~OwnsServers /\ g \in setup.stale

(* A line in a log is of the server that wrote it last: a restart and a new turn
   find none to be taken for the new server's. *)
LogsTell ==
  /\ \A g \in Frameworks :
       /\ server[g] = "open" => log[g] = {}
       /\ ~("listening" \in log[g] /\ "in_use" \in log[g])
       /\ "listening" \in log[g] =>
            IF Cleaned THEN Kept(g) \/ (g \in bound /\ ~(g = f /\ stage = "spawn"))
                       ELSE g \in setup.stale
  /\ stage = "up" => f \in bound \/ Kept(f)

(* The turns: no server was started for a framework to come, and on a machine that
   owns its servers one that runs, or has a pid, is that of this turn.  The servers
   of an earlier run have been told to exit by then; those that serve a node of
   clients never are. *)
OneAtATime ==
  /\ \A g \in Frameworks :
       g > f \/ stage \in {"killall", "clean"} => server[g] = "none" /\ g \notin bound
  /\ stage \in {"spawn", "exited"} => server[f] \notin Running
  /\ ~RunsServers => \A g \in setup.left : old[g] = "up"
  /\ OwnsServers =>
       /\ \A g \in Frameworks :
            server[g] \in Running =>
              g = f /\ stage \in {"grep", "kill0", "late", "up", "client", "stop"}
       /\ pid_file \subseteq {f}
       /\ stage \in {"killall", "clean", "next", "report", "done"} => pid_file = {}
       /\ Killed => \A g \in Frameworks : old[g] # "up"

(* While nothing has failed, every client run up to here has succeeded. *)
RanSoFar ==
  /\ RunsClients /\ status = 0 =>
       /\ \A g \in Frameworks, c \in 1..setup.combos :
            g < f \/ (g = f /\ (c < combo \/ stage \in {"stop", "next", "report", "done"}))
              => <<g, c>> \in ran
       /\ stage \in {"report", "done"} => f = N
  /\ stage = "report" => RunsClients /\ status = 0

LInv == LifecycleTypeOK /\ LogsTell /\ OneAtATime /\ RanSoFar

(* "returns once it has bound every benchmark port" (env.sh, line 119): when
   start_server succeeds, the server it started has bound its ports, through
   restarts of servers whose port was taken.  The exception is a node of servers
   only, where clean.sh keeps the logs: the line of an earlier run may be read
   before the new server has emptied its log.  And the invariant holds that this and
   the next properties rest on. *)
UpIsBound ==
  /\ LInv
  /\ stage = "up" => f \in bound \/ (~OwnsServers /\ f \in setup.stale)

(* "only the server being measured is ever running" (clients.sh, line 8), of the
   servers the run started: no other one runs beside a client.  Those of an
   earlier run have been told to exit, which killall.sh does not wait for. *)
OnlyMeasured ==
  OwnsServers /\ stage = "client" =>
    \A g \in Frameworks : old[g] # "up" /\ (server[g] \in Running => g = f)

(* However a run ends, a machine that owns its servers is left with none of
   those it started, but for one that was sent SIGKILL, and with no pid of one; and
   on a node of clients only, where the servers are somebody else's, none is ever
   signalled. *)
NothingLeftRunning ==
  /\ OwnsServers /\ stage = "done" =>
       /\ \A g \in Frameworks : server[g] \notin Running
       /\ pid_file = {}
  /\ ~RunsServers => \A g \in setup.left : old[g] = "up"

(* The report is written, and a run of clients succeeds, only after every client
   run of every framework has succeeded. *)
ReportIsWhole ==
  stage = "report" \/ (stage = "done" /\ RunsClients /\ status = 0) =>
    ran = Frameworks \X (1..setup.combos)

(* A run ends. *)
Ends == <>(stage = "done")
=============================================================================
