---------------------------- MODULE ClientProofs ----------------------------
(***************************************************************************)
(* The safety of what surrounds the load generator: the scripts that run   *)
(* it and the servers (Lifecycle), the event loop of its workers (Timers)  *)
(* and the sampling behind its reports (Sampling). The three parts use     *)
(* nothing of each other.                                                  *)
(***************************************************************************)
EXTENDS Timers, Sampling, Lifecycle, TLAPS

(* Numbers. *)
LEMMA NotBelow ==
  \A k, n \in Nat : k >= k /\ k <= k /\ 0 <= k /\ ~(k < k) /\ ~(k > k) /\ ~(k >= n /\ k < n)
  OBVIOUS

LEMMA NoneYet == 0 \in Nat /\ 0 \in Int /\ 0 >= 0 /\ ~(0 > 0) /\ ~(0 > 1)
  OBVIOUS

LEMMA StillAbove == \A k, n, j \in Nat : k >= n /\ n >= j => k >= j
  OBVIOUS

LEMMA NotAboveZero == \A k \in Nat : k <= 0 => k = 0
  OBVIOUS

LEMMA TheLesser ==
  \A k, n \in Nat : LET j == IF k < n THEN k ELSE n IN j \in Nat /\ (j < n => j = k)
  OBVIOUS

LEMMA NoneOfSome ==
  \A n \in Nat \ {0} : 0 \in 0..n /\ 0 \in 0..(n - 1) /\ 1 \in 1..n
  OBVIOUS

LEMMA IntervalInNat == \A n \in Nat : \A k \in 0..n : k \in Nat
  OBVIOUS

LEMMA NextInInterval == \A n \in Nat : \A k \in 1..n : k < n => k + 1 \in 1..n
  OBVIOUS

-----------------------------------------------------------------------------
(***************************************************************************)
(* What the scripts guarantee of the servers and the clients they run, for *)
(* any list of frameworks, any way a run is started, any number of         *)
(* restarts and any number of failures: the properties of Lifecycle follow *)
(* from LInv, which every step preserves.                                  *)
(***************************************************************************)

(* What a run may be started with. *)
LEMMA SetupShape ==
  \A s \in Setups :
    /\ s.role \in {"both", "server", "client"}
    /\ s.matrix \in BOOLEAN
    /\ s.combos \in Nat \ {0}
    /\ s.left \subseteq Frameworks
    /\ s.stale \subseteq Frameworks
  BY LifecycleAssumption DEF Frameworks

(* The invariant holds when a driver starts. *)
LEMMA LInit == LifecycleInit => LInv
<1> SUFFICES ASSUME LifecycleInit PROVE LInv
  OBVIOUS
<1>0. setup \in Setups
  BY DEF LifecycleInit
<1> USE LifecycleAssumption, SetupShape, <1>0
<1>1. LifecycleTypeOK
  BY DEF LifecycleInit, LifecycleTypeOK, Frameworks, Matrix
<1>2. LogsTell
  BY DEF LifecycleInit, LogsTell, Cleaned, Frameworks, Matrix
<1>3. OneAtATime
  BY DEF LifecycleInit, OneAtATime, Frameworks, Running, Killed, Matrix, OwnsServers, RunsServers
<1>4. RanSoFar
  BY DEF LifecycleInit, RanSoFar, Frameworks, Matrix
<1> QED
  BY <1>1, <1>2, <1>3, <1>4 DEF LInv

(* A step of a server, of a server of an earlier run, or of the holder of a port. *)
LEMMA WorldStep ==
  ASSUME LInv, NEW g \in Frameworks, World(g) \/ ServerCrashes(g)
  PROVE  LInv'
<1> USE LifecycleAssumption, SetupShape DEF driver
<1>t. LifecycleTypeOK
  BY DEF LInv
<1>l. LogsTell
  BY DEF LInv
<1>o. OneAtATime
  BY DEF LInv
<1>r. RanSoFar
  BY DEF LInv
<1>1. CASE ServerOpensLog(g)
  <2>1. LifecycleTypeOK'
    BY SMTT(30), <1>1, <1>t DEF ServerOpensLog, LifecycleTypeOK, Frameworks
  <2>2. LogsTell'
    BY SMTT(30), <1>1, <1>t, <1>l DEF ServerOpensLog, LogsTell, Cleaned, Kept,
           OwnsServers, Matrix, LifecycleTypeOK
  <2>3. OneAtATime'
    BY SMTT(30), <1>1, <1>t, <1>o DEF ServerOpensLog, OneAtATime, Running, Killed,
           OwnsServers, RunsServers, Matrix, LifecycleTypeOK
  <2>4. RanSoFar'
    BY SMTT(30), <1>1, <1>t, <1>r DEF ServerOpensLog, RanSoFar, RunsClients,
           LifecycleTypeOK
  <2> QED
    BY <2>1, <2>2, <2>3, <2>4 DEF LInv
<1>2. CASE ServerListens(g)
  <2>1. LifecycleTypeOK'
    BY SMTT(30), <1>2, <1>t DEF ServerListens, LifecycleTypeOK, Frameworks
  <2>2. LogsTell'
    BY SMTT(30), <1>2, <1>t, <1>l, <1>o DEF ServerListens, LogsTell, OneAtATime, Running,
           Cleaned, Kept, OwnsServers, Matrix, LifecycleTypeOK
  <2>3. OneAtATime'
    BY SMTT(30), <1>2, <1>t, <1>o DEF ServerListens, OneAtATime, Running, Killed,
           OwnsServers, RunsServers, Matrix, LifecycleTypeOK
  <2>4. RanSoFar'
    BY SMTT(30), <1>2, <1>t, <1>r DEF ServerListens, RanSoFar, RunsClients,
           LifecycleTypeOK
  <2> QED
    BY <2>1, <2>2, <2>3, <2>4 DEF LInv
<1>3. CASE ServerPortInUse(g)
  <2>1. LifecycleTypeOK'
    BY SMTT(30), <1>3, <1>t DEF ServerPortInUse, LifecycleTypeOK, Frameworks
  <2>2. LogsTell'
    BY SMTT(30), <1>3, <1>t, <1>l DEF ServerPortInUse, LogsTell, Cleaned, Kept,
           OwnsServers, Matrix, LifecycleTypeOK
  <2>3. OneAtATime'
    BY SMTT(30), <1>3, <1>t, <1>o DEF ServerPortInUse, OneAtATime, Running, Killed,
           OwnsServers, RunsServers, Matrix, LifecycleTypeOK
  <2>4. RanSoFar'
    BY SMTT(30), <1>3, <1>t, <1>r DEF ServerPortInUse, RanSoFar, RunsClients,
           LifecycleTypeOK
  <2> QED
    BY <2>1, <2>2, <2>3, <2>4 DEF LInv
<1>4. CASE ServerCrashes(g)
  <2>1. LifecycleTypeOK'
    BY SMTT(30), <1>4, <1>t DEF ServerCrashes, Running, LifecycleTypeOK, Frameworks
  <2>2. LogsTell'
    BY SMTT(30), <1>4, <1>t, <1>l DEF ServerCrashes, LogsTell, Cleaned, Kept, OwnsServers,
           Matrix, LifecycleTypeOK
  <2>3. OneAtATime'
    BY SMTT(30), <1>4, <1>t, <1>o DEF ServerCrashes, OneAtATime, Running, Killed,
           OwnsServers, RunsServers, Matrix, LifecycleTypeOK
  <2>4. RanSoFar'
    BY SMTT(30), <1>4, <1>t, <1>r DEF ServerCrashes, RanSoFar, RunsClients,
           LifecycleTypeOK
  <2> QED
    BY <2>1, <2>2, <2>3, <2>4 DEF LInv
<1>5. CASE OldExits(g)
  <2>1. LifecycleTypeOK'
    BY SMTT(30), <1>5, <1>t DEF OldExits, LifecycleTypeOK, Frameworks
  <2>2. LogsTell'
    BY SMTT(30), <1>5, <1>t, <1>l DEF OldExits, LogsTell, Cleaned, Kept, OwnsServers,
           Matrix, LifecycleTypeOK
  <2>3. OneAtATime'
    BY SMTT(30), <1>5, <1>t, <1>o DEF OldExits, OneAtATime, Running, Killed, OwnsServers,
           RunsServers, Matrix, LifecycleTypeOK
  <2>4. RanSoFar'
    BY SMTT(30), <1>5, <1>t, <1>r DEF OldExits, RanSoFar, RunsClients, LifecycleTypeOK
  <2> QED
    BY <2>1, <2>2, <2>3, <2>4 DEF LInv
<1>6. CASE PortReleased(g)
  <2>1. LifecycleTypeOK'
    BY SMTT(30), <1>6, <1>t DEF PortReleased, LifecycleTypeOK
  <2>2. LogsTell'
    BY <1>6, <1>l DEF PortReleased, LogsTell, Cleaned, Kept, OwnsServers, Matrix
  <2>3. OneAtATime'
    BY <1>6, <1>o DEF PortReleased, OneAtATime, Killed, OwnsServers, RunsServers, Matrix
  <2>4. RanSoFar'
    BY <1>6, <1>r DEF PortReleased, RanSoFar, RunsClients
  <2> QED
    BY <2>1, <2>2, <2>3, <2>4 DEF LInv
<1>7. CASE KilledExits(g)
  <2>1. LifecycleTypeOK'
    BY SMTT(30), <1>7, <1>t DEF KilledExits, LifecycleTypeOK, Frameworks
  <2>2. LogsTell'
    BY SMTT(30), <1>7, <1>t, <1>l DEF KilledExits, LogsTell, Cleaned, Kept, OwnsServers,
           Matrix, LifecycleTypeOK
  <2>3. OneAtATime'
    BY SMTT(30), <1>7, <1>t, <1>o DEF KilledExits, OneAtATime, Running, Killed,
           OwnsServers, RunsServers, Matrix, LifecycleTypeOK
  <2>4. RanSoFar'
    BY SMTT(30), <1>7, <1>t, <1>r DEF KilledExits, RanSoFar, RunsClients, LifecycleTypeOK
  <2> QED
    BY <2>1, <2>2, <2>3, <2>4 DEF LInv
<1> QED
  BY Zenon, <1>1, <1>2, <1>3, <1>4, <1>5, <1>6, <1>7 DEF World

(* A step of the driver that clears the way for a server, or starts it and waits. *)
LEMMA StartStep ==
  ASSUME LInv, KillAll \/ CleanAndBuild \/ Spawn \/ GrepLog \/ CheckPid \/ Exited \/ Up
  PROVE  LInv'
<1> USE LifecycleAssumption, SetupShape DEF env
<1>t. LifecycleTypeOK
  BY DEF LInv
<1>l. LogsTell
  BY DEF LInv
<1>o. OneAtATime
  BY DEF LInv
<1>r. RanSoFar
  BY DEF LInv
<1>1. CASE KillAll
  <2>1. LifecycleTypeOK'
    BY SMTT(30), <1>1, <1>t DEF KillAll, Turn, LifecycleTypeOK, Frameworks
  <2>2. LogsTell'
    BY SMTT(30), <1>1, <1>t, <1>l, <1>o DEF KillAll, Turn, LogsTell, OneAtATime, Cleaned,
           Kept, RunsServers, RunsClients, OwnsServers, Matrix, LifecycleTypeOK
  <2>3. OneAtATime'
    BY SMTT(30), <1>1, <1>t, <1>o DEF KillAll, Turn, OneAtATime, Running, Killed,
           RunsServers, RunsClients, OwnsServers, Matrix, LifecycleTypeOK
  <2>4. RanSoFar'
    BY SMTT(30), <1>1, <1>t, <1>r DEF KillAll, Turn, RanSoFar, RunsServers, RunsClients,
           OwnsServers, Matrix, LifecycleTypeOK
  <2> QED
    BY <2>1, <2>2, <2>3, <2>4 DEF LInv
<1>2. CASE CleanAndBuild
  <2>1. LifecycleTypeOK'
    BY SMTT(30), <1>2, <1>t DEF CleanAndBuild, Turn, Quit, LifecycleTypeOK, Frameworks
  <2>2. LogsTell'
    BY SMTT(30), <1>2, <1>t, <1>l, <1>o DEF CleanAndBuild, Turn, Quit, LogsTell,
           OneAtATime, Cleaned, Kept, RunsServers, RunsClients, OwnsServers, Matrix,
           LifecycleTypeOK
  <2>3. OneAtATime'
    BY SMTT(30), <1>2, <1>t, <1>o DEF CleanAndBuild, Turn, Quit, OneAtATime, Running,
           Killed, RunsServers, RunsClients, OwnsServers, Matrix, LifecycleTypeOK
  <2>4. RanSoFar'
    BY SMTT(30), <1>2, <1>t, <1>r DEF CleanAndBuild, Turn, Quit, RanSoFar, RunsServers,
           RunsClients, OwnsServers, Matrix, LifecycleTypeOK
  <2> QED
    BY <2>1, <2>2, <2>3, <2>4 DEF LInv
<1>3. CASE Spawn
  <2>1. LifecycleTypeOK'
    BY SMTT(30), <1>3, <1>t DEF Spawn, LifecycleTypeOK, Frameworks
  <2>2. LogsTell'
    BY SMTT(30), <1>3, <1>t, <1>l, <1>o DEF Spawn, LogsTell, OneAtATime, Cleaned, Kept,
           RunsServers, RunsClients, OwnsServers, Matrix, LifecycleTypeOK
  <2>3. OneAtATime'
    BY SMTT(30), <1>3, <1>t, <1>o DEF Spawn, OneAtATime, Running, Killed, RunsServers,
           OwnsServers, Matrix, LifecycleTypeOK, Frameworks
  <2>4. RanSoFar'
    BY SMTT(30), <1>3, <1>t, <1>r DEF Spawn, RanSoFar, RunsServers, RunsClients,
           OwnsServers, Matrix, LifecycleTypeOK
  <2> QED
    BY <2>1, <2>2, <2>3, <2>4 DEF LInv
<1>4. CASE GrepLog
  <2>1. LifecycleTypeOK'
    BY SMTT(30), <1>4, <1>t DEF GrepLog, LifecycleTypeOK, Frameworks
  <2>2. LogsTell'
    BY SMTT(30), <1>4, <1>t, <1>l, <1>o DEF GrepLog, LogsTell, OneAtATime, Cleaned, Kept,
           RunsServers, RunsClients, OwnsServers, Matrix, LifecycleTypeOK
  <2>3. OneAtATime'
    BY SMTT(30), <1>4, <1>t, <1>o DEF GrepLog, OneAtATime, Running, Killed, RunsServers,
           RunsClients, OwnsServers, Matrix, LifecycleTypeOK
  <2>4. RanSoFar'
    BY SMTT(30), <1>4, <1>t, <1>r DEF GrepLog, RanSoFar, RunsServers, RunsClients,
           OwnsServers, Matrix, LifecycleTypeOK
  <2> QED
    BY <2>1, <2>2, <2>3, <2>4 DEF LInv
<1>5. CASE CheckPid
  <2>1. LifecycleTypeOK'
    BY SMTT(30), <1>5, <1>t DEF CheckPid, LifecycleTypeOK, Frameworks
  <2>2. LogsTell'
    BY SMTT(30), <1>5, <1>t, <1>l, <1>o DEF CheckPid, LogsTell, OneAtATime, Cleaned, Kept,
           RunsServers, RunsClients, OwnsServers, Matrix, LifecycleTypeOK
  <2>3. OneAtATime'
    BY SMTT(30), <1>5, <1>t, <1>o DEF CheckPid, OneAtATime, Running, Killed, RunsServers,
           RunsClients, OwnsServers, Matrix, LifecycleTypeOK
  <2>4. RanSoFar'
    BY Zenon, SMTT(30), <1>5, <1>t, <1>r DEF CheckPid, RanSoFar, RunsServers, RunsClients,
           OwnsServers, Matrix, LifecycleTypeOK
  <2> QED
    BY <2>1, <2>2, <2>3, <2>4 DEF LInv
<1>6. CASE Exited
  <2>1. ASSUME attempt < ServerStartRetries, "in_use" \in log[f], attempt' = attempt + 1,
               stage' = "spawn", UNCHANGED <<status, pid_file, f, combo, ran, env>>
        PROVE  LInv'
    <3>1. LifecycleTypeOK'
      BY SMTT(30), <2>1, <1>t DEF LifecycleTypeOK, Frameworks
    <3>2. LogsTell'
      BY SMTT(30), <1>6, <2>1, <1>t, <1>l DEF Exited, LogsTell, Cleaned, Kept,
             OwnsServers, Matrix, LifecycleTypeOK
    <3>3. OneAtATime'
      BY SMTT(30), <1>6, <2>1, <1>t, <1>o DEF Exited, OneAtATime, Running, Killed,
             RunsServers, OwnsServers, Matrix, LifecycleTypeOK
    <3>4. RanSoFar'
      BY SMTT(30), <1>6, <2>1, <1>t, <1>r DEF Exited, RanSoFar, RunsClients,
             LifecycleTypeOK
    <3> QED
      BY <3>1, <3>2, <3>3, <3>4 DEF LInv
  <2>2. ASSUME pid_file' = pid_file \ {f}, NotStarted,
               UNCHANGED <<attempt, f, combo, ran, env>>
        PROVE  LInv'
    <3>1. LifecycleTypeOK'
      BY SMTT(30), <2>2, <1>t DEF NotStarted, Quit, LifecycleTypeOK, Frameworks
    <3>2. LogsTell'
      BY SMTT(30), <1>6, <2>2, <1>t, <1>l DEF Exited, NotStarted, Quit, LogsTell, Cleaned,
             Kept, OwnsServers, Matrix, LifecycleTypeOK
    <3>3. OneAtATime'
      BY SMTT(30), <1>6, <2>2, <1>t, <1>o DEF Exited, NotStarted, Quit, OneAtATime,
             Running, Killed, RunsServers, OwnsServers, Matrix, LifecycleTypeOK
    <3>4. RanSoFar'
      BY SMTT(30), <1>6, <2>2, <1>t, <1>r DEF NotStarted, Quit, RanSoFar, LifecycleTypeOK
    <3> QED
      BY <3>1, <3>2, <3>3, <3>4 DEF LInv
  <2> QED
    BY <1>6, <2>1, <2>2 DEF Exited
<1>7. CASE Up
  <2>1. LifecycleTypeOK'
    BY SMTT(30), <1>7, <1>t DEF Up, LifecycleTypeOK, Frameworks
  <2>2. LogsTell'
    BY SMTT(30), <1>7, <1>t, <1>l, <1>o DEF Up, LogsTell, OneAtATime, Cleaned, Kept,
           RunsServers, RunsClients, OwnsServers, Matrix, LifecycleTypeOK
  <2>3. OneAtATime'
    BY SMTT(30), <1>7, <1>t, <1>o DEF Up, OneAtATime, Running, Killed, RunsServers,
           RunsClients, OwnsServers, Matrix, LifecycleTypeOK
  <2>4. RanSoFar'
    BY SMTT(30), <1>7, <1>t, <1>r DEF Up, RanSoFar, RunsServers, RunsClients, OwnsServers,
           Matrix, LifecycleTypeOK
  <2> QED
    BY <2>1, <2>2, <2>3, <2>4 DEF LInv
<1> QED
  BY Zenon, <1>1, <1>2, <1>3, <1>4, <1>5, <1>6, <1>7

(* A step of the driver that runs a client, stops its server or goes on. *)
LEMMA RunStep ==
  ASSUME LInv, ClientSucceeds \/ ClientFails \/ StopServer \/ NextFramework \/ WriteReport
  PROVE  LInv'
<1> USE LifecycleAssumption, SetupShape DEF env
<1>t. LifecycleTypeOK
  BY DEF LInv
<1>l. LogsTell
  BY DEF LInv
<1>o. OneAtATime
  BY DEF LInv
<1>r. RanSoFar
  BY DEF LInv
<1>1. CASE ClientSucceeds
  <2>1. LifecycleTypeOK'
    BY SMTT(30), <1>1, <1>t DEF ClientSucceeds, LifecycleTypeOK, Frameworks
  <2>2. LogsTell'
    BY SMTT(30), <1>1, <1>t, <1>l, <1>o DEF ClientSucceeds, LogsTell, OneAtATime, Cleaned,
           Kept, RunsServers, RunsClients, OwnsServers, Matrix, LifecycleTypeOK
  <2>3. OneAtATime'
    BY SMTT(30), <1>1, <1>t, <1>o DEF ClientSucceeds, OneAtATime, Running, Killed,
           RunsServers, RunsClients, OwnsServers, Matrix, LifecycleTypeOK
  <2>4. RanSoFar'
    BY SMTT(30), <1>1, <1>t, <1>r DEF ClientSucceeds, RanSoFar, RunsServers, RunsClients,
           OwnsServers, Matrix, LifecycleTypeOK
  <2> QED
    BY <2>1, <2>2, <2>3, <2>4 DEF LInv
<1>2. CASE ClientFails
  <2>1. LifecycleTypeOK'
    BY SMTT(30), <1>2, <1>t DEF ClientFails, LifecycleTypeOK, Frameworks
  <2>2. LogsTell'
    BY SMTT(30), <1>2, <1>t, <1>l, <1>o DEF ClientFails, LogsTell, OneAtATime, Cleaned,
           Kept, RunsServers, RunsClients, OwnsServers, Matrix, LifecycleTypeOK
  <2>3. OneAtATime'
    BY SMTT(30), <1>2, <1>t, <1>o DEF ClientFails, OneAtATime, Running, Killed,
           RunsServers, RunsClients, OwnsServers, Matrix, LifecycleTypeOK
  <2>4. RanSoFar'
    BY SMTT(30), <1>2, <1>t, <1>r DEF ClientFails, RanSoFar, RunsServers, RunsClients,
           OwnsServers, Matrix, LifecycleTypeOK
  <2> QED
    BY <2>1, <2>2, <2>3, <2>4 DEF LInv
<1>3. CASE StopServer
  <2>1. LifecycleTypeOK'
    <3>1. server' \in [Frameworks -> {"none", "spawned", "open", "listening", "killed", "dead"}]
      BY <1>3, <1>t DEF StopServer, LifecycleTypeOK
    <3>2. stage' \in {"next", "done"} /\ status' \in 0..1
      BY <1>3, <1>t DEF StopServer, NotStarted, Stopped, Quit, LifecycleTypeOK
    <3>3. pid_file' \subseteq Frameworks
      BY Zenon, <1>3, <1>t DEF StopServer, LifecycleTypeOK
    <3> QED
      BY Zenon, <1>3, <1>t, <3>1, <3>2, <3>3 DEF StopServer, LifecycleTypeOK
  <2>2. LogsTell'
    BY SMTT(30), <1>3, <1>t, <1>l, <1>o DEF StopServer, NotStarted, Stopped, Quit,
           LogsTell, OneAtATime, Cleaned, Kept, RunsServers, RunsClients, OwnsServers,
           Matrix, LifecycleTypeOK
  <2>3. OneAtATime'
    BY SMTT(30), <1>3, <1>t, <1>o DEF StopServer, NotStarted, Stopped, Quit, OneAtATime,
           Running, Killed, RunsServers, RunsClients, OwnsServers, Matrix, LifecycleTypeOK
  <2>4. RanSoFar'
    BY SMTT(30), <1>3, <1>t, <1>r DEF StopServer, NotStarted, Stopped, Quit, RanSoFar,
           RunsServers, RunsClients, OwnsServers, Matrix, LifecycleTypeOK
  <2> QED
    BY <2>1, <2>2, <2>3, <2>4 DEF LInv
<1>4. CASE NextFramework
  <2>1. LifecycleTypeOK'
    <3>1. setup.combos \in Nat \ {0} /\ setup' = setup
      BY Zenon, <1>4, <1>t, SetupShape DEF NextFramework, env, LifecycleTypeOK
    <3>2. f' \in Frameworks /\ combo' \in 1..setup.combos /\ attempt' \in 0..ServerStartRetries
      BY <1>4, <1>t, <3>1, LifecycleAssumption DEF NextFramework, LifecycleTypeOK, Frameworks
    <3>3. stage' \in {"spawn", "client", "report", "done"}
      BY Zenon, <1>4 DEF NextFramework, Turn
    <3> QED
      BY Zenon, <1>4, <1>t, <3>1, <3>2, <3>3 DEF NextFramework, env, LifecycleTypeOK
  <2>2. LogsTell'
    BY SMTT(30), <1>4, <1>t, <1>l, <1>o DEF NextFramework, Turn, LogsTell, OneAtATime,
           Cleaned, Kept, RunsServers, RunsClients, OwnsServers, Matrix, LifecycleTypeOK,
           Frameworks
  <2>3. OneAtATime'
    BY SMTT(30), <1>4, <1>t, <1>o DEF NextFramework, Turn, OneAtATime, Running, Killed,
           RunsServers, RunsClients, OwnsServers, Matrix, LifecycleTypeOK, Frameworks
  <2>4. RanSoFar'
    BY SMTT(30), <1>4, <1>t, <1>r DEF NextFramework, Turn, RanSoFar, RunsServers,
           RunsClients, OwnsServers, Matrix, LifecycleTypeOK, Frameworks
  <2> QED
    BY <2>1, <2>2, <2>3, <2>4 DEF LInv
<1>5. CASE WriteReport
  <2>1. LifecycleTypeOK'
    BY SMTT(30), <1>5, <1>t DEF WriteReport, LifecycleTypeOK, Frameworks
  <2>2. LogsTell'
    BY SMTT(30), <1>5, <1>t, <1>l, <1>o DEF WriteReport, LogsTell, OneAtATime, Cleaned,
           Kept, RunsServers, RunsClients, OwnsServers, Matrix, LifecycleTypeOK
  <2>3. OneAtATime'
    BY SMTT(30), <1>5, <1>t, <1>o DEF WriteReport, OneAtATime, Running, Killed,
           RunsServers, RunsClients, OwnsServers, Matrix, LifecycleTypeOK
  <2>4. RanSoFar'
    BY SMTT(30), <1>5, <1>t, <1>r DEF WriteReport, RanSoFar, RunsServers, RunsClients,
           OwnsServers, Matrix, LifecycleTypeOK
  <2> QED
    BY <2>1, <2>2, <2>3, <2>4 DEF LInv
<1> QED
  BY Zenon, <1>1, <1>2, <1>3, <1>4, <1>5

(* Every step preserves the invariant. *)
LEMMA LStep == LInv /\ [LifecycleNext]_lifecycleVars => LInv'
<1> SUFFICES ASSUME LInv, [LifecycleNext]_lifecycleVars PROVE LInv'
  OBVIOUS
<1>1. CASE Driver
  BY Zenon, <1>1, StartStep, RunStep DEF Driver
<1>2. ASSUME NEW g \in Frameworks, World(g) \/ ServerCrashes(g)
      PROVE  LInv'
  BY Zenon, <1>2, WorldStep
<1>3. CASE UNCHANGED lifecycleVars
  <2> USE <1>3 DEF LInv, lifecycleVars, driver, env
  <2>1. LifecycleTypeOK'
    BY DEF LifecycleTypeOK
  <2>2. LogsTell'
    BY DEF LogsTell, Cleaned, Kept, OwnsServers, Matrix
  <2>3. OneAtATime'
    BY DEF OneAtATime, Killed, RunsServers, OwnsServers, Matrix
  <2>4. RanSoFar'
    BY DEF RanSoFar, RunsClients
  <2> QED
    BY <2>1, <2>2, <2>3, <2>4
<1> QED
  BY Zenon, <1>1, <1>2, <1>3 DEF LifecycleNext, Done

(* The properties of a state follow from the invariant. *)
LEMMA LConsequences ==
  LInv => UpIsBound /\ OnlyMeasured /\ NothingLeftRunning /\ ReportIsWhole
<1> SUFFICES ASSUME LInv
             PROVE  UpIsBound /\ OnlyMeasured /\ NothingLeftRunning /\ ReportIsWhole
  OBVIOUS
<1> USE LifecycleAssumption, SetupShape DEF LInv, LifecycleTypeOK, Frameworks
<1>1. UpIsBound
  <2>1. stage = "up" => f \in bound \/ (~OwnsServers /\ f \in setup.stale)
    BY DEF LogsTell, Kept
  <2> QED
    BY Zenon, <2>1 DEF UpIsBound
<1>2. OnlyMeasured
  BY DEF OnlyMeasured, OneAtATime, Killed
<1>3. NothingLeftRunning
  BY DEF NothingLeftRunning, OneAtATime
<1>4. ReportIsWhole
  <2> SUFFICES ASSUME stage = "report" \/ (stage = "done" /\ RunsClients /\ status = 0)
               PROVE  ran = Frameworks \X (1..setup.combos)
    BY DEF ReportIsWhole
  <2>1. RunsClients /\ status = 0 /\ stage \in {"report", "done"} /\ f = N
    BY DEF RanSoFar
  <2>2. ran \subseteq Frameworks \X (1..setup.combos)
    OBVIOUS
  <2>3. \A g \in Frameworks : g < f \/ g = f
    BY <2>1
  <2>4. RanSoFar
    OBVIOUS
  <2> HIDE LifecycleAssumption, SetupShape DEF LInv, LifecycleTypeOK, Frameworks
  <2>5. ASSUME NEW g \in Frameworks, NEW c \in 1..setup.combos
        PROVE  <<g, c>> \in ran
    <3>1. g < f \/ (g = f /\ (c < combo \/ stage \in {"stop", "next", "report", "done"}))
      BY <2>1, <2>3
    <3> QED
      BY Zenon, <2>1, <2>4, <3>1 DEF RanSoFar
  <2> DEFINE Combos == 1..setup.combos
  <2>6. ran \subseteq Frameworks \X Combos /\ \A g \in Frameworks, c \in Combos : <<g, c>> \in ran
    BY Zenon, <2>2, <2>5
  <2> HIDE DEF Combos
  <2>7. ran = Frameworks \X Combos
    BY <2>6
  <2> QED
    BY Zenon, <2>7 DEF Combos
<1> QED
  BY Zenon, <1>1, <1>2, <1>3, <1>4

(* The invariant holds throughout every run of the scripts. *)
LEMMA LAlways == LifecycleSpec => []LInv
  BY LInit, LStep, PTL DEF LifecycleSpec

(* start_server "returns once it has bound every benchmark port" (env.sh, line 119),
   through restarts of servers whose port was taken and whatever logs an earlier
   run left on a machine that owns its servers. *)
THEOREM StartedIsBound == LifecycleSpec => []UpIsBound
  BY LAlways, LConsequences, PTL

(* "only the server being measured is ever running" (clients.sh, line 8) beside a
   client, of the servers the scripts started, however servers crash, fail to bind
   or are started again. *)
THEOREM MeasuredAlone == LifecycleSpec => []OnlyMeasured
  BY LAlways, LConsequences, PTL

(* stop_server, killall.sh and the ends of the drivers: a run leaves no server of
   its own and no pid file behind, whichever way it ends, and a node of clients
   never signals the servers of the other node. *)
THEOREM LeavesNoServer == LifecycleSpec => []NothingLeftRunning
  BY LAlways, LConsequences, PTL

(* The drivers' statuses: a report is written, and a run of clients exits with 0,
   only when every client run of every framework has succeeded. *)
THEOREM ReportsWholeRuns == LifecycleSpec => []ReportIsWhole
  BY LAlways, LConsequences, PTL

-----------------------------------------------------------------------------
(***************************************************************************)
(* No timer is lost, nothing is left unsent and no quiet connection is     *)
(* forgotten when the worker's loop polls, for any number of slots and any *)
(* of the times (Timers).  The inductive invariant is TInv.  What a step   *)
(* makes of one connection is said once, by Replaced; the lemmas before it *)
(* are about the heap, the list and schedule.                              *)
(***************************************************************************)

-----------------------------------------------------------------------------
(* The heap and the list. *)

(* An entry is pushed. *)
LEMMA HeapPush ==
  ASSUME NEW heap, IsAHeap(heap), NEW e
  PROVE  IsAHeap(Pushed(heap, e)) /\ Entries(Pushed(heap, e)) = Entries(heap) \cup {e}
BY DEF IsAHeap, Entries, Pushed

(* An entry is popped: every other one stays. *)
LEMMA HeapPop ==
  ASSUME NEW heap, IsAHeap(heap), NEW e
  PROVE  /\ IsAHeap(Popped(heap, e))
         /\ Entries(Popped(heap, e)) \subseteq Entries(heap)
         /\ Entries(heap) \ {e} \subseteq Entries(Popped(heap, e))
BY DEF IsAHeap, Entries, Popped

(* The list is appended to, and taken from. *)
LEMMA OnAppend ==
  ASSUME NEW S, NEW list \in Seq(S), NEW i \in S
  PROVE  /\ Append(list, i) \in Seq(S)
         /\ On(i, Append(list, i))
         /\ \A j : On(j, list) => On(j, Append(list, i))
<1>1. Append(list, i) \in Seq(S) /\ Len(Append(list, i)) = Len(list) + 1
      /\ \A n \in 1..Len(list) : Append(list, i)[n] = list[n]
  OBVIOUS
<1>2. Append(list, i)[Len(list) + 1] = i
  OBVIOUS
<1> HIDE DEF On
<1>3. DOMAIN list = 1..Len(list) /\ DOMAIN Append(list, i) = 1..(Len(list) + 1)
      /\ Len(list) \in Nat
  OBVIOUS
<1> QED
  BY <1>1, <1>2, <1>3 DEF On

(* What a list keeps when its last element is popped, as flush pops dirty. *)
LEMMA OnFront ==
  ASSUME NEW S, NEW list \in Seq(S), list # <<>>
  PROVE  LET rest == SubSeq(list, 1, Len(list) - 1) IN
         /\ list[Len(list)] \in S
         /\ rest \in Seq(S)
         /\ \A j : On(j, list) /\ j # list[Len(list)] => On(j, rest)
<1> DEFINE rest == SubSeq(list, 1, Len(list) - 1)
<1>1. Len(list) \in Nat /\ Len(list) > 0 /\ DOMAIN list = 1..Len(list)
  OBVIOUS
<1>2. list[Len(list)] \in S
  BY <1>1
<1>3. rest \in Seq(S) /\ Len(rest) = Len(list) - 1
      /\ \A n \in 1..(Len(list) - 1) : rest[n] = list[n]
  BY <1>1
<1>4. DOMAIN rest = 1..(Len(list) - 1)
  BY <1>3
<1> HIDE DEF rest
<1>5. \A j : On(j, list) /\ j # list[Len(list)] => On(j, rest)
  BY <1>1, <1>3, <1>4 DEF On
<1> QED
  BY <1>2, <1>3, <1>5 DEF rest

(* What is on either list is on the two lists joined. *)
LEMMA OnConcat ==
  ASSUME NEW S, NEW list \in Seq(S), NEW more \in Seq(S)
  PROVE  /\ list \o more \in Seq(S)
         /\ \A j : On(j, list) \/ On(j, more) => On(j, list \o more)
<1> DEFINE all == list \o more
<1>1. all \in Seq(S) /\ Len(all) = Len(list) + Len(more)
      /\ \A n \in 1..(Len(list) + Len(more)) :
           all[n] = IF n <= Len(list) THEN list[n] ELSE more[n - Len(list)]
  OBVIOUS
<1>2. Len(list) \in Nat /\ Len(more) \in Nat /\ DOMAIN list = 1..Len(list)
      /\ DOMAIN more = 1..Len(more) /\ DOMAIN all = 1..(Len(list) + Len(more))
  BY <1>1
<1> HIDE DEF all
<1>3. ASSUME NEW j, On(j, list) PROVE On(j, all)
  BY <1>1, <1>2, <1>3 DEF On
<1>4. ASSUME NEW j, On(j, more) PROVE On(j, all)
  <2>1. PICK n \in 1..Len(more) : more[n] = j
    BY <1>2, <1>4 DEF On
  <2>2. PICK p \in Nat : p = Len(list) + n
    BY <1>2
  <2>3. p \in 1..(Len(list) + Len(more)) /\ ~(p <= Len(list)) /\ p - Len(list) = n
    BY <1>2, <2>2
  <2>4. all[p] = j
    BY <1>1, <2>1, <2>3
  <2> QED
    BY Zenon, <1>2, <2>3, <2>4 DEF On
<1> QED
  BY <1>1, <1>3, <1>4 DEF all

-----------------------------------------------------------------------------
(* Connections. *)

LEMMA ConnFields ==
  \A c \in Conn :
    /\ c.state \in {"vacant", "connecting", "ready", "broken"}
    /\ c.timeout \in Instants /\ c.attempt_deadline \in Instants
    /\ c.deadline \in Instants /\ c.scheduled \in Instants
    /\ c.dirty \in BOOLEAN /\ c.last_active \in Times
    /\ c.unsent \in BOOLEAN /\ c.left \in BOOLEAN /\ c.open \in BOOLEAN
  BY Zenon DEF Conn

(* The instants, and what quiche may answer for its timer. *)
LEMMA InstantsIn ==
  /\ Instants \subseteq Nat /\ None \in Instants /\ 1 \in Times /\ Times \subseteq Instants
  /\ \A t \in Instants : t # None => t \in Times
  BY TimersAssumption DEF Instants, Times, None, Latest

(* The instants a handler may arm a timer for lie in the model's times. *)
LEMMA TimeoutsIn ==
  ASSUME now \in 1..MaxTime
  PROVE  /\ Timeouts \subseteq Instants
         /\ now \in Times /\ now + DialTimeout \in Instants /\ now + Second \in Times
  BY TimersAssumption DEF Timeouts, Instants, Times, Latest, None

(* schedule: only the deadline and the entry the connection waits for change;
   if it has a deadline, that entry comes no later. *)
Scheduled(c, v) ==
  /\ v \in Conn /\ v.state = c.state /\ v.timeout = c.timeout
  /\ v.attempt_deadline = c.attempt_deadline /\ v.dirty = c.dirty
  /\ v.last_active = c.last_active /\ v.unsent = c.unsent /\ v.open = c.open
  /\ v.deadline = Deadline(c)
  /\ v.scheduled = IF MustPush(c) THEN Deadline(c) ELSE c.scheduled

(* Conn::deadline is an instant or None. *)
LEMMA DeadlineIn ==
  ASSUME NEW c \in Conn
  PROVE  Deadline(c) \in Instants
  BY Zenon, ConnFields DEF Deadline, Earlier

(* schedule records the deadline it pushed, and pushes only what is not yet pushed. *)
LEMMA ScheduleIn ==
  ASSUME NEW c \in Conn
  PROVE  Scheduled(c, Schedule(c))
<1> DEFINE s == IF MustPush(c) THEN Deadline(c) ELSE c.scheduled
           v == [c EXCEPT !.deadline = Deadline(c), !.scheduled = s]
<1>1. Schedule(c) = v
  BY Zenon DEF Schedule
<1>2. s \in Instants /\ Deadline(c) \in Instants
  BY Zenon, DeadlineIn, ConnFields
<1> HIDE DEF s
<1>3. v \in Conn /\ v.deadline = Deadline(c) /\ v.scheduled = s
      /\ v.state = c.state /\ v.timeout = c.timeout /\ v.attempt_deadline = c.attempt_deadline
      /\ v.dirty = c.dirty /\ v.last_active = c.last_active /\ v.unsent = c.unsent
      /\ v.open = c.open
  BY Zenon, <1>2 DEF Conn
<1> HIDE DEF v
<1> QED
  BY Zenon, <1>1, <1>3 DEF Scheduled, s

(* After schedule a connection that is marked, or has nothing to send, is settled. *)
LEMMA ScheduleSettles ==
  ASSUME NEW c \in Conn, NEW v, Scheduled(c, v), c.state # "vacant",
         Live(c) /\ ~c.dirty => ~c.unsent
  PROVE  Settled(v)
<1>1. Deadline(v) = Deadline(c)
  BY Zenon DEF Scheduled, Deadline
<1>2. Deadline(c) \in Nat /\ c.scheduled \in Nat
  BY Zenon, ConnFields, DeadlineIn, InstantsIn
<1>3. Deadline(c) # None => v.scheduled # None /\ v.scheduled <= Deadline(c)
  BY <1>2 DEF Scheduled, MustPush
<1>4. v.deadline = Deadline(c) /\ v.state = c.state /\ v.unsent = c.unsent /\ v.dirty = c.dirty
  BY Zenon DEF Scheduled
<1> QED
  BY Zenon, <1>1, <1>3, <1>4 DEF Settled, Live

(* The push of schedule keeps the heap's other entries. *)
LEMMA PushIn ==
  ASSUME NEW c \in Conn, NEW i \in Slots, NEW heap, IsAHeap(heap),
         Entries(heap) \subseteq Times \X Slots
  PROVE  /\ IsAHeap(Push(c, i, heap)) /\ Entries(Push(c, i, heap)) \subseteq Times \X Slots
         /\ Entries(heap) \subseteq Entries(Push(c, i, heap))
         /\ MustPush(c) => <<Deadline(c), i>> \in Entries(Push(c, i, heap))
<1>1. CASE MustPush(c)
  <2> DEFINE e == <<Deadline(c), i>>
  <2>1. Push(c, i, heap) = Pushed(heap, e)
    BY Zenon, <1>1 DEF Push
  <2>2. e \in Times \X Slots
    <3>1. Deadline(c) \in Times
      BY Zenon, <1>1, DeadlineIn, InstantsIn DEF MustPush
    <3> QED
      BY <3>1
  <2> HIDE DEF e
  <2>3. IsAHeap(Pushed(heap, e)) /\ Entries(Pushed(heap, e)) = Entries(heap) \cup {e}
    BY Zenon, HeapPush
  <2> QED
    BY Zenon, <2>1, <2>2, <2>3 DEF e
<1>2. CASE ~MustPush(c)
  BY Zenon, <1>2 DEF Push
<1> QED
  BY Zenon, <1>1, <1>2

(* An empty slot has no timer and nothing to flush. *)
LEMMA VacantIn ==
  /\ Vacant \in Conn /\ Settled(Vacant) /\ ~Live(Vacant) /\ Vacant.scheduled = None
  /\ Vacant.state = "vacant" /\ ~Vacant.dirty
<1>1. Vacant \in Conn
  BY InstantsIn DEF Vacant, Conn
<1> QED
  BY <1>1 DEF Vacant, Settled, Live

(* Where a connection ended: it has no use for a timer or for what was to be
   sent, and the entry it waited for is its own still, or forgotten. *)
Over(d, v) ==
  /\ d \in Conn /\ Settled(d) /\ ~Quiet(d) /\ (d.dirty => v.dirty)
  /\ d.scheduled # None => d.scheduled = v.scheduled

(* A connection that ended is an empty slot or broken, its marks unchanged. *)
LEMMA EndedIn ==
  ASSUME NEW v \in Conn, v.state # "vacant", NEW d \in Ended(v)
  PROVE  \/ d = Vacant
         \/ /\ d \in Conn /\ d.state = "broken"
            /\ d.dirty = v.dirty /\ d.scheduled = v.scheduled
<1>1. CASE v.state = "connecting"
  <2> DEFINE b == [v EXCEPT !.state = "broken", !.attempt_deadline = None, !.open = FALSE]
  <2>1. d \in {Vacant, b}
    BY Zenon, <1>1 DEF Ended
  <2>2. b \in Conn /\ b.state = "broken" /\ b.dirty = v.dirty /\ b.scheduled = v.scheduled
    BY Zenon, InstantsIn DEF Conn
  <2> HIDE DEF b
  <2> QED
    BY Zenon, <2>1, <2>2
<1>2. CASE v.state # "connecting"
  <2> DEFINE q == IF v.state = "ready" THEN "broken" ELSE v.state
             b == [v EXCEPT !.state = q, !.open = FALSE]
  <2>1. d = b
    BY Zenon, <1>2 DEF Ended
  <2>2. q = "broken"
    BY <1>2, ConnFields
  <2> HIDE DEF q
  <2>3. b \in Conn /\ b.state = q /\ b.dirty = v.dirty /\ b.scheduled = v.scheduled
    BY Zenon, <2>2 DEF Conn
  <2> QED
    BY Zenon, <2>1, <2>2, <2>3
<1> QED
  BY Zenon, <1>1, <1>2

(* ... with the mark it had, or the one process gave it. *)
LEMMA EndedOver ==
  ASSUME NEW v \in Conn, v.state # "vacant", NEW d \in Ended(v)
  PROVE  Over(d, v)
<1>1. CASE d = Vacant
  BY <1>1, VacantIn DEF Over, Quiet, Live
<1>2. CASE d \in Conn /\ d.state = "broken" /\ d.dirty = v.dirty /\ d.scheduled = v.scheduled
  BY <1>2 DEF Over, Quiet, Live, Settled
<1> QED
  BY Zenon, <1>1, <1>2, EndedIn

EndsLike(e, v) ==
  e \in Conn /\ Settled(e) /\ ~Quiet(e) /\ (e.scheduled # None => e.scheduled = v.scheduled)

(* What a handler leaves of a connection that ended owes no timer. *)
LEMMA AfterOver ==
  ASSUME NEW v \in Conn, v.state # "vacant", NEW d \in Ended(v), NEW c \in Conn, c.dirty
  PROVE  EndsLike(After(d, c), v)
<1> DEFINE e == After(d, c)
<1>1. CASE d = Vacant
  <2>1. e = Vacant
    BY Zenon, <1>1, VacantIn DEF After
  <2> QED
    BY <2>1, VacantIn DEF EndsLike, Quiet, Live
<1>2. CASE d \in Conn /\ d.state = "broken" /\ d.scheduled = v.scheduled
  <2>1. e = [d EXCEPT !.dirty = c.dirty]
    BY <1>2 DEF After
  <2> HIDE DEF e
  <2>2. e \in Conn /\ e.state = "broken" /\ e.scheduled = v.scheduled
    BY Zenon, <1>2, <2>1, ConnFields DEF Conn
  <2> QED
    BY <2>2 DEF EndsLike, Quiet, Live, Settled, e
<1> QED
  BY Zenon, <1>1, <1>2, EndedIn

(* A connection marked keeps what else it has. *)
LEMMA MarkedIn ==
  ASSUME NEW c \in Conn
  PROVE  /\ Marked(c) \in Conn /\ Marked(c).dirty /\ Marked(c).state = c.state
         /\ Marked(c).open = c.open /\ Marked(c).scheduled = c.scheduled
         /\ Marked(c).last_active = c.last_active
  BY Zenon DEF Marked, Conn

(* A live connection that is not at its end stays as it is when it is marked. *)
Stays(e, d) ==
  /\ e \in Conn /\ Settled(e) /\ e.dirty /\ e.scheduled = d.scheduled
  /\ e.state = d.state /\ e.open = d.open /\ e.last_active = d.last_active

(* What a handler leaves of a connection that stays is marked dirty or as it was. *)
LEMMA AfterLive ==
  ASSUME NEW d \in Conn, d.state # "vacant", NEW c \in Conn, c.dirty
  PROVE  Stays(After(d, c), d)
<1> DEFINE e == After(d, c)
<1>1. e = [d EXCEPT !.dirty = c.dirty]
  BY Zenon DEF After
<1> HIDE DEF e
<1>2. e \in Conn /\ e.dirty = c.dirty /\ e.scheduled = d.scheduled
      /\ e.state = d.state /\ e.open = d.open /\ e.last_active = d.last_active
  BY Zenon, <1>1, ConnFields DEF Conn
<1> QED
  BY Zenon, <1>2 DEF Stays, Settled, e

-----------------------------------------------------------------------------
(* A step that leaves d in slot i: the heap and the list keep what they hold for
   the others, and have what d needs. *)
Replaces(i, d) ==
  /\ conns' = [conns EXCEPT ![i] = d] /\ d \in Conn /\ Settled(d)
  /\ IsAHeap(timers') /\ Entries(timers') \subseteq Times \X Slots
  /\ \A e \in Entries(timers) : e[2] # i => e \in Entries(timers')
  /\ d.scheduled # None => <<d.scheduled, i>> \in Entries(timers')
  /\ dirty' \in Seq(Slots)
  /\ \A j \in Slots : j # i /\ On(j, dirty) => On(j, dirty')
  /\ d.dirty => On(i, dirty')
  /\ readable' \subseteq Slots /\ faults' \in 0..MaxFaults /\ (faults' = 0 => faults = 0)
  /\ UNCHANGED <<now, next_keepalive, at>> /\ at # "poll"
  /\ faults' = 0 /\ Quiet(d) => next_keepalive - d.last_active < KeepAlive + Second

(* The invariant after a handler replaced the connection of slot i alone. *)
LEMMA Replaced ==
  ASSUME TInv, NEW i \in Slots, NEW d, Replaces(i, d)
  PROVE  TInv'
<1> USE DEF TInv
<1>1. conns \in [Slots -> Conn] /\ conns' \in [Slots -> Conn]
  BY Zenon DEF TypeOK, Replaces
<1>2. conns'[i] = d /\ \A j \in Slots : j # i => conns'[j] = conns[j]
  BY Zenon, <1>1 DEF Replaces
<1>3. TypeOK'
  BY Zenon, <1>1 DEF TypeOK, Replaces
<1>4. Listed'
  BY Zenon, <1>2 DEF Listed, Replaces
<1>5. Armed'
  <2> SUFFICES ASSUME NEW j \in Slots
               PROVE  /\ Settled(conns'[j])
                      /\ conns'[j].scheduled # None => <<conns'[j].scheduled, j>> \in Entries(timers')
    BY Zenon DEF Armed, Settled, Live, Deadline
  <2>1. CASE j = i
    BY Zenon, <1>2, <2>1 DEF Replaces
  <2>2. CASE j # i
    <3>1. <<conns[j].scheduled, j>>[2] # i
      BY <2>2
    <3> QED
      BY Zenon, <1>2, <2>2, <3>1 DEF Armed, Replaces
  <2> QED
    BY Zenon, <2>1, <2>2
<1>6. Warm'
  <2>1. next_keepalive' <= now' + Second
    BY DEF Warm, Replaces
  <2>2. ASSUME faults' = 0, NEW j \in Slots, Quiet(conns[j])'
        PROVE  \/ next_keepalive - conns'[j].last_active < KeepAlive + Second
               \/ at = "flush" /\ conns'[j].dirty /\ conns'[j].unsent
    BY Zenon, <1>2, <2>2 DEF Warm, Replaces, Quiet
  <2> QED
    BY Zenon, <2>1, <2>2 DEF Warm, Replaces, Quiet, KeepAlive
<1> QED
  BY Zenon, <1>3, <1>4, <1>5, <1>6

(* The keep-alive interval and the second are positive. *)
LEMMA KeepAliveIn == KeepAlive \in Nat \ {0} /\ Second \in Nat \ {0}
  BY TimersAssumption DEF KeepAlive

(* A connection active just now is not due for a ping. *)
LEMMA JustActive ==
  ASSUME TInv
  PROVE  next_keepalive - now < KeepAlive + Second
<1>1. next_keepalive \in Nat /\ now \in Nat /\ next_keepalive <= now + Second
  BY TimersAssumption DEF TInv, TypeOK, Warm, Times, Latest
<1> QED
  BY <1>1, KeepAliveIn

-----------------------------------------------------------------------------
(* The actions. *)

LEMMA TInit ==
  ASSUME Init
  PROVE  TInv
<1>1. conns \in [Slots -> Conn]
  BY Zenon, VacantIn DEF Init
<1>2. TypeOK
  <2>1. IsAHeap(timers) /\ Entries(timers) = {}
    BY DEF Init, EmptyHeap, IsAHeap, Entries
  <2>2. now \in 1..MaxTime /\ next_keepalive \in Times /\ faults \in 0..MaxFaults
    <3>1. /\ MaxTime \in Nat \ {0} /\ Span \in Nat /\ DialTimeout \in Nat
          /\ Second \in Nat \ {0} /\ MaxFaults \in Nat
      BY Zenon, TimersAssumption
    <3>2. now = 1 /\ next_keepalive = 1 + Second /\ faults = 0
      BY Zenon DEF Init
    <3> QED  BY <3>1, <3>2 DEF Times, Latest
  <2> QED
    BY <1>1, <2>1, <2>2 DEF Init, TypeOK
<1>3. Listed
  BY VacantIn DEF Init, Listed
<1>4. Armed
  BY Zenon, VacantIn DEF Init, Armed
<1>5. Warm
  BY VacantIn, TimersAssumption DEF Init, Warm, Quiet, Live
<1> QED
  BY Zenon, <1>2, <1>3, <1>4, <1>5 DEF TInv

(* A deadline within s of now is within s of the next instant. *)
LEMMA StillLater ==
  \A k, n, m \in Nat, s \in Nat \ {0} : m \in {n, n + 1} /\ k <= n + s => k <= m + s
  OBVIOUS

(* A step that only moves the clock, the sockets or the round on. *)
LEMMA MovesOn ==
  ASSUME TInv, UNCHANGED <<conns, timers, dirty, next_keepalive, faults>>,
         now' \in {now, now + 1}, now' \in 1..MaxTime, readable' \subseteq Slots,
         at' \in {"poll", "read", "timers", "drive", "keepalive"},
         at' = "poll" => dirty = <<>>, at = "flush" => dirty = <<>>
  PROVE  TInv'
<1> USE DEF TInv
<1>1. TypeOK'
  BY Zenon DEF TypeOK
<1>2. Listed'
  BY Zenon DEF Listed
<1>3. Armed'
  BY Zenon DEF Armed, Settled, Live, Deadline
<1>4. Warm'
  <2>1. next_keepalive' <= now' + Second
    <3>1. next_keepalive \in Nat /\ now \in Nat /\ now' \in Nat
      BY TimersAssumption DEF TypeOK, Times, Latest
    <3>2. next_keepalive <= now + Second /\ next_keepalive' = next_keepalive
      BY Zenon DEF Warm
    <3> QED
      BY Zenon, <3>1, <3>2, KeepAliveIn, StillLater
  <2>2. \A j \in Slots : dirty = <<>> => ~conns[j].dirty
    BY DEF Listed, On
  <2>3. ASSUME faults = 0, NEW j \in Slots, Quiet(conns[j])
        PROVE  next_keepalive - conns[j].last_active < KeepAlive + Second
    BY Zenon, <2>2, <2>3 DEF Warm
  <2> QED
    BY Zenon, <2>1, <2>3 DEF Warm, Quiet, KeepAlive
<1> QED
  BY Zenon, <1>1, <1>2, <1>3, <1>4

(* The steps of the event loop that touch no connection keep the invariant. *)
LEMMA RoundStep ==
  ASSUME TInv, \/ Tick \/ Wake \/ WakeEarly \/ ReadDone \/ TimersDone \/ DriveDone
               \/ FlushDone \/ EndOfTime \/ \E i \in Slots : Receive(i)
  PROVE  TInv'
<1>1. now \in 1..MaxTime /\ readable \subseteq Slots
      /\ at \in {"poll", "read", "timers", "drive", "keepalive", "flush"}
      /\ (at = "poll" => dirty = <<>>)
  BY Zenon DEF TInv, TypeOK, Listed
<1>2. CASE Tick
  <2>1. now' = now + 1 /\ now < MaxTime
    BY Zenon, <1>2 DEF Tick
  <2>2. MaxTime \in Nat
    BY Zenon, TimersAssumption
  <2>3. now' \in 1..MaxTime
    BY Zenon, <1>1, <2>1, <2>2, NextInInterval
  <2> QED
    BY <1>1, <1>2, <2>3, MovesOn DEF Tick
<1>3. CASE Wake \/ WakeEarly \/ ReadDone \/ TimersDone \/ DriveDone
  BY <1>1, <1>3, MovesOn DEF Wake, WakeEarly, ReadDone, TimersDone, DriveDone
<1>4. CASE FlushDone
  BY <1>1, <1>4, MovesOn DEF FlushDone
<1>5. CASE EndOfTime
  BY <1>1, <1>5, MovesOn DEF EndOfTime, vars
<1>6. CASE \E i \in Slots : Receive(i)
  BY <1>1, <1>6, MovesOn DEF Receive
<1> QED
  BY Zenon, <1>2, <1>3, <1>4, <1>5, <1>6

(* mark_dirty: whoever is on the list stays there, and who is marked is there. *)
LEMMA MarkedListIn ==
  ASSUME NEW c, NEW i \in Slots, NEW list \in Seq(Slots), c.dirty => On(i, list)
  PROVE  /\ MarkedList(c, i, list) \in Seq(Slots) /\ On(i, MarkedList(c, i, list))
         /\ \A j : On(j, list) => On(j, MarkedList(c, i, list))
  BY Zenon, OnAppend DEF MarkedList

(* on_readable: c is read as e, with datagrams or without, and processed as d. *)
ReadAs(c, e, d) ==
  /\ e \in Conn /\ e.state = c.state /\ e.scheduled = c.scheduled
  /\ \/ e.last_active = now /\ d \in Processed(e) \cup Ended(e)
     \/ e = c /\ d \in {c} \cup Ended(c)

LEMMA ReadStep ==
  ASSUME TInv, NEW i \in Slots, OnReadable(i)
  PROVE  TInv'
<1> DEFINE c == conns[i]
<1>1. /\ c \in Conn /\ Settled(c) /\ (c.dirty => On(i, dirty)) /\ dirty \in Seq(Slots)
      /\ now \in 1..MaxTime /\ IsAHeap(timers) /\ Entries(timers) \subseteq Times \X Slots
      /\ (c.scheduled # None => <<c.scheduled, i>> \in Entries(timers))
  BY Zenon DEF TInv, TypeOK, Listed, Armed
<1>2. /\ at = "read" /\ UNCHANGED <<now, timers, next_keepalive, at, faults>>
      /\ readable' \subseteq Slots /\ faults \in 0..MaxFaults
  BY Zenon DEF OnReadable, TInv, TypeOK
<1>3. CASE c.state = "vacant"
  <2>1. UNCHANGED <<conns, dirty>>
    BY Zenon, <1>3 DEF OnReadable
  <2> QED
    BY <1>1, <1>2, <2>1, MovesOn
<1>4. CASE c.state # "vacant"
  <2> DEFINE read(t, u) == [c EXCEPT !.timeout = t, !.unsent = u, !.last_active = now]
  <2>1. /\ dirty' = MarkedList(c, i, dirty)
        /\ \/ \E t \in Timeouts, u \in BOOLEAN : \E d \in Processed(read(t, u)) \cup Ended(read(t, u)) :
                conns' = [conns EXCEPT ![i] = After(d, Marked(c))]
           \/ \E d \in {c} \cup Ended(c) : conns' = [conns EXCEPT ![i] = After(d, Marked(c))]
    BY Zenon, <1>4 DEF OnReadable
  <2>2. ASSUME NEW t \in Timeouts, NEW u \in BOOLEAN
        PROVE  /\ read(t, u) \in Conn /\ read(t, u).state = c.state
               /\ read(t, u).scheduled = c.scheduled /\ read(t, u).last_active = now
    <3>1. t \in Instants /\ now \in Times
      BY Zenon, <1>1, TimeoutsIn
    <3> HIDE DEF c
    <3> QED
      BY Zenon, <1>1, <3>1 DEF Conn
  <2> HIDE DEF read
  <2>3. PICK e, d : ReadAs(c, e, d) /\ conns' = [conns EXCEPT ![i] = After(d, Marked(c))]
    <3>1. CASE \E t \in Timeouts, u \in BOOLEAN : \E d \in Processed(read(t, u)) \cup Ended(read(t, u)) :
                 conns' = [conns EXCEPT ![i] = After(d, Marked(c))]
      BY Zenon, <2>2, <3>1 DEF ReadAs
    <3>2. CASE \E d \in {c} \cup Ended(c) : conns' = [conns EXCEPT ![i] = After(d, Marked(c))]
      BY Zenon, <1>1, <3>2 DEF ReadAs
    <3> QED
      BY Zenon, <2>1, <3>1, <3>2
  <2>4. dirty' = MarkedList(c, i, dirty)
    BY Zenon, <2>1
  <2>8. /\ e \in Conn /\ e.state = c.state /\ e.scheduled = c.scheduled
        /\ \/ d = e /\ (e.last_active = now \/ e = c)
           \/ d \in Ended(e)
           \/ d \in Processed(e) /\ e.last_active = now
    BY Zenon, <2>3 DEF ReadAs
  <2> DEFINE r == After(d, Marked(c))
  <2>r. r = After(d, Marked(c))
    OBVIOUS
  <2> HIDE DEF c, r
  <2>5. /\ r \in Conn /\ Settled(r) /\ (r.scheduled # None => r.scheduled = c.scheduled)
        /\ (Quiet(r) => r.last_active = now \/ (Quiet(c) /\ r.last_active = c.last_active))
    <3>1. Marked(c) \in Conn /\ Marked(c).dirty
      BY Zenon, <1>1, MarkedIn
    <3>2. CASE d \in Ended(e)
      <4>1. EndsLike(r, e)
        BY Zenon, <1>4, <2>8, <2>r, <3>1, <3>2, AfterOver
      <4> QED
        BY Zenon, <2>8, <4>1 DEF EndsLike
    <3>3. CASE d = e /\ (e.last_active = now \/ e = c)
      <4>1. Stays(r, d)
        BY Zenon, <1>4, <2>8, <2>r, <3>1, <3>3, AfterLive
      <4>2. /\ r.state = d.state /\ r.open = d.open /\ r.last_active = d.last_active
            /\ r.scheduled = d.scheduled /\ r \in Conn /\ Settled(r)
        BY Zenon, <4>1 DEF Stays
      <4>3. Quiet(r) <=> Quiet(d)
        BY <4>2 DEF Quiet
      <4> QED
        BY Zenon, <2>8, <3>3, <4>2, <4>3
    <3>4. CASE d \in Processed(e) /\ e.last_active = now
      <4>1. d \in Conn /\ d.state # "vacant" /\ d.scheduled = c.scheduled /\ d.last_active = now
        <5>1. CASE d = e
          BY Zenon, <1>4, <2>8, <3>4, <5>1
        <5>2. CASE d = [e EXCEPT !.state = "ready", !.attempt_deadline = None, !.open = FALSE]
          <6>1. d \in Conn /\ d.state = "ready" /\ d.scheduled = e.scheduled
                /\ d.last_active = e.last_active
            BY Zenon, <2>8, <5>2, InstantsIn DEF Conn
          <6> QED
            BY <2>8, <3>4, <6>1
        <5> QED
          BY Zenon, <3>4, <5>1, <5>2 DEF Processed
      <4>2. Stays(r, d)
        BY Zenon, <2>r, <3>1, <4>1, AfterLive
      <4> QED
        BY Zenon, <4>1, <4>2 DEF Stays
    <3> QED
      BY Zenon, <2>8, <3>2, <3>3, <3>4
  <2>6. dirty' \in Seq(Slots) /\ On(i, dirty') /\ \A j : On(j, dirty) => On(j, dirty')
    BY Zenon, <1>1, <2>4, MarkedListIn
  <2>7. Replaces(i, r)
    <3>1. conns' = [conns EXCEPT ![i] = r]
      BY Zenon, <2>3, <2>r
    <3>2. faults = 0 /\ Quiet(r) => next_keepalive - r.last_active < KeepAlive + Second
      <4>1. faults = 0 /\ Quiet(c) => next_keepalive - c.last_active < KeepAlive + Second
        BY Zenon, <1>2, "read" # "flush" DEF TInv, Warm, c
      <4> QED
        BY Zenon, <2>5, <4>1, JustActive
    <3>3. /\ IsAHeap(timers') /\ Entries(timers') \subseteq Times \X Slots
          /\ \A x \in Entries(timers) : x[2] # i => x \in Entries(timers')
          /\ (r.scheduled # None => <<r.scheduled, i>> \in Entries(timers'))
      BY Zenon, <1>1, <1>2, <2>5
    <3>4. /\ readable' \subseteq Slots /\ faults' \in 0..MaxFaults /\ (faults' = 0 => faults = 0)
          /\ UNCHANGED <<now, next_keepalive, at>> /\ at # "poll"
      BY <1>2
    <3> QED
      BY Zenon, <2>5, <2>6, <3>1, <3>2, <3>3, <3>4 DEF Replaces
  <2> QED
    BY Zenon, <2>7, Replaced
<1> QED
  BY Zenon, <1>3, <1>4

(* flush: what was there to send was sent, at least some of it, or refused. *)
LEMMA OutcomesIn ==
  ASSUME NEW c, NEW o \in FlushOutcomes(c)
  PROVE  /\ o.left \in BOOLEAN
         /\ o.r \notin {"full", "failed"} => ~o.left /\ (c.unsent => o.some)
<1> DEFINE sent == [r |-> "sent", some |-> TRUE, left |-> FALSE]
           idle == [r |-> "idle", some |-> FALSE, left |-> FALSE]
<1>1. CASE o = sent
  BY <1>1
<1>2. CASE o \in [r : {"full", "failed"}, some : BOOLEAN, left : BOOLEAN]
  BY <1>2
<1>3. CASE o = idle /\ ~c.unsent
  BY <1>3
<1> QED
  BY Zenon, <1>1, <1>2, <1>3 DEF FlushOutcomes

(* flush: the timer is set, or the connection ends once it is. *)
LEMMA FlushStep ==
  ASSUME TInv, NEW i \in Slots, NEW c \in Conn, c.state # "vacant", NEW list \in Seq(Slots),
         Flush(i, c, list), UNCHANGED <<now, readable, next_keepalive, at>>, at # "poll",
         c.scheduled # None => <<c.scheduled, i>> \in Entries(timers),
         \A j \in Slots : j # i /\ On(j, dirty) => On(j, list),
         faults = 0 /\ Quiet(c) =>
           next_keepalive - c.last_active < KeepAlive + Second \/ c.unsent
  PROVE  TInv'
<1>1. PICK o \in FlushOutcomes(c), t \in Timeouts :
        LET u == [c EXCEPT !.dirty = FALSE, !.unsent = FALSE, !.left = o.left, !.timeout = t,
                           !.last_active = IF o.some THEN now ELSE @]
            v == Schedule(u)
        IN  /\ faults' = IF o.r \in {"full", "failed"} THEN faults + 1 ELSE faults
            /\ faults' <= MaxFaults
            /\ timers' = Push(u, i, timers)
            /\ IF o.r = "failed"
               THEN \E d \in Ended(v) : /\ conns' = [conns EXCEPT ![i] = After(d, Marked(v))]
                                        /\ dirty' = MarkedList(v, i, list)
               ELSE conns' = [conns EXCEPT ![i] = v] /\ dirty' = list
  BY Zenon DEF Flush
<1> DEFINE a == IF o.some THEN now ELSE c.last_active
           u == [c EXCEPT !.dirty = FALSE, !.unsent = FALSE, !.left = o.left, !.timeout = t,
                          !.last_active = a]
           v == Schedule(u)
<1>2. /\ faults' = IF o.r \in {"full", "failed"} THEN faults + 1 ELSE faults
      /\ faults' <= MaxFaults
      /\ timers' = Push(u, i, timers)
      /\ o.r = "failed" =>
           \E d \in Ended(v) : /\ conns' = [conns EXCEPT ![i] = After(d, Marked(v))]
                               /\ dirty' = MarkedList(v, i, list)
      /\ o.r # "failed" => conns' = [conns EXCEPT ![i] = v] /\ dirty' = list
  BY Zenon, <1>1
<1>3. /\ faults \in 0..MaxFaults /\ now \in 1..MaxTime /\ readable' \subseteq Slots
      /\ IsAHeap(timers) /\ Entries(timers) \subseteq Times \X Slots
  BY Zenon DEF TInv, TypeOK
<1>4. /\ u \in Conn /\ u.dirty = FALSE /\ u.unsent = FALSE /\ u.last_active = a
      /\ u.state = c.state /\ u.scheduled = c.scheduled /\ u.open = c.open
  <2>1. t \in Instants /\ a \in Times
    BY Zenon, <1>3, TimeoutsIn, ConnFields
  <2>2. o.left \in BOOLEAN
    BY Zenon, OutcomesIn
  <2> HIDE DEF a
  <2> QED
    BY Zenon, <2>1, <2>2 DEF Conn
<1>5. faults' \in 0..MaxFaults /\ (faults' = 0 => faults = 0 /\ o.r \notin {"full", "failed"})
  BY <1>2, <1>3, TimersAssumption
<1> HIDE DEF u
<1>6. Scheduled(u, v)
  BY Zenon, <1>4, ScheduleIn
<1> HIDE DEF v
<1>7. v \in Conn /\ v.state = c.state /\ v.dirty = FALSE /\ v.last_active = a /\ v.open = c.open
      /\ v.scheduled = IF MustPush(u) THEN Deadline(u) ELSE c.scheduled
  BY Zenon, <1>4, <1>6 DEF Scheduled
<1>8. Settled(v)
  BY Zenon, <1>4, <1>6, ScheduleSettles
<1>9. /\ IsAHeap(timers') /\ Entries(timers') \subseteq Times \X Slots
      /\ Entries(timers) \subseteq Entries(timers')
      /\ MustPush(u) => <<Deadline(u), i>> \in Entries(timers')
  BY Zenon, <1>2, <1>3, <1>4, PushIn
<1>10. v.scheduled # None => <<v.scheduled, i>> \in Entries(timers')
  BY Zenon, <1>7, <1>9
<1>11. CASE o.r = "failed"
  <2>1. PICK d \in Ended(v) : /\ conns' = [conns EXCEPT ![i] = After(d, Marked(v))]
                              /\ dirty' = MarkedList(v, i, list)
    BY Zenon, <1>2, <1>11
  <2> DEFINE e == After(d, Marked(v))
  <2>2. EndsLike(e, v) /\ conns' = [conns EXCEPT ![i] = e]
    BY Zenon, <1>7, <2>1, MarkedIn, AfterOver
  <2>3. /\ dirty' \in Seq(Slots) /\ On(i, dirty') /\ \A j : On(j, list) => On(j, dirty')
    BY Zenon, <1>7, <2>1, MarkedListIn
  <2> HIDE DEF e
  <2>4. e.scheduled # None => <<e.scheduled, i>> \in Entries(timers')
    BY Zenon, <1>10, <2>2 DEF EndsLike
  <2>5. Replaces(i, e)
    BY Zenon, <1>3, <1>5, <1>9, <2>2, <2>3, <2>4 DEF Replaces, EndsLike
  <2> QED
    BY Zenon, <2>5, Replaced
<1>12. CASE o.r # "failed"
  <2>1. conns' = [conns EXCEPT ![i] = v] /\ dirty' = list
    BY Zenon, <1>2, <1>12
  <2>2. faults' = 0 /\ Quiet(v) => next_keepalive - v.last_active < KeepAlive + Second
    <3>1. SUFFICES ASSUME faults' = 0, Quiet(v)
                   PROVE  next_keepalive - a < KeepAlive + Second
      BY Zenon, <1>7
    <3>2. Quiet(c) /\ faults = 0
      BY Zenon, <1>5, <1>7, <3>1 DEF Quiet
    <3>3. CASE o.some
      BY Zenon, <3>3, JustActive
    <3>4. CASE ~o.some
      <4>1. ~c.unsent
        BY Zenon, <1>5, <3>1, <3>4, OutcomesIn
      <4> QED
        BY Zenon, <3>2, <3>4, <4>1
    <3> QED
      BY Zenon, <3>3, <3>4
  <2>3. Replaces(i, v)
    BY Zenon, <1>3, <1>5, <1>7, <1>8, <1>9, <1>10, <2>1, <2>2 DEF Replaces
  <2> QED
    BY Zenon, <2>3, Replaced
<1> QED
  BY Zenon, <1>11, <1>12

(* fire_timers: the entry popped is no one's, or its connection's, which then
   waits for none until it is scheduled again. *)
LEMMA FireStep ==
  ASSUME TInv, NEW e \in Entries(timers), FireTimer(e)
  PROVE  TInv'
<1> DEFINE i == e[2]
           c == conns[i]
           u == [c EXCEPT !.scheduled = None]
           heap == Popped(timers, e)
<1>1. /\ IsAHeap(timers) /\ Entries(timers) \subseteq Times \X Slots /\ dirty \in Seq(Slots)
      /\ now \in 1..MaxTime /\ faults \in 0..MaxFaults /\ readable \subseteq Slots
      /\ conns \in [Slots -> Conn]
  BY Zenon DEF TInv, TypeOK
<1>2. i \in Slots /\ e = <<e[1], i>>
  BY <1>1
<1>3. /\ c \in Conn /\ Settled(c) /\ (c.dirty => On(i, dirty))
      /\ (c.scheduled # None => <<c.scheduled, i>> \in Entries(timers))
  BY Zenon, <1>1, <1>2 DEF TInv, Listed, Armed
<1>4. /\ IsAHeap(heap) /\ Entries(heap) \subseteq Entries(timers)
      /\ Entries(timers) \ {e} \subseteq Entries(heap)
  BY Zenon, <1>1, HeapPop
<1>5. at = "timers" /\ UNCHANGED <<now, readable, next_keepalive, at, faults>>
  BY Zenon DEF FireTimer
<1>6. faults = 0 /\ Quiet(c) => next_keepalive - c.last_active < KeepAlive + Second
  BY <1>2, <1>5 DEF TInv, Warm
<1> HIDE DEF heap
<1>7. /\ u \in Conn /\ u.scheduled = None /\ u.state = c.state /\ u.dirty = c.dirty
      /\ u.unsent = c.unsent /\ u.open = c.open /\ u.last_active = c.last_active
  <2> HIDE DEF c
  <2> QED
    BY Zenon, <1>3, InstantsIn DEF Conn
<1>8. \A x \in Entries(timers) : x[2] # i => x \in Entries(heap)
  BY Zenon, <1>4
<1>9. CASE (c.state = "vacant" \/ c.scheduled # e[1]) /\ timers' = heap /\ UNCHANGED <<conns, dirty>>
  <2>1. c.scheduled # None => <<c.scheduled, i>> \in Entries(heap)
    <3>1. c.scheduled # None => <<c.scheduled, i>> # e
      <4>1. c.scheduled # None => c.scheduled # e[1]
        BY Zenon, <1>3, <1>9 DEF Settled
      <4> QED
        BY <4>1
    <3> QED
      BY Zenon, <1>3, <1>4, <3>1
  <2>2. conns' = [conns EXCEPT ![i] = c]
    BY <1>1, <1>9
  <2>3. \A j : On(j, dirty) => On(j, dirty')
    BY Zenon, <1>9
  <2> HIDE DEF i, c
  <2>4. Replaces(i, c)
    BY Zenon, <1>1, <1>3, <1>4, <1>5, <1>6, <1>8, <1>9, <2>1, <2>2, <2>3 DEF Replaces
  <2> QED
    BY Zenon, <1>2, <2>4, Replaced
<1>10. CASE /\ c.state # "vacant" /\ timers' = Push(u, i, heap)
            /\ conns' = [conns EXCEPT ![i] = Schedule(u)] /\ dirty' = dirty
  <2> DEFINE v == Schedule(u)
  <2> HIDE DEF u, c, i
  <2>1. Scheduled(u, v)
    BY Zenon, <1>7, ScheduleIn
  <2>2. conns' = [conns EXCEPT ![i] = v]
    BY Zenon, <1>10
  <2> HIDE DEF v
  <2>3. Settled(v)
    <3>1. Live(u) /\ ~u.dirty => ~u.unsent
      BY Zenon, <1>3, <1>7 DEF Settled, Live
    <3> QED
      BY Zenon, <1>7, <1>10, <2>1, <3>1, ScheduleSettles
  <2>4. /\ IsAHeap(timers') /\ Entries(timers') \subseteq Times \X Slots
        /\ Entries(heap) \subseteq Entries(timers')
        /\ MustPush(u) => <<Deadline(u), i>> \in Entries(timers')
    <3>1. Entries(heap) \subseteq Times \X Slots
      BY Zenon, <1>1, <1>4
    <3> QED
      BY Zenon, <1>2, <1>4, <1>7, <1>10, <3>1, PushIn
  <2>5. v \in Conn /\ (v.scheduled # None => <<v.scheduled, i>> \in Entries(timers'))
        /\ v.dirty = c.dirty /\ v.last_active = c.last_active /\ (Quiet(v) => Quiet(c))
    BY Zenon, <1>7, <2>1, <2>4 DEF Scheduled, Quiet
  <2>6. \A x \in Entries(timers) : x[2] # i => x \in Entries(timers')
    BY Zenon, <1>8, <2>4
  <2>7. faults = 0 /\ Quiet(v) => next_keepalive - v.last_active < KeepAlive + Second
    BY Zenon, <1>6, <2>5
  <2>8. (v.dirty => On(i, dirty')) /\ dirty' \in Seq(Slots) /\ \A j : On(j, dirty) => On(j, dirty')
    BY Zenon, <1>1, <1>3, <1>10, <2>5
  <2>9. Replaces(i, v)
    BY Zenon, <1>1, <1>5, <2>2, <2>3, <2>4, <2>5, <2>6, <2>7, <2>8 DEF Replaces
  <2> QED
    BY Zenon, <1>2, <2>9, Replaced
<1>11. CASE /\ c.state # "vacant" /\ timers' = heap /\ dirty' = dirty
            /\ \E d \in Ended(u) : conns' = [conns EXCEPT ![i] = d]
  <2>1. PICK d \in Ended(u) : conns' = [conns EXCEPT ![i] = d]
    BY Zenon, <1>11
  <2> HIDE DEF u, c, i
  <2>2. Over(d, u)
    BY Zenon, <1>7, <1>11, EndedOver
  <2>3. d.scheduled = None /\ d \in Conn /\ Settled(d) /\ ~Quiet(d) /\ (d.dirty => On(i, dirty))
    BY Zenon, <1>3, <1>7, <2>2 DEF Over
  <2>4. Replaces(i, d)
    BY Zenon, <1>1, <1>4, <1>5, <1>8, <1>11, <2>1, <2>3 DEF Replaces
  <2> QED
    BY Zenon, <1>2, <2>4, Replaced
<1>12. CASE /\ c.state # "vacant" /\ timers' = heap /\ dirty' = MarkedList(u, i, dirty)
            /\ \E t \in Timeouts, s \in BOOLEAN :
                 LET v == [u EXCEPT !.timeout = t, !.unsent = s]
                 IN  \E d \in {v} \cup Ended(v) : conns' = [conns EXCEPT ![i] = After(d, Marked(u))]
  <2>1. PICK t \in Timeouts, s \in BOOLEAN :
          LET v == [u EXCEPT !.timeout = t, !.unsent = s]
          IN  \E d \in {v} \cup Ended(v) : conns' = [conns EXCEPT ![i] = After(d, Marked(u))]
    BY Zenon, <1>12
  <2> DEFINE v == [u EXCEPT !.timeout = t, !.unsent = s]
  <2>2. PICK d \in {v} \cup Ended(v) : conns' = [conns EXCEPT ![i] = After(d, Marked(u))]
    BY Zenon, <2>1
  <2> DEFINE r == After(d, Marked(u))
  <2> HIDE DEF u, c, i
  <2>3. v \in Conn /\ v.scheduled = None /\ v.state = c.state /\ v.open = c.open
        /\ v.last_active = c.last_active
    <3>1. t \in Instants
      BY Zenon, <1>1, TimeoutsIn
    <3>2. v \in Conn /\ v.scheduled = u.scheduled /\ v.state = u.state /\ v.open = u.open
          /\ v.last_active = u.last_active
      BY Zenon, <1>7, <3>1 DEF Conn
    <3> HIDE DEF v
    <3> QED
      BY Zenon, <1>7, <3>2
  <2>4. Marked(u) \in Conn /\ Marked(u).dirty
    BY Zenon, <1>7, MarkedIn
  <2> HIDE DEF v
  <2>5. \/ EndsLike(r, v)
        \/ Stays(r, v)
    BY Zenon, <1>12, <2>2, <2>3, <2>4, AfterOver, AfterLive
  <2>6. conns' = [conns EXCEPT ![i] = r]
    BY Zenon, <2>2
  <2> HIDE DEF r
  <2>7. r \in Conn /\ Settled(r) /\ r.scheduled = None
        /\ (Quiet(r) => Quiet(c) /\ r.last_active = c.last_active)
    BY Zenon, <2>3, <2>5 DEF EndsLike, Stays, Quiet
  <2>8. dirty' \in Seq(Slots) /\ On(i, dirty') /\ \A j : On(j, dirty) => On(j, dirty')
    BY Zenon, <1>1, <1>2, <1>3, <1>7, <1>12, MarkedListIn
  <2>9. faults = 0 /\ Quiet(r) => next_keepalive - r.last_active < KeepAlive + Second
    BY Zenon, <1>6, <2>7
  <2>10. Replaces(i, r)
    BY Zenon, <1>1, <1>4, <1>5, <1>8, <1>12, <2>6, <2>7, <2>8, <2>9 DEF Replaces
  <2> QED
    BY Zenon, <1>2, <2>10, Replaced
<1> QED
  BY Zenon, <1>9, <1>10, <1>11, <1>12 DEF FireTimer, heap

(* dial, a request, and the end of a round. *)
LEMMA DialStep ==
  ASSUME TInv, NEW i \in Slots, Dial(i)
  PROVE  TInv'
<1>1. now \in 1..MaxTime /\ dirty \in Seq(Slots)
  BY Zenon DEF TInv, TypeOK
<1> DEFINE c == Fresh
<1>2. c \in Conn /\ c.state = "connecting" /\ c.scheduled = None
  <2>1. now \in Times /\ now + DialTimeout \in Instants
    BY Zenon, <1>1, TimeoutsIn
  <2> QED
    BY Zenon, <2>1, VacantIn, InstantsIn DEF Fresh, Conn, Vacant
<1>3. Flush(i, c, dirty) /\ UNCHANGED <<now, readable, next_keepalive, at>> /\ at # "poll"
  BY DEF Dial
<1> HIDE DEF c
<1>4. ~Quiet(c)
  BY <1>2 DEF Quiet
<1> QED
  BY Zenon, <1>1, <1>2, <1>3, <1>4, FlushStep

(* Sending a request keeps the invariant. *)
LEMMA SendStep ==
  ASSUME TInv, NEW i \in Slots, Send(i)
  PROVE  TInv'
<1> DEFINE c == conns[i]
<1>1. /\ IsAHeap(timers) /\ Entries(timers) \subseteq Times \X Slots /\ dirty \in Seq(Slots)
      /\ now \in 1..MaxTime /\ faults \in 0..MaxFaults /\ readable \subseteq Slots
      /\ c \in Conn /\ (c.dirty => On(i, dirty))
      /\ (c.scheduled # None => <<c.scheduled, i>> \in Entries(timers))
  BY Zenon DEF TInv, TypeOK, Listed, Armed
<1>2. PICK t \in Timeouts :
        conns' = [conns EXCEPT ![i] = [Marked(c) EXCEPT !.open = TRUE, !.unsent = TRUE, !.timeout = t]]
  BY Zenon DEF Send
<1>3. /\ at = "drive" /\ c.state = "ready" /\ dirty' = MarkedList(c, i, dirty)
      /\ UNCHANGED <<now, timers, readable, next_keepalive, at, faults>>
  BY Zenon DEF Send
<1> HIDE DEF c
<1> DEFINE m == Marked(c)
           d == [m EXCEPT !.open = TRUE, !.unsent = TRUE, !.timeout = t]
<1>4. m \in Conn /\ m.dirty /\ m.state = "ready" /\ m.scheduled = c.scheduled
  BY Zenon, <1>1, <1>3, MarkedIn
<1>5. t \in Instants
  BY Zenon, <1>1, TimeoutsIn
<1> HIDE DEF m
<1>6. d \in Conn /\ d.dirty = m.dirty /\ d.state = m.state /\ d.scheduled = m.scheduled
      /\ d.open = TRUE
  BY Zenon, <1>4, <1>5 DEF Conn
<1>7. conns' = [conns EXCEPT ![i] = d]
  BY Zenon, <1>2 DEF m
<1> HIDE DEF d
<1>8. Settled(d) /\ ~Quiet(d)
  BY <1>4, <1>6 DEF Settled, Quiet
<1>9. dirty' \in Seq(Slots) /\ On(i, dirty') /\ \A j : On(j, dirty) => On(j, dirty')
  BY Zenon, <1>1, <1>3, MarkedListIn
<1>10. d.scheduled # None => <<d.scheduled, i>> \in Entries(timers)
  BY Zenon, <1>1, <1>4, <1>6
<1>11. Replaces(i, d)
  BY Zenon, <1>1, <1>3, <1>6, <1>7, <1>8, <1>9, <1>10 DEF Replaces
<1> QED
  BY Zenon, <1>11, Replaced

(* flush_dirty: whoever is popped is flushed, unless its mark went with it. *)
LEMMA FlushNextStep ==
  ASSUME TInv, FlushNext
  PROVE  TInv'
<1> DEFINE i == dirty[Len(dirty)]
           rest == SubSeq(dirty, 1, Len(dirty) - 1)
           c == conns[i]
<1>1. /\ at = "flush" /\ dirty # <<>> /\ UNCHANGED <<now, readable, next_keepalive, at>>
      /\ (c.dirty => Flush(i, c, rest))
      /\ (~c.dirty => dirty' = rest /\ UNCHANGED <<conns, timers, faults>>)
  BY Zenon DEF FlushNext
<1>2. dirty \in Seq(Slots)
  BY Zenon DEF TInv, TypeOK
<1>3. i \in Slots /\ rest \in Seq(Slots) /\ \A j : On(j, dirty) /\ j # i => On(j, rest)
  BY Zenon, <1>1, <1>2, OnFront
<1> HIDE DEF i, rest
<1>4. /\ c \in Conn /\ Settled(c) /\ faults \in 0..MaxFaults /\ readable \subseteq Slots
      /\ IsAHeap(timers) /\ Entries(timers) \subseteq Times \X Slots
      /\ (c.scheduled # None => <<c.scheduled, i>> \in Entries(timers))
      /\ conns \in [Slots -> Conn]
  BY Zenon, <1>3 DEF TInv, TypeOK, Armed
<1>5. faults = 0 /\ Quiet(c) =>
        \/ next_keepalive - c.last_active < KeepAlive + Second
        \/ c.dirty /\ c.unsent
  BY Zenon, <1>3 DEF TInv, Warm
<1>6. CASE c.dirty
  <2>1. c.state # "vacant"
    BY Zenon, <1>4, <1>6 DEF Settled
  <2> HIDE DEF c
  <2> QED
    BY <1>1, <1>3, <1>4, <1>5, <1>6, <2>1, FlushStep
<1>7. CASE ~c.dirty
  <2>1. conns' = [conns EXCEPT ![i] = c]
    BY <1>1, <1>4, <1>7
  <2> HIDE DEF c
  <2>2. Replaces(i, c)
    BY Zenon, <1>1, <1>3, <1>4, <1>5, <1>7, <2>1 DEF Replaces
  <2> QED
    BY Zenon, <1>3, <2>2, Replaced
<1> QED
  BY Zenon, <1>6, <1>7

(* keepalive: who was quiet for long is marked, with a ping to send. *)
LEMMA KeepaliveStep ==
  ASSUME TInv, Keepalive
  PROVE  TInv'
<1>1. /\ at = "keepalive" /\ at' = "flush" /\ UNCHANGED <<now, timers, readable, faults>>
      /\ now \in 1..MaxTime /\ faults \in 0..MaxFaults /\ readable \subseteq Slots
      /\ IsAHeap(timers) /\ Entries(timers) \subseteq Times \X Slots
      /\ conns \in [Slots -> Conn] /\ dirty \in Seq(Slots) /\ next_keepalive \in Times
  BY Zenon DEF Keepalive, TInv, TypeOK
<1>2. /\ next_keepalive <= now + Second
      /\ \A j \in Slots : conns[j].dirty => On(j, dirty)
      /\ \A j \in Slots : Settled(conns[j])
      /\ \A j \in Slots : conns[j].scheduled # None => <<conns[j].scheduled, j>> \in Entries(timers)
      /\ (faults = 0 => \A j \in Slots : Quiet(conns[j]) =>
            next_keepalive - conns[j].last_active < KeepAlive + Second)
  BY Zenon, <1>1 DEF TInv, Warm, Listed, Armed
<1>3. SUFFICES /\ next_keepalive' \in Times /\ next_keepalive' <= now + Second
               /\ conns' \in [Slots -> Conn] /\ dirty' \in Seq(Slots)
               /\ \A j \in Slots :
                    /\ conns'[j].dirty => On(j, dirty')
                    /\ Settled(conns'[j]) /\ conns'[j].scheduled = conns[j].scheduled
                    /\ faults = 0 /\ Quiet(conns'[j]) =>
                         \/ next_keepalive' - conns'[j].last_active < KeepAlive + Second
                         \/ conns'[j].dirty /\ conns'[j].unsent
  <2>1. TypeOK'
    BY Zenon, <1>1, <1>3 DEF TypeOK
  <2>2. Listed'
    BY Zenon, <1>1, <1>3 DEF Listed
  <2>3. Armed'
    <3> SUFFICES ASSUME NEW j \in Slots
                 PROVE  /\ Settled(conns'[j])
                        /\ conns'[j].scheduled # None =>
                             <<conns'[j].scheduled, j>> \in Entries(timers')
      BY Zenon DEF Armed, Settled, Live, Deadline
    <3> QED
      BY Zenon, <1>1, <1>2, <1>3
  <2>4. Warm'
    BY Zenon, <1>1, <1>3 DEF Warm, Quiet, KeepAlive
  <2> QED
    BY Zenon, <2>1, <2>2, <2>3, <2>4 DEF TInv
<1>4. CASE now < next_keepalive
  <2>1. UNCHANGED <<conns, dirty, next_keepalive>>
    BY Zenon, <1>4 DEF Keepalive
  <2> QED
    BY Zenon, <1>1, <1>2, <2>1
<1>5. CASE ~(now < next_keepalive)
  <2> DEFINE P == {i \in Slots : Pinged(i) /\ ~conns[i].dirty}
  <2>1. /\ next_keepalive' = now + Second
        /\ conns' = [i \in Slots |-> IF Pinged(i) THEN [Marked(conns[i]) EXCEPT !.unsent = TRUE]
                                     ELSE conns[i]]
        /\ \E count \in 0..NumSlots : \E list \in [1..count -> Slots] :
             Range(list) = P /\ dirty' = dirty \o list
    BY Zenon, <1>5 DEF Keepalive
  <2>count. PICK count \in 0..NumSlots :
            \E list \in [1..count -> Slots] : Range(list) = P /\ dirty' = dirty \o list
    BY Zenon, <2>1
  <2>2. PICK list \in [1..count -> Slots] : Range(list) = P /\ dirty' = dirty \o list
    BY Zenon, <2>count
  <2>3. list \in Seq(Slots)
    BY TimersAssumption
  <2>4. dirty' \in Seq(Slots) /\ \A j : On(j, dirty) \/ On(j, list) => On(j, dirty')
    BY Zenon, <1>1, <2>2, <2>3, OnConcat
  <2>5. \A j \in P : On(j, list)
    BY Zenon, <2>2 DEF On, Range
  <2>6. next_keepalive' \in Times /\ next_keepalive' <= now + Second
    <3>1. now + Second \in Times /\ now + Second <= now + Second
      BY <1>1, TimeoutsIn, KeepAliveIn
    <3> QED
      BY Zenon, <2>1, <3>1
  <2>7. ASSUME NEW j \in Slots
        PROVE  /\ conns'[j] \in Conn
               /\ conns'[j].dirty => On(j, dirty')
               /\ Settled(conns'[j]) /\ conns'[j].scheduled = conns[j].scheduled
               /\ faults = 0 /\ Quiet(conns'[j]) =>
                    \/ next_keepalive' - conns'[j].last_active < KeepAlive + Second
                    \/ conns'[j].dirty /\ conns'[j].unsent
    <3> DEFINE c == conns[j]
    <3>1. c \in Conn /\ Settled(c)
      BY Zenon, <1>1, <1>2
    <3>2. CASE Pinged(j)
      <4> DEFINE m == Marked(c)
                 d == [m EXCEPT !.unsent = TRUE]
      <4>1. conns'[j] = d
        BY Zenon, <2>1, <3>2
      <4>2. m \in Conn /\ m.dirty /\ m.state = c.state /\ m.scheduled = c.scheduled
        BY Zenon, <3>1, MarkedIn
      <4> HIDE DEF m
      <4>3. d \in Conn /\ d.unsent = TRUE /\ d.dirty = m.dirty /\ d.state = m.state
            /\ d.scheduled = m.scheduled
        BY Zenon, <4>2 DEF Conn
      <4> HIDE DEF d
      <4>4. c.state = "ready"
        BY Zenon, <3>2 DEF Pinged, Quiet
      <4>5. Settled(d)
        BY <4>2, <4>3, <4>4 DEF Settled
      <4>6. On(j, dirty')
        BY Zenon, <1>2, <2>4, <2>5, <3>2
      <4> QED
        BY Zenon, <4>1, <4>2, <4>3, <4>5, <4>6
    <3>3. CASE ~Pinged(j)
      <4>1. conns'[j] = c
        BY Zenon, <2>1, <3>3
      <4>2. Quiet(c) => next_keepalive' - c.last_active < KeepAlive + Second
        <5>1. c.last_active \in Times
          BY Zenon, <3>1, ConnFields
        <5>2. c.last_active \in Nat /\ now \in Nat
          BY <1>1, <5>1, TimersAssumption DEF Times, Latest
        <5>3. Quiet(c) => ~(now - c.last_active >= KeepAlive)
          BY Zenon, <3>3 DEF Pinged
        <5>4. next_keepalive' = now + Second
          BY Zenon, <2>1
        <5> HIDE DEF c
        <5> QED
          BY <5>2, <5>3, <5>4, KeepAliveIn
      <4>3. c.dirty => On(j, dirty')
        BY Zenon, <1>2, <2>4
      <4> HIDE DEF c
      <4> QED
        BY Zenon, <3>1, <4>1, <4>2, <4>3 DEF c
    <3> QED
      BY Zenon, <3>2, <3>3
  <2>8. conns' \in [Slots -> Conn]
    <3>1. conns' = [j \in Slots |-> conns'[j]]
      BY Zenon, <2>1
    <3> QED
      BY Zenon, <2>7, <3>1
  <2> QED
    BY Zenon, <2>4, <2>6, <2>7, <2>8
<1> QED
  BY Zenon, <1>4, <1>5

-----------------------------------------------------------------------------
(* Every step of the timers keeps the invariant. *)
LEMMA TStep ==
  ASSUME TInv, [Next]_vars
  PROVE  TInv'
<1>1. CASE \/ Tick \/ Wake \/ WakeEarly \/ ReadDone \/ TimersDone \/ DriveDone
           \/ FlushDone \/ EndOfTime \/ \E i \in Slots : Receive(i)
  BY Zenon, <1>1, RoundStep
<1>2. CASE \E i \in Slots : OnReadable(i)
  BY Zenon, <1>2, ReadStep
<1>3. CASE \E e \in Entries(timers) : FireTimer(e)
  BY Zenon, <1>3, FireStep
<1>4. CASE \E i \in Slots : Dial(i) \/ Send(i)
  BY Zenon, <1>4, DialStep, SendStep
<1>5. CASE Keepalive
  BY Zenon, <1>5, KeepaliveStep
<1>6. CASE FlushNext
  BY Zenon, <1>6, FlushNextStep
<1>7. CASE UNCHANGED vars
  BY Zenon, <1>7 DEF vars, TInv, TypeOK, Listed, Armed, Warm, Settled, Live, Deadline, Quiet
<1> QED
  BY Zenon, <1>1, <1>2, <1>3, <1>4, <1>5, <1>6, <1>7 DEF Next, Round

(* TInv holds throughout: the timers, the lists and the connections of a
   worker's event loop agree between any two steps. *)
LEMMA TAlways == Spec => []TInv
<1>1. Init => TInv
  BY Zenon, TInit
<1>2. TInv /\ [Next]_vars => TInv'
  BY Zenon, TStep
<1> QED
  BY <1>1, <1>2, PTL DEF Spec

(* While no send was refused, quiche keeps no packet behind a flush. *)
Drained == faults = 0 => \A i \in Slots : ~conns[i].left

(* d has packets that a flush left only where c had. *)
Leaves(d, c) == d \in Conn /\ (d.left => c.left)

(* The end of a connection, and what is marked of it, leaves no packets. *)
LEMMA EndLeaves ==
  ASSUME NEW v \in Conn, NEW d \in Ended(v)
  PROVE  Leaves(d, v)
<1> DEFINE q == IF v.state = "ready" THEN "broken" ELSE v.state
           b == [v EXCEPT !.state = "broken", !.attempt_deadline = None, !.open = FALSE]
           e == [v EXCEPT !.state = q, !.open = FALSE]
<1>1. d \in {Vacant, b, e}
  BY Zenon DEF Ended
<1>2. b \in Conn /\ b.left = v.left
  BY Zenon, InstantsIn DEF Conn
<1>3. q \in {"vacant", "connecting", "ready", "broken"}
  BY ConnFields
<1> HIDE DEF q, b
<1>4. e \in Conn /\ e.left = v.left
  BY Zenon, <1>3 DEF Conn
<1> HIDE DEF e
<1>5. Vacant \in Conn /\ ~Vacant.left
  BY VacantIn DEF Vacant
<1> QED
  BY <1>1, <1>2, <1>4, <1>5 DEF Leaves

(* ... whatever becomes of its mark. *)
LEMMA AfterLeaves ==
  ASSUME NEW v, NEW d, Leaves(d, v), NEW c \in Conn
  PROVE  Leaves(After(d, c), v)
<1>1. d \in Conn /\ c.dirty \in BOOLEAN
  BY Zenon, ConnFields DEF Leaves
<1>2. [d EXCEPT !.dirty = c.dirty] \in Conn /\ [d EXCEPT !.dirty = c.dirty].left = d.left
  BY Zenon, <1>1 DEF Conn
<1>3. CASE d.state = "vacant"
  BY Zenon, <1>3 DEF After
<1>4. CASE d.state # "vacant"
  <2>1. After(d, c) = [d EXCEPT !.dirty = c.dirty]
    BY Zenon, <1>4 DEF After
  <2> QED
    BY <1>2, <2>1 DEF Leaves
<1> QED
  BY Zenon, <1>3, <1>4

(* A step that changes one connection, and leaves no packets in it. *)
LEMMA OneDrained ==
  ASSUME TInv, Drained, NEW i \in Slots, NEW d, conns' = [conns EXCEPT ![i] = d],
         faults' = 0 => faults = 0 /\ (d.left => conns[i].left)
  PROVE  Drained'
<1>1. conns \in [Slots -> Conn]
  BY Zenon DEF TInv, TypeOK
<1>2. \A j \in Slots : conns'[j] = IF j = i THEN d ELSE conns[j]
  BY Zenon, <1>1
<1> QED
  BY Zenon, <1>2 DEF Drained

(* flush, where no send was refused. *)
LEMMA FlushDrained ==
  ASSUME TInv, Drained, NEW i \in Slots, NEW c \in Conn, NEW list, Flush(i, c, list)
  PROVE  Drained'
<1>1. PICK o \in FlushOutcomes(c), t \in Timeouts :
        LET u == [c EXCEPT !.dirty = FALSE, !.unsent = FALSE, !.left = o.left, !.timeout = t,
                           !.last_active = IF o.some THEN now ELSE @]
        IN  /\ faults' = IF o.r \in {"full", "failed"} THEN faults + 1 ELSE faults
            /\ o.r # "failed" => conns' = [conns EXCEPT ![i] = Schedule(u)]
  BY Zenon DEF Flush
<1> DEFINE a == IF o.some THEN now ELSE c.last_active
           u == [c EXCEPT !.dirty = FALSE, !.unsent = FALSE, !.left = o.left, !.timeout = t,
                          !.last_active = a]
<1>2. faults \in Nat /\ now \in 1..MaxTime
  BY DEF TInv, TypeOK
<1>3. CASE o.r \in {"full", "failed"}
  <2>1. faults' # 0
    BY <1>1, <1>2, <1>3
  <2> QED
    BY Zenon, <2>1 DEF Drained
<1>4. CASE o.r \notin {"full", "failed"}
  <2>1. ~o.left /\ o.left \in BOOLEAN
    BY Zenon, <1>4, OutcomesIn
  <2>2. t \in Instants /\ a \in Times
    BY Zenon, <1>2, TimeoutsIn, ConnFields
  <2>3. conns' = [conns EXCEPT ![i] = Schedule(u)] /\ faults' = faults
    BY <1>1, <1>4
  <2> HIDE DEF a
  <2>4. u \in Conn /\ u.left = o.left
    BY Zenon, <2>1, <2>2 DEF Conn
  <2> HIDE DEF u
  <2>5. Schedule(u).left = u.left
    BY Zenon, <2>4 DEF Schedule, Conn
  <2> QED
    BY Zenon, <2>1, <2>3, <2>4, <2>5, OneDrained
<1> QED
  BY Zenon, <1>3, <1>4

(* No step leaves packets behind but a flush that was refused. *)
LEMMA DrainedStep ==
  ASSUME TInv, Drained, [Next]_vars
  PROVE  Drained'
<1>1. conns \in [Slots -> Conn] /\ now \in 1..MaxTime /\ Entries(timers) \subseteq Times \X Slots
      /\ dirty \in Seq(Slots)
  BY Zenon DEF TInv, TypeOK
<1>2. CASE UNCHANGED <<conns, faults>>
  BY Zenon, <1>2 DEF Drained
<1>3. ASSUME NEW i \in Slots, OnReadable(i)
      PROVE  Drained'
  <2> DEFINE c == conns[i]
             read(t, u) == [c EXCEPT !.timeout = t, !.unsent = u, !.last_active = now]
  <2>1. c \in Conn /\ Marked(c) \in Conn /\ faults' = faults
    BY Zenon, <1>1, <1>3, MarkedIn DEF OnReadable
  <2>2. ASSUME NEW t \in Timeouts, NEW u \in BOOLEAN
        PROVE  read(t, u) \in Conn /\ read(t, u).left = c.left
    <3>1. t \in Instants /\ now \in Times
      BY Zenon, <1>1, TimeoutsIn
    <3> HIDE DEF c
    <3> QED
      BY Zenon, <2>1, <3>1 DEF Conn
  <2> HIDE DEF read
  <2>3. ASSUME NEW e \in Conn, e.left = c.left, NEW d \in Processed(e) \cup Ended(e)
        PROVE  Leaves(After(d, Marked(c)), c)
    <3> DEFINE p == [e EXCEPT !.state = "ready", !.attempt_deadline = None, !.open = FALSE]
    <3>1. d \in {e, p} \/ d \in Ended(e)
      BY Zenon, <2>3 DEF Processed
    <3>2. p \in Conn /\ p.left = e.left
      BY Zenon, InstantsIn DEF Conn
    <3> HIDE DEF c, p
    <3>3. Leaves(d, e)
      BY Zenon, <3>1, <3>2, EndLeaves DEF Leaves
    <3>4. Leaves(d, c)
      BY <2>3, <3>3 DEF Leaves
    <3> QED
      BY Zenon, <2>1, <3>4, AfterLeaves
  <2>4. CASE UNCHANGED conns
    BY Zenon, <1>2, <2>1, <2>4
  <2>5. CASE \E t \in Timeouts, u \in BOOLEAN : \E d \in Processed(read(t, u)) \cup Ended(read(t, u)) :
               conns' = [conns EXCEPT ![i] = After(d, Marked(c))]
    BY Zenon, <2>1, <2>2, <2>3, <2>5, OneDrained DEF Leaves
  <2>6. CASE \E d \in {c} \cup Ended(c) : conns' = [conns EXCEPT ![i] = After(d, Marked(c))]
    <3>1. PICK d \in {c} \cup Ended(c) : conns' = [conns EXCEPT ![i] = After(d, Marked(c))]
      BY Zenon, <2>6
    <3>2. d \in Processed(c) \cup Ended(c)
      BY Zenon, <3>1 DEF Processed
    <3> QED
      BY Zenon, <2>1, <2>3, <3>1, <3>2, OneDrained DEF Leaves
  <2> QED
    BY Zenon, <1>3, <2>4, <2>5, <2>6 DEF OnReadable, read
<1>4. ASSUME NEW e \in Entries(timers), FireTimer(e)
      PROVE  Drained'
  <2> DEFINE i == e[2]
             c == conns[i]
             u == [c EXCEPT !.scheduled = None]
             fired(t, s) == [u EXCEPT !.timeout = t, !.unsent = s]
  <2>1. i \in Slots /\ faults' = faults
    BY Zenon, <1>1, <1>4 DEF FireTimer
  <2>2. c \in Conn
    BY Zenon, <1>1, <2>1
  <2>3. \/ UNCHANGED conns
        \/ conns' = [conns EXCEPT ![i] = Schedule(u)]
        \/ \E d \in Ended(u) : conns' = [conns EXCEPT ![i] = d]
        \/ \E t \in Timeouts, s \in BOOLEAN : \E d \in {fired(t, s)} \cup Ended(fired(t, s)) :
             conns' = [conns EXCEPT ![i] = After(d, Marked(u))]
    BY Zenon, <1>4 DEF FireTimer
  <2> HIDE DEF i
  <2>4. u \in Conn /\ u.left = c.left
    <3> HIDE DEF c
    <3> QED
      BY Zenon, <2>2, InstantsIn DEF Conn
  <2> HIDE DEF u
  <2>5. Schedule(u).left = u.left /\ Marked(u) \in Conn
    BY Zenon, <2>4, MarkedIn DEF Schedule, Conn
  <2>6. ASSUME NEW t \in Timeouts, NEW s \in BOOLEAN, NEW d \in {fired(t, s)} \cup Ended(fired(t, s))
        PROVE  Leaves(After(d, Marked(u)), u)
    <3>1. t \in Instants
      BY Zenon, <1>1, TimeoutsIn
    <3>2. fired(t, s) \in Conn /\ fired(t, s).left = u.left
      BY Zenon, <2>4, <3>1 DEF Conn
    <3> HIDE DEF fired
    <3>3. Leaves(d, fired(t, s))
      BY Zenon, <3>2, EndLeaves DEF Leaves
    <3>4. Leaves(d, u)
      BY <3>2, <3>3 DEF Leaves
    <3> QED
      BY Zenon, <2>5, <3>4, AfterLeaves
  <2> HIDE DEF fired
  <2>7. CASE UNCHANGED conns
    BY Zenon, <1>2, <2>1, <2>7
  <2>8. CASE conns' = [conns EXCEPT ![i] = Schedule(u)]
    <3>1. Schedule(u).left => conns[i].left
      BY <2>4, <2>5
    <3> QED
      BY Zenon, <2>1, <2>8, <3>1, OneDrained
  <2>9. CASE \E d \in Ended(u) : conns' = [conns EXCEPT ![i] = d]
    <3>1. PICK d \in Ended(u) : conns' = [conns EXCEPT ![i] = d]
      BY Zenon, <2>9
    <3>2. Leaves(d, u)
      BY Zenon, <2>4, EndLeaves
    <3>3. d.left => conns[i].left
      BY <2>4, <3>2 DEF Leaves
    <3> QED
      BY Zenon, <2>1, <3>1, <3>3, OneDrained
  <2>10. CASE \E t \in Timeouts, s \in BOOLEAN : \E d \in {fired(t, s)} \cup Ended(fired(t, s)) :
                conns' = [conns EXCEPT ![i] = After(d, Marked(u))]
    <3>1. PICK r : conns' = [conns EXCEPT ![i] = r] /\ Leaves(r, u)
      BY Zenon, <2>6, <2>10
    <3>2. r.left => conns[i].left
      BY <2>4, <3>1 DEF Leaves
    <3> QED
      BY Zenon, <2>1, <3>1, <3>2, OneDrained
  <2> QED
    BY Zenon, <2>3, <2>7, <2>8, <2>9, <2>10
<1>5. ASSUME NEW i \in Slots, Dial(i)
      PROVE  Drained'
  <2>1. Fresh \in Conn
    <3>1. now \in Times /\ now + DialTimeout \in Instants
      BY Zenon, <1>1, TimeoutsIn
    <3> QED
      BY Zenon, <3>1, VacantIn, InstantsIn DEF Fresh, Conn, Vacant
  <2> QED
    BY Zenon, <1>5, <2>1, FlushDrained DEF Dial
<1>6. ASSUME NEW i \in Slots, Send(i)
      PROVE  Drained'
  <2> DEFINE m == Marked(conns[i])
  <2>1. m \in Conn /\ m.left = conns[i].left /\ faults' = faults
    <3>1. conns[i] \in Conn
      BY Zenon, <1>1
    <3> QED
      BY Zenon, <1>6, <3>1 DEF Send, Marked, Conn
  <2>2. PICK t \in Timeouts :
          conns' = [conns EXCEPT ![i] = [m EXCEPT !.open = TRUE, !.unsent = TRUE, !.timeout = t]]
    BY Zenon, <1>6 DEF Send
  <2> HIDE DEF m
  <2> DEFINE d == [m EXCEPT !.open = TRUE, !.unsent = TRUE, !.timeout = t]
  <2>3. d.left = m.left
    BY Zenon, <2>1 DEF Conn
  <2> HIDE DEF d
  <2>4. d.left => conns[i].left
    BY <2>1, <2>3
  <2> QED
    BY Zenon, <2>1, <2>2, <2>4, OneDrained DEF d
<1>7. CASE FlushNext
  <2> DEFINE i == dirty[Len(dirty)]
             rest == SubSeq(dirty, 1, Len(dirty) - 1)
  <2>1. i \in Slots
    BY Zenon, <1>1, <1>7, OnFront DEF FlushNext
  <2>2. conns[i] \in Conn
    BY Zenon, <1>1, <2>1
  <2>3. Flush(i, conns[i], rest) \/ UNCHANGED <<conns, faults>>
    BY Zenon, <1>7 DEF FlushNext
  <2> QED
    BY Zenon, <1>2, <2>1, <2>2, <2>3, FlushDrained
<1>8. CASE Keepalive
  <2>1. faults' = faults
    BY Zenon, <1>8 DEF Keepalive
  <2>2. CASE UNCHANGED conns
    BY Zenon, <1>2, <2>1, <2>2
  <2>3. CASE conns' = [i \in Slots |-> IF Pinged(i) THEN [Marked(conns[i]) EXCEPT !.unsent = TRUE]
                                       ELSE conns[i]]
    <3>1. ASSUME NEW i \in Slots
          PROVE  conns'[i].left = conns[i].left
      <4> DEFINE m == Marked(conns[i])
      <4>1. m \in Conn /\ m.left = conns[i].left
        <5>1. conns[i] \in Conn
          BY Zenon, <1>1
        <5> QED
          BY Zenon, <5>1 DEF Marked, Conn
      <4>2. conns'[i] = IF Pinged(i) THEN [m EXCEPT !.unsent = TRUE] ELSE conns[i]
        BY Zenon, <2>3
      <4> HIDE DEF m
      <4>3. [m EXCEPT !.unsent = TRUE].left = m.left
        BY Zenon, <4>1 DEF Conn
      <4> QED
        BY Zenon, <4>1, <4>2, <4>3
    <3> QED
      BY <2>1, <3>1 DEF Drained
  <2> QED
    BY Zenon, <1>8, <2>2, <2>3 DEF Keepalive
<1>9. CASE \/ Tick \/ Wake \/ WakeEarly \/ ReadDone \/ TimersDone \/ DriveDone
           \/ FlushDone \/ EndOfTime \/ UNCHANGED vars \/ \E i \in Slots : Receive(i)
  <2>1. UNCHANGED <<conns, faults>>
    BY Zenon, <1>9 DEF Tick, Wake, WakeEarly, ReadDone, TimersDone, DriveDone, FlushDone,
                       EndOfTime, Receive, vars
  <2> QED
    BY Zenon, <1>2, <2>1
<1> QED
  BY Zenon, <1>3, <1>4, <1>5, <1>6, <1>7, <1>8, <1>9 DEF Next, Round

(* Until a send is refused, nothing is left behind. *)
LEMMA DrainedAlways == Spec => []Drained
<1>1. Init => Drained
  <2>1. Init => \A i \in Slots : conns[i] = Vacant
    BY Zenon DEF Init
  <2>2. ~Vacant.left
    BY DEF Vacant
  <2> QED
    BY Zenon, <2>1, <2>2 DEF Drained
<1>2. TInv /\ Drained /\ [Next]_vars => Drained'
  BY Zenon, DrainedStep
<1> QED
  BY <1>1, <1>2, TAlways, PTL DEF Spec

(* With an empty list nothing is marked. *)
LEMMA Unmarked ==
  ASSUME TInv, at = "poll", NEW i \in Slots
  PROVE  ~conns[i].dirty /\ Settled(conns[i])
<1>1. dirty = <<>> /\ (conns[i].dirty => On(i, dirty)) /\ Settled(conns[i])
  BY Zenon DEF TInv, Listed, Armed
<1>2. dirty = <<>> => ~On(i, dirty)
  BY DEF On
<1> QED
  BY Zenon, <1>1, <1>2

(* Whenever the worker's loop polls, the heap wakes it in time for every
   connection quiche or a dial wants it to wake for: whatever schedule has left
   out of the heap, fire_timers popped or a new connection took over, no timer
   is lost. *)
THEOREM NoTimerLost == Spec => []TimersArmed
<1>1. TInv => TimersArmed
  <2> SUFFICES ASSUME TInv, at = "poll", NEW i \in Slots, Live(conns[i]), Deadline(conns[i]) # None
               PROVE  /\ conns[i].deadline = Deadline(conns[i])
                      /\ conns[i].scheduled # None /\ conns[i].scheduled <= conns[i].deadline
                      /\ <<conns[i].scheduled, i>> \in Entries(timers)
    BY Zenon DEF TimersArmed
  <2>1. ~conns[i].dirty /\ Settled(conns[i])
    BY Zenon, Unmarked
  <2> QED
    BY Zenon, <2>1 DEF TInv, Armed, Settled
<1> QED
  BY <1>1, TAlways, PTL

(* A marked connection is on the list of flush_dirty, and when the loop polls no
   live connection has packets that no flush has come to; a flush leaves packets
   behind only where a send was refused. *)
THEOREM AllFlushed == Spec => []NothingUnflushed
<1>1. TInv /\ Drained => NothingUnflushed
  <2> SUFFICES ASSUME TInv, Drained PROVE NothingUnflushed
    OBVIOUS
  <2>1. \A i \in Slots : conns[i].dirty => \E n \in DOMAIN dirty : dirty[n] = i
    BY Zenon DEF TInv, Listed, On
  <2>2. at = "poll" => \A i \in Slots : ~conns[i].dirty /\ ~(Live(conns[i]) /\ conns[i].unsent)
    BY Zenon, Unmarked DEF Settled
  <2> QED
    BY Zenon, <2>1, <2>2 DEF NothingUnflushed, Drained
<1> QED
  BY <1>1, TAlways, DrainedAlways, PTL

(* The next keepalive comes less than the keepalive time and a second after the
   last packet of a quiet connection, as long as every send was taken. *)
THEOREM QuietPinged == Spec => []QuietIsPinged
<1>1. TInv => QuietIsPinged
  BY Zenon DEF TInv, Warm, QuietIsPinged
<1> QED
  BY <1>1, TAlways, PTL

-----------------------------------------------------------------------------
(***************************************************************************)
(* What the samples behind a report are of, for any number of benchmarks,  *)
(* attempts, failures and lost requests: the properties of Sampling follow *)
(* from OwnUnlessLost, whose invariant every step preserves.               *)
(***************************************************************************)

(* The fields of a sampler, a request and a report. *)
LEMMA SamplerFields ==
  \A s \in Sampler :
    /\ s.state \in {"none", "spawned", "running", "ended"} /\ s.stop \in BOOLEAN
    /\ s.start \in Nat /\ s.last \in Nat /\ s.base \in Nat
    /\ s.failures \in 0..(Failures - 1) /\ s.n \in Nat /\ s.skipped \in Nat /\ s.lag \in Int
  BY DEF Sampler

(* The fields of a request to the monitor. *)
LEMMA RequestFields ==
  \A r \in Request :
    /\ r.path \in {"none", "/init", "/ps"} /\ r.attempt \in 0..ATTEMPTS
    /\ r.state \in {"idle", "sent", "answered", "failed"} /\ r.n \in Nat
  BY DEF Request

(* The fields of a sampler's summary. *)
LEMMA SummaryFields ==
  \A r \in Summary :
    /\ r.done \in BOOLEAN /\ r.who \in Machines /\ r.lo \in Nat /\ r.hi \in Nat /\ r.err \in BOOLEAN
  BY DEF Summary

(* They hold when the client starts. *)
LEMMA SampInit == SamplingInit => OwnUnlessLost
<1> SUFFICES ASSUME SamplingInit PROVE OwnUnlessLost
  OBVIOUS
<1>0. "client" \in Machines
  BY Zenon DEF Machines
<1>1. SamplingTypeOK
  <2>0. /\ 0 \in 0..(Failures - 1) /\ 0 \in 0..ATTEMPTS
        /\ 1 \in 1..MaxClock /\ 1 \in 1..Benchmarks
    BY Zenon, SamplingAssumption, NoneOfSome
  <2>1. NoSampler \in Sampler
    BY Zenon, <2>0, NoneYet DEF NoSampler, Sampler
  <2>2. NoRequest \in Request
    BY Zenon, <2>0, NoneYet DEF NoRequest, Request
  <2>3. NoReport \in Summary
    BY Zenon, <1>0, NoneYet DEF NoReport, Summary
  <2>4. 0 \in 0..MaxMishaps
    BY SamplingAssumption
  <2> QED
    BY Zenon, <2>0, <2>1, <2>2, <2>3, <2>4, NoneYet DEF SamplingInit, SamplingTypeOK
<1>2. Intervals
  <2>1. clock = 1 /\ \A m \in Machines : sampler[m] = NoSampler
    BY Zenon DEF SamplingInit
  <2>2. Sound(NoSampler)
    <3>1. 0 <= clock
      BY <2>1
    <3> QED
      BY Zenon, <3>1, NoneYet DEF Sound, NoSampler
  <2>3. NoSampler.state = "none"
    BY Zenon DEF NoSampler
  <2> QED
    BY Zenon, <1>0, <2>1, <2>2, <2>3 DEF Intervals
<1>3. Requests
  BY Zenon DEF SamplingInit, NoRequest, Requests
<1>4. Marks
  <2>1. \A b \in 1..Benchmarks : ~report[b].done
    BY Zenon DEF SamplingInit, NoReport
  <2> QED
    BY Zenon, <2>1 DEF SamplingInit, Marks
<1>5. OwnReports
  BY Zenon DEF SamplingInit, NoReport, OwnReports, HasEarlier
<1> QED
  BY Zenon, <1>1, <1>2, <1>3, <1>4, <1>5 DEF OwnUnlessLost, SampInv

-----------------------------------------------------------------------------
(* The samplers. *)

(* A sampler that may take the place of m's. *)
Follows(s, m) ==
  /\ s \in Sampler /\ Sound(s) /\ s.n >= sampler[m].n
  /\ sampler[m].state # "none" => s.start = sampler[m].start

(* What the rest of the state may count on when the samplers go on. *)
SamplersGoOn ==
  /\ sampler' \in [Machines -> Sampler]
  /\ \A m \in Machines : Sound(sampler[m])'
  /\ \A m \in Machines :
       /\ sampler'[m].n >= sampler[m].n
       /\ sampler[m].state # "none" => sampler'[m].start = sampler[m].start

(* A sampler in the place of m's leaves all of them sound. *)
LEMMA OneReplaced ==
  ASSUME SamplingTypeOK, Intervals, clock' = clock, NEW m \in Machines, NEW s, Follows(s, m),
         sampler' = [sampler EXCEPT ![m] = s]
  PROVE  SamplersGoOn /\ \A x \in Machines \ {m} : sampler'[x] = sampler[x]
<1>1. sampler' \in [Machines -> Sampler]
  BY DEF SamplingTypeOK, Follows
<1>2. \A x \in Machines \ {m} : sampler'[x] = sampler[x]
  BY DEF SamplingTypeOK
<1>3. sampler'[m] = s
  BY DEF SamplingTypeOK
<1>4. ASSUME NEW x \in Machines PROVE Sound(sampler[x])'
  <2>1. CASE x = m
    BY Zenon, <2>1, <1>3 DEF Follows, Sound
  <2>2. CASE x # m
    <3>1. sampler'[x] = sampler[x] /\ Sound(sampler[x])
      BY Zenon, <2>2, <1>2 DEF Intervals
    <3> QED
      BY Zenon, <3>1 DEF Sound
  <2> QED
    BY Zenon, <2>1, <2>2
<1>5. ASSUME NEW x \in Machines
      PROVE  /\ sampler'[x].n >= sampler[x].n
             /\ sampler[x].state # "none" => sampler'[x].start = sampler[x].start
  <2>1. sampler[x].n \in Nat
    BY SamplerFields DEF SamplingTypeOK
  <2> QED
    BY <1>2, <1>3, <2>1 DEF Follows
<1> QED
  BY Zenon, <1>1, <1>2, <1>4, <1>5 DEF SamplersGoOn

(* The samplers go on when nothing happens to them, and when time passes. *)
LEMMA LeftAlone ==
  ASSUME SamplingTypeOK, Intervals, sampler' = sampler, clock' \in {clock, clock + 1}
  PROVE  SamplersGoOn
<1>1. clock \in Nat
  BY SamplingAssumption DEF SamplingTypeOK
<1>2. ASSUME NEW m \in Machines PROVE Sound(sampler[m])'
  <2> DEFINE s == sampler[m]
  <2>1. s \in Sampler /\ Sound(s) /\ sampler'[m] = s
    BY Zenon DEF SamplingTypeOK, Intervals
  <2> HIDE DEF s
  <2>2. s.start <= clock' /\ s.last <= clock' /\ s.base <= clock'
    BY <1>1, <2>1, SamplerFields DEF Sound
  <2> QED
    BY Zenon, <2>1, <2>2 DEF Sound
<1>3. \A m \in Machines : sampler'[m].n >= sampler[m].n
  BY SamplerFields DEF SamplingTypeOK
<1> QED
  BY Zenon, <1>2, <1>3 DEF SamplersGoOn, SamplingTypeOK

(* A thread's step puts a sampler in the place of its own. *)
LEMMA ThreadFollows ==
  ASSUME SamplingTypeOK, Intervals, NEW m \in Machines,
         ThreadBegins(m) \/ Sample(m) \/ SampleFails(m) \/ SamplerStops(m)
  PROVE  /\ \E s : Follows(s, m) /\ sampler' = [sampler EXCEPT ![m] = s]
         /\ ~(m = "client" /\ pc \in {"setup", "init"})
<1> DEFINE r == sampler[m]
<1>1. r \in Sampler /\ Sound(r) /\ clock \in Nat
  BY SamplingAssumption DEF SamplingTypeOK, Intervals
<1>2. r.state \in {"spawned", "running"}
  BY DEF ThreadBegins, Sample, SampleFails, SamplerStops
<1>3. ~(m = "client" /\ pc \in {"setup", "init"})
  BY <1>2 DEF Intervals
<1>4. \E s \in Sampler : /\ Sound(s) /\ s.n >= r.n /\ s.state # "none" /\ s.start = r.start
                         /\ sampler' = [sampler EXCEPT ![m] = s]
  <2>1. CASE ThreadBegins(m)
    <3> DEFINE s == [r EXCEPT !.state = "running", !.last = clock]
    <3>1. sampler' = [sampler EXCEPT ![m] = s]
      BY Zenon, <2>1 DEF ThreadBegins, SamplingTypeOK
    <3>2. r.state = "spawned"
      BY Zenon, <2>1 DEF ThreadBegins
    <3> HIDE DEF r
    <3>3. s \in Sampler
      BY Zenon, <1>1 DEF Sampler
    <3>5. s.n = r.n /\ s.state = "running" /\ s.start = r.start /\ r.n \in Nat
      BY <1>1 DEF Sampler
    <3>6. s.n >= r.n /\ s.state # "none" /\ s.start = r.start
      BY <3>5
    <3>4. Sound(s)
      BY <1>1, <3>2 DEF Sampler, Sound
    <3> QED
      BY Zenon, <3>1, <3>3, <3>4, <3>6 DEF r
  <2>2. CASE Sample(m)
    <3> DEFINE s == [r EXCEPT !.failures = 0, !.n = @ + 1, !.base = clock, !.last = clock,
                              !.skipped = r.failures, !.lag = r.last - r.base]
    <3>1. sampler' = [sampler EXCEPT ![m] = s]
      BY Zenon, <2>2 DEF Sample
    <3>2. r.state = "running"
      BY Zenon, <2>2 DEF Sample
    <3> HIDE DEF r
    <3>7. r.n + 1 \in Nat /\ r.failures \in Nat /\ r.last - r.base \in Int /\ 0 \in 0..(Failures - 1)
      BY <1>1, SamplerFields, SamplingAssumption
    <3>3. s \in Sampler
      BY Zenon, <1>1, <3>7 DEF Sampler
    <3>5. s.n = r.n + 1 /\ s.state = r.state /\ s.start = r.start
      BY Zenon, <1>1 DEF Sampler
    <3>6. s.n >= r.n /\ s.state # "none" /\ s.start = r.start
      BY <1>1, <3>2, <3>5, SamplerFields
    <3>4. Sound(s)
      BY <1>1, <3>2 DEF Sampler, Sound
    <3> QED
      BY Zenon, <3>1, <3>3, <3>4, <3>6 DEF r
  <2>3. CASE SampleFails(m)
    <3> DEFINE s == IF r.failures + 1 >= Failures THEN [r EXCEPT !.state = "ended"]
                    ELSE [r EXCEPT !.failures = @ + 1, !.last = clock]
    <3>1. sampler' = [sampler EXCEPT ![m] = s]
      BY Zenon, <2>3 DEF SampleFails
    <3>2. r.state = "running" /\ clock >= r.last + Interval
      BY Zenon, <2>3 DEF SampleFails, Late
    <3> HIDE DEF r
    <3>7. r.failures + 1 < Failures => r.failures + 1 \in 0..(Failures - 1)
      BY <1>1, SamplerFields, SamplingAssumption
    <3>8. r.failures + 1 >= Failures \/ r.failures + 1 < Failures
      BY <1>1, SamplerFields, SamplingAssumption
    <3>3. s \in Sampler
      BY Zenon, <1>1, <3>7, <3>8 DEF Sampler
    <3>5. s.n = r.n /\ s.state \in {r.state, "ended"} /\ s.start = r.start
      BY Zenon, <1>1 DEF Sampler
    <3>6. s.n >= r.n /\ s.state # "none" /\ s.start = r.start
      BY <1>1, <3>2, <3>5, SamplerFields
    <3>4. Sound(s)
      BY <1>1, <3>2, SamplingAssumption DEF Sampler, Sound
    <3> QED
      BY Zenon, <3>1, <3>3, <3>4, <3>6 DEF r
  <2>4. CASE SamplerStops(m)
    <3> DEFINE s == [r EXCEPT !.state = "ended"]
    <3>1. sampler' = [sampler EXCEPT ![m] = s]
      BY Zenon, <2>4 DEF SamplerStops
    <3> HIDE DEF r
    <3>2. s \in Sampler /\ s.n >= r.n /\ s.state # "none" /\ s.start = r.start
      BY <1>1 DEF Sampler
    <3>3. Sound(s)
      BY <1>1 DEF Sampler, Sound
    <3> QED
      BY Zenon, <3>1, <3>2, <3>3 DEF r
  <2> QED
    BY Zenon, <2>1, <2>2, <2>3, <2>4
<1> QED
  BY Zenon, <1>3, <1>4 DEF Follows

(* Sampler::start, where there was none. *)
LEMMA StartFollows ==
  ASSUME SamplingTypeOK, NEW m \in Machines, sampler[m].state = "none", Intervals
  PROVE  Follows(Started(sampler[m]), m)
<1> DEFINE s == Started(sampler[m])
<1>1. clock \in Nat
  BY SamplingAssumption DEF SamplingTypeOK
<1>2. 0 \in 0..(Failures - 1) /\ 0 \in Nat /\ 0 \in Int
  BY SamplingAssumption
<1>3. s \in Sampler
  BY Zenon, <1>1, <1>2 DEF Started, NoSampler, Sampler
<1>4. s.start = clock /\ s.last = 0 /\ s.base = clock /\ s.n = 0
  BY Zenon DEF Started, NoSampler
<1>5. sampler[m].n = 0
  BY Zenon DEF Intervals, Sound
<1> QED
  BY Zenon, <1>1, <1>3, <1>4, <1>5, NotBelow, NoneYet DEF Follows, Sound

(* An /init, whenever it is handled. *)
LEMMA InitFollows ==
  ASSUME SamplingTypeOK, Intervals, NEW s \in InitOutcomes(sampler["server"])
  PROVE  Follows(s, "server")
<1>0. "server" \in Machines
  BY DEF Machines
<1>1. CASE s = sampler["server"]
  <2>1. s \in Sampler
    BY <1>0, <1>1 DEF SamplingTypeOK
  <2>2. s.n >= s.n
    BY <2>1, SamplerFields
  <2> QED
    BY Zenon, <1>0, <1>1, <2>1, <2>2 DEF Follows, Intervals
<1>2. CASE s # sampler["server"]
  BY Zenon, <1>0, <1>2, StartFollows DEF InitOutcomes
<1> QED
  BY Zenon, <1>1, <1>2

-----------------------------------------------------------------------------
(* The steps. *)

(* A control request's records. *)
LEMMA RequestsIn ==
  /\ NoRequest \in Request
  /\ \A path \in {"/init", "/ps"}, k \in 1..ATTEMPTS :
       [NoRequest EXCEPT !.path = path, !.attempt = k, !.state = "sent"] \in Request
  /\ \A r \in Request, st \in {"answered", "failed"} : [r EXCEPT !.state = st] \in Request
  /\ \A r \in Request, k \in Nat : [r EXCEPT !.state = "answered", !.n = k] \in Request
<1>1. 0 \in 0..ATTEMPTS /\ 0 \in Nat /\ 1..ATTEMPTS \subseteq 0..ATTEMPTS
  BY SamplingAssumption
<1> QED
  BY Zenon, <1>1 DEF Request, NoRequest

(* The server's samples from before a mark stay before it. *)
LEMMA CountStays ==
  ASSUME SamplingTypeOK, SamplersGoOn, sampler["server"].n >= before[bench]["server"]
  PROVE  sampler'["server"].n >= before[bench]["server"]
<1>1. "server" \in Machines
  BY DEF Machines
<1>2. sampler'["server"] \in Sampler /\ sampler["server"] \in Sampler
  BY <1>1 DEF SamplersGoOn, SamplingTypeOK
<1>3. sampler'["server"].n \in Nat /\ sampler["server"].n \in Nat
  BY Zenon, <1>2, SamplerFields
<1>4. before[bench]["server"] \in Nat
  BY Zenon, <1>1 DEF SamplingTypeOK
<1>5. sampler'["server"].n >= sampler["server"].n
  BY Zenon, <1>1 DEF SamplersGoOn
<1> QED
  BY Zenon, <1>3, <1>4, <1>5, StillAbove

(* A step of a sampler's thread. *)
LEMMA ThreadStep ==
  ASSUME OwnUnlessLost, NEW m \in Machines,
         ThreadBegins(m) \/ Sample(m) \/ SampleFails(m) \/ SamplerStops(m)
  PROVE  OwnUnlessLost' /\ SamplersGoOn
<1> USE DEF OwnUnlessLost, SampInv
<1>1. /\ UNCHANGED <<clock, main, request, stray>>
      /\ mishaps' \in 0..MaxMishaps
  BY SamplingAssumption DEF ThreadBegins, Sample, SampleFails, SamplerStops, Fault, SamplingTypeOK
<1>2. PICK s : Follows(s, m) /\ sampler' = [sampler EXCEPT ![m] = s]
  BY Zenon, ThreadFollows
<1>3. SamplersGoOn /\ \A x \in Machines \ {m} : sampler'[x] = sampler[x]
  BY Zenon, <1>1, <1>2, OneReplaced
<1>4. SamplingTypeOK'
  BY Zenon, <1>1, <1>3 DEF SamplingTypeOK, SamplersGoOn, main
<1>5. Intervals'
  <2>1. ~(m = "client" /\ pc \in {"setup", "init"})
    BY Zenon, ThreadFollows
  <2> QED
    BY Zenon, <1>1, <1>3, <2>1 DEF Intervals, SamplersGoOn, Machines, main
<1>6. Requests'
  BY Zenon, <1>1 DEF Requests, main
<1>7. Marks'
  BY Zenon, <1>1, <1>3, CountStays DEF Marks, main
<1>8. OwnReports'
  BY Zenon, <1>1 DEF OwnReports, HasEarlier, main
<1> QED
  BY Zenon, <1>3, <1>4, <1>5, <1>6, <1>7, <1>8

(* A step of the server's control routes. *)
LEMMA HandleStep ==
  ASSUME OwnUnlessLost, Handle
  PROVE  OwnUnlessLost' /\ SamplersGoOn
<1> USE DEF OwnUnlessLost, SampInv
<1>0. "server" \in Machines /\ "client" \in Machines /\ "client" # "server"
  BY DEF Machines
<1>1. UNCHANGED <<clock, mishaps, main>>
  BY Zenon DEF Handle, HandleInit, HandleStray, HandlePs
<1>2. SamplersGoOn /\ sampler'["client"] = sampler["client"]
  <2>1. CASE HandlePs
    BY Zenon, <2>1, <1>1, LeftAlone DEF HandlePs
  <2>2. CASE HandleInit \/ HandleStray
    <3>1. PICK s \in InitOutcomes(sampler["server"]) : sampler' = [sampler EXCEPT !["server"] = s]
      BY Zenon, <2>2 DEF HandleInit, HandleStray
    <3>2. Follows(s, "server")
      BY Zenon, InitFollows
    <3>3. SamplersGoOn /\ \A x \in Machines \ {"server"} : sampler'[x] = sampler[x]
      BY Zenon, <1>0, <1>1, <3>1, <3>2, OneReplaced
    <3> QED
      BY Zenon, <1>0, <3>3
  <2> QED
    BY Zenon, <2>1, <2>2 DEF Handle
<1>3. /\ request' \in Request
      /\ request'.path = request.path /\ request'.attempt = request.attempt
      /\ request' = request \/ (request.state = "sent" /\ request'.state = "answered")
      /\ request.path = "/ps" /\ request' # request => request'.n = sampler["server"].n
  <2>1. CASE HandleInit
    BY Zenon, <2>1, RequestsIn DEF HandleInit, SamplingTypeOK, Request
  <2>2. CASE HandleStray
    BY Zenon, <2>2 DEF HandleStray, SamplingTypeOK
  <2>3. CASE HandlePs
    <3>1. sampler["server"].n \in Nat
      BY <1>0, SamplerFields DEF SamplingTypeOK
    <3>2. request' = [request EXCEPT !.state = "answered", !.n = sampler["server"].n]
          /\ request.state = "sent" /\ request \in Request
      BY Zenon, <2>3 DEF HandlePs, SamplingTypeOK
    <3>3. request' \in Request
      BY Zenon, <3>1, <3>2, RequestsIn
    <3> QED
      BY Zenon, <3>2, <3>3 DEF Request
  <2> QED
    BY Zenon, <2>1, <2>2, <2>3 DEF Handle
<1>4. stray' \in 0..ATTEMPTS /\ stray' <= stray
  BY SamplingAssumption DEF Handle, HandleInit, HandleStray, HandlePs, SamplingTypeOK
<1>5. SamplingTypeOK'
  BY Zenon, <1>1, <1>2, <1>3, <1>4 DEF SamplingTypeOK, SamplersGoOn, main
<1>6. Intervals'
  BY Zenon, <1>1, <1>2 DEF Intervals, SamplersGoOn, main
<1>7. Requests'
  <2>1. pc = "setup" => stray' = 0
    <3>1. stray' \in Nat
      BY Zenon, <1>4, SamplingAssumption, IntervalInNat
    <3> QED
      BY Zenon, <1>4, <3>1, NotAboveZero DEF Requests
  <2>2. stray < request.attempt => stray' < request'.attempt
    BY <1>3, <1>4, RequestFields DEF SamplingTypeOK
  <2> QED
    BY Zenon, <1>1, <1>3, <2>1, <2>2 DEF Requests, main
<1>8. Marks'
  BY Zenon, <1>1, <1>2, <1>3, CountStays DEF Marks, Requests, main
<1>9. OwnReports'
  BY Zenon, <1>1 DEF OwnReports, HasEarlier, main
<1> QED
  BY Zenon, <1>2, <1>5, <1>6, <1>7, <1>8, <1>9

(* An attempt of a control request that fails, or whose reply is no use. *)
LEMMA AttemptStep ==
  ASSUME OwnUnlessLost, AttemptFails \/ ReplyRejected
  PROVE  OwnUnlessLost' /\ SamplersGoOn
<1> USE DEF OwnUnlessLost, SampInv
<1>1. UNCHANGED <<clock, sampler, main>> /\ mishaps' \in 0..MaxMishaps
  BY SamplingAssumption DEF AttemptFails, ReplyRejected, Fault, SamplingTypeOK
<1>2. SamplersGoOn
  BY Zenon, <1>1, LeftAlone
<1>3. request.attempt \in 0..ATTEMPTS /\ request.path \in {"none", "/init", "/ps"}
      /\ request.state \in {"sent", "answered"} /\ request.path # "none"
  BY RequestFields DEF AttemptFails, ReplyRejected, SamplingTypeOK, Requests
<1>4. /\ request' \in Request /\ request'.path = request.path
      /\ \/ request'.attempt = request.attempt + 1 /\ request.attempt < ATTEMPTS
            /\ request'.state = "sent"
         \/ request'.attempt = request.attempt /\ request'.state = "failed"
  <2>1. CASE AttemptFails /\ request.attempt < ATTEMPTS
    <3>1. request.attempt + 1 \in 1..ATTEMPTS
      BY <1>3, <2>1, SamplingAssumption
    <3>2. request' = [NoRequest EXCEPT !.path = request.path, !.attempt = request.attempt + 1,
                                       !.state = "sent"]
      BY Zenon, <2>1 DEF AttemptFails, NextAttempt
    <3> QED
      BY Zenon, <1>3, <2>1, <3>1, <3>2, RequestsIn DEF NoRequest
  <2>2. CASE request' = [request EXCEPT !.state = "failed"]
    BY Zenon, <1>3, <2>2, RequestsIn DEF SamplingTypeOK, Request
  <2> QED
    BY Zenon, <2>1, <2>2 DEF AttemptFails, NextAttempt, ReplyRejected
<1>5. /\ stray' \in 0..ATTEMPTS
      /\ pc = "setup" => stray' = 0
      /\ pc = "init" /\ request'.state = "sent" => stray' < request'.attempt
  <2>1. stray' \in {stray, stray + 1}
        /\ (stray' # stray => request.path = "/init" /\ request.state = "sent")
    BY Zenon DEF AttemptFails, ReplyRejected
  <2>2. request.path = "/init" => pc = "init"
    BY Zenon DEF Requests, SamplingTypeOK
  <2>3. stray \in 0..ATTEMPTS /\ (pc = "setup" => stray = 0)
        /\ (pc = "init" => stray < request.attempt)
    BY Zenon, <1>3 DEF Requests, SamplingTypeOK
  <2> QED
    BY <1>3, <1>4, <2>1, <2>2, <2>3, SamplingAssumption
<1>6. SamplingTypeOK'
  BY Zenon, <1>1, <1>4, <1>5 DEF SamplingTypeOK, main
<1>7. Intervals'
  BY Zenon, <1>1, <1>2 DEF Intervals, SamplersGoOn, main
<1>8. Requests'
  <2>1. request.attempt > 0 => request'.attempt > 0
    BY <1>3, <1>4
  <2> QED
    BY Zenon, <1>1, <1>3, <1>4, <1>5, <2>1 DEF Requests, main
<1>9. Marks'
  BY Zenon, <1>1, <1>4 DEF Marks, main
<1>10. OwnReports'
  BY Zenon, <1>1 DEF OwnReports, HasEarlier, main
<1> QED
  BY Zenon, <1>2, <1>6, <1>7, <1>8, <1>9, <1>10

(* ps::setup. *)
LEMMA SetupStep ==
  ASSUME OwnUnlessLost, SetupLocal \/ SetupRemote \/ InitDone
  PROVE  OwnUnlessLost' /\ SamplersGoOn
<1> USE DEF OwnUnlessLost, SampInv
<1>0. "client" \in Machines /\ "server" \in Machines /\ 1 \in 1..ATTEMPTS
  BY SamplingAssumption DEF Machines
<1>1. /\ UNCHANGED <<clock, mishaps, want_local, bench, mark, lost, before, report, stray>>
      /\ pc \in {"setup", "init"} /\ bench = 1 /\ \A b \in 1..Benchmarks : ~report[b].done
  BY Zenon DEF SetupLocal, SetupRemote, InitDone, Marks
<1>2. sampler' = sampler \/ sampler' = [sampler EXCEPT !["client"] = Started(sampler["client"])]
  BY Zenon DEF SetupLocal, SetupRemote, InitDone
<1>3. SamplersGoOn
  <2>1. CASE sampler' = sampler
    BY Zenon, <1>1, <2>1, LeftAlone
  <2>2. CASE sampler' = [sampler EXCEPT !["client"] = Started(sampler["client"])]
    <3>1. Follows(Started(sampler["client"]), "client")
      BY Zenon, <1>0, <1>1, StartFollows DEF Intervals
    <3> QED
      BY Zenon, <1>0, <1>1, <2>2, <3>1, OneReplaced
  <2> QED
    BY Zenon, <1>2, <2>1, <2>2
<1>4. CASE SetupLocal
  <2>1. SamplingTypeOK'
    BY Zenon, <1>1, <1>3, <1>4 DEF SetupLocal, SamplingTypeOK, SamplersGoOn
  <2>2. Intervals'
    BY Zenon, <1>3, <1>4 DEF SetupLocal, Intervals, SamplersGoOn
  <2>3. Requests'
    BY Zenon, <1>4 DEF SetupLocal, Requests
  <2>4. Marks'
    BY Zenon, <1>1, <1>4 DEF SetupLocal, Marks
  <2>5. OwnReports'
    BY Zenon, <1>1 DEF OwnReports, HasEarlier
  <2> QED
    BY Zenon, <1>3, <2>1, <2>2, <2>3, <2>4, <2>5
<1>5. CASE SetupRemote
  <2>1. request' = [NoRequest EXCEPT !.path = "/init", !.attempt = 1, !.state = "sent"]
    BY Zenon, <1>5 DEF SetupRemote, Ask
  <2>2. request' \in Request /\ request'.path = "/init" /\ request'.attempt = 1
    BY Zenon, <1>0, <2>1, RequestsIn DEF NoRequest
  <2>3. SamplingTypeOK'
    BY Zenon, <1>1, <1>3, <1>5, <2>2 DEF SetupRemote, SamplingTypeOK, SamplersGoOn
  <2>4. Intervals'
    BY Zenon, <1>3, <1>5 DEF SetupRemote, Intervals, SamplersGoOn
  <2>5. Requests'
    <3>1. 0 < 1 /\ 1 > 0
      OBVIOUS
    <3> QED
      BY Zenon, <1>1, <1>5, <2>2, <3>1 DEF SetupRemote, Requests
  <2>6. Marks'
    BY Zenon, <1>1, <1>5 DEF SetupRemote, Marks
  <2>7. OwnReports'
    BY Zenon, <1>1 DEF OwnReports, HasEarlier
  <2> QED
    BY Zenon, <1>3, <2>3, <2>4, <2>5, <2>6, <2>7
<1>6. CASE InitDone
  <2>1. /\ pc' = "mark" /\ request' = NoRequest /\ request' \in Request
        /\ source' \in {"remote", "fallback"}
    BY Zenon, <1>6, RequestsIn DEF InitDone
  <2>2. SamplingTypeOK'
    BY Zenon, <1>1, <1>3, <2>1 DEF SamplingTypeOK, SamplersGoOn
  <2>3. Intervals'
    BY Zenon, <1>3, <2>1 DEF Intervals, SamplersGoOn
  <2>4. Requests'
    BY Zenon, <2>1 DEF Requests, NoRequest
  <2>5. Marks'
    BY Zenon, <1>1, <2>1 DEF Marks
  <2>6. OwnReports'
    BY Zenon, <1>1 DEF OwnReports, HasEarlier
  <2> QED
    BY Zenon, <1>3, <2>2, <2>3, <2>4, <2>5, <2>6
<1> QED
  BY Zenon, <1>4, <1>5, <1>6

(* The mark of a benchmark, and the benchmark. *)
LEMMA MarkStep ==
  ASSUME OwnUnlessLost, MarkLocal \/ MarkAsk \/ MarkDone \/ Run
  PROVE  OwnUnlessLost' /\ SamplersGoOn
<1> USE DEF OwnUnlessLost, SampInv
<1>0. "client" \in Machines /\ "server" \in Machines /\ 1 \in 1..ATTEMPTS
  BY SamplingAssumption DEF Machines
<1>1. /\ UNCHANGED <<clock, mishaps, sampler, want_local, source, bench, report, stray>>
      /\ pc \in {"mark", "marking", "run"} /\ pc' \in {"marking", "run", "stats"}
      /\ bench \in 1..Benchmarks /\ ~report[bench].done
  <2>1. pc \in {"mark", "marking", "run"} /\ pc' \in {"marking", "run", "stats"}
    BY Zenon DEF MarkLocal, MarkAsk, MarkDone, Run
  <2>2. UNCHANGED <<clock, mishaps, sampler, want_local, source, bench, report, stray>>
    BY Zenon DEF MarkLocal, MarkAsk, MarkDone, Run
  <2>3. Benchmarks \in Nat /\ bench \in 1..Benchmarks
    BY SamplingAssumption DEF SamplingTypeOK
  <2>4. bench \in bench..Benchmarks
    BY <2>3
  <2>5. ~report[bench].done
    BY Zenon, <2>1, <2>4 DEF Marks
  <2> QED
    BY Zenon, <2>1, <2>2, <2>3, <2>5
<1>2. SamplersGoOn
  BY Zenon, <1>1, LeftAlone
<1>3. /\ mark' \in [1..Benchmarks -> Nat] /\ lost' \in [1..Benchmarks -> BOOLEAN]
      /\ before' \in [1..Benchmarks -> [Machines -> Nat]]
      /\ \A b \in (1..Benchmarks) \ {bench} : before'[b] = before[b] /\ lost'[b] = lost[b]
      /\ request' \in Request
  <2>1. sampler["client"].n \in Nat /\ Counts \in [Machines -> Nat]
    BY Zenon, <1>0, SamplerFields DEF SamplingTypeOK, Counts
  <2>2. CASE MarkLocal
    BY Zenon, <1>1, <2>1, <2>2 DEF MarkLocal, SamplingTypeOK
  <2>3. CASE MarkAsk
    <3>1. request' \in Request
      BY Zenon, <1>0, <2>3, RequestsIn DEF MarkAsk, Ask
    <3> QED
      BY <1>1, <2>1, <2>3, <3>1 DEF MarkAsk, SamplingTypeOK
  <2>4. CASE MarkDone
    <3>1. request' \in Request /\ request.n \in Nat /\ GivenUp \in BOOLEAN
      BY Zenon, <2>4, RequestsIn, RequestFields DEF MarkDone, GivenUp, SamplingTypeOK
    <3> QED
      BY <1>1, <2>4, <3>1 DEF MarkDone, SamplingTypeOK
  <2>5. CASE Run
    BY Zenon, <2>5 DEF Run, SamplingTypeOK
  <2> QED
    BY Zenon, <2>2, <2>3, <2>4, <2>5
<1>4. SamplingTypeOK'
  BY Zenon, <1>1, <1>3 DEF SamplingTypeOK
<1>5. Intervals'
  BY Zenon, <1>1, <1>2 DEF Intervals, SamplersGoOn
<1>6. Requests'
  <2>1. CASE MarkLocal
    BY Zenon, <2>1 DEF MarkLocal, Requests
  <2>2. CASE MarkAsk
    BY Zenon, <2>2 DEF MarkAsk, Ask, NoRequest, Requests
  <2>3. CASE MarkDone
    BY Zenon, <2>3 DEF MarkDone, NoRequest, Requests
  <2>4. CASE Run
    BY Zenon, <2>4 DEF Run, Requests
  <2> QED
    BY Zenon, <2>1, <2>2, <2>3, <2>4
<1>7. Marks'
  <2>1. CASE MarkLocal
    BY Zenon, <1>0, <1>1, <2>1 DEF MarkLocal, Local, Marks, SamplingTypeOK, Counts
  <2>2. CASE MarkAsk
    <3>1. source = "remote"
      BY Zenon, <1>1, <2>2 DEF MarkAsk, Local, Marks, SamplingTypeOK
    <3>2. sampler["server"].n \in Nat /\ before'[bench]["server"] = sampler["server"].n
      BY <1>0, <1>1, <2>2, SamplerFields DEF MarkAsk, SamplingTypeOK, Counts
    <3>3. request'.state = "sent"
      BY Zenon, <2>2 DEF MarkAsk, Ask, NoRequest
    <3>4. pc' = "marking"
      BY Zenon, <2>2 DEF MarkAsk
    <3>5. sampler'["server"].n >= before'[bench]["server"]
      BY Zenon, <1>1, <3>2, NotBelow
    <3> QED
      BY Zenon, <1>1, <2>2, <3>1, <3>3, <3>4, <3>5 DEF MarkAsk, Marks
  <2>3. CASE MarkDone
    BY Zenon, <1>1, <2>3 DEF MarkDone, Marks, SamplingTypeOK, Answered, GivenUp
  <2>4. CASE Run
    BY Zenon, <1>1, <2>4 DEF Run, Marks
  <2> QED
    BY Zenon, <2>1, <2>2, <2>3, <2>4
<1>8. OwnReports'
  BY Zenon, <1>1, <1>3 DEF OwnReports, HasEarlier
<1> QED
  BY Zenon, <1>2, <1>4, <1>5, <1>6, <1>7, <1>8

(* What a summary of the samples since one says: whose they are, and that there
   is an error when there is none; otherwise it starts at the one asked for. *)
SummaryFrom(r, m, lo) ==
  /\ r \in Summary /\ r.done /\ r.who = m
  /\ r.lo = r.hi => r.err
  /\ r.lo < r.hi => r.lo = lo

(* What a report is made from. *)
LEMMA ReportIn ==
  ASSUME NEW m \in Machines, NEW lo \in Nat, NEW n \in Nat,
         NEW r \in {Report(m, lo, n, FALSE), Report(m, lo, n, TRUE)}
  PROVE  SummaryFrom(r, m, lo)
<1>0. PICK err \in BOOLEAN : r = Report(m, lo, n, err)
  BY Zenon
<1> DEFINE from == IF lo < n THEN lo ELSE n
           e == err \/ from = n
<1>1. r = [done |-> TRUE, who |-> m, lo |-> from, hi |-> n, err |-> e]
  BY Zenon, <1>0 DEF Report
<1>2. from \in Nat /\ e \in BOOLEAN /\ (from < n => from = lo) /\ (from = n => e)
  BY Zenon, TheLesser
<1> HIDE DEF from, e
<1>3. r \in Summary
  BY Zenon, <1>1, <1>2 DEF Summary
<1>4. r.done /\ r.who = m /\ r.lo = from /\ r.hi = n /\ r.err = e
  BY <1>1
<1> QED
  BY Zenon, <1>2, <1>3, <1>4 DEF SummaryFrom

(* stats_since, and the end. *)
LEMMA StatsStep ==
  ASSUME OwnUnlessLost, StatsLocal \/ StatsAsk \/ StatsDone \/ Drop \/ Join
  PROVE  OwnUnlessLost' /\ SamplersGoOn
<1> USE DEF OwnUnlessLost, SampInv
<1>0. "client" \in Machines /\ "server" \in Machines /\ 1 \in 1..ATTEMPTS /\ 0 \in Nat
  BY SamplingAssumption DEF Machines
<1>1. /\ UNCHANGED <<clock, mishaps, want_local, source, mark, lost, before, stray>>
      /\ pc \in {"stats", "asking", "drop", "join"}
  BY Zenon DEF StatsLocal, StatsAsk, StatsDone, Drop, Join
<1>2. CASE StatsLocal \/ StatsDone
  <2>1. sampler' = sampler /\ SamplersGoOn
    BY Zenon, <1>1, <1>2, LeftAlone DEF StatsLocal, StatsDone
  <2>2. request' \in Request /\ request'.path = "none" /\ request'.state = "idle"
    <3>1. CASE StatsLocal
      <4>1. pc = "stats" /\ request' = request
        BY Zenon, <3>1 DEF StatsLocal
      <4> QED
        BY <4>1 DEF SamplingTypeOK, Requests
    <3>2. CASE StatsDone
      BY Zenon, <3>2, RequestsIn DEF StatsDone, NoRequest
    <3> QED
      BY Zenon, <1>2, <3>1, <3>2
  <2>3. PICK r \in Summary :
          /\ report' = [report EXCEPT ![bench] = r]
          /\ r.lo = r.hi => r.err
          /\ r.lo < r.hi /\ r.lo < before[bench][r.who] =>
               lost[bench] \/ (source = "fallback" /\ r.who = "server")
    <3>1. mark[bench] \in Nat /\ before[bench]["server"] \in Nat /\ before[bench]["client"] \in Nat
      BY <1>0 DEF SamplingTypeOK
    <3>2. CASE StatsLocal
      <4> DEFINE r == Report("client", mark[bench], sampler["client"].n, FALSE)
      <4>1. sampler["client"].n \in Nat
        BY <1>0, SamplerFields DEF SamplingTypeOK
      <4>2. r \in Summary /\ r.who = "client" /\ (r.lo = r.hi => r.err)
            /\ (r.lo < r.hi => r.lo = mark[bench])
        <5>1. r \in {Report("client", mark[bench], sampler["client"].n, FALSE),
                    Report("client", mark[bench], sampler["client"].n, TRUE)}
          OBVIOUS
        <5> HIDE DEF r
        <5>2. SummaryFrom(r, "client", mark[bench])
          BY Zenon, <1>0, <3>1, <4>1, <5>1, ReportIn
        <5> QED
          BY Zenon, <5>2 DEF SummaryFrom
      <4>3. mark[bench] = before[bench]["client"]
        <5>1. pc = "stats" /\ source # "remote"
          BY Zenon, <3>2 DEF StatsLocal, Local
        <5> QED
          BY Zenon, <5>1 DEF Marks
      <4>4. report' = [report EXCEPT ![bench] = r]
        BY Zenon, <3>2 DEF StatsLocal
      <4> HIDE DEF r
      <4>5. ~(r.lo < r.hi /\ r.lo < before[bench][r.who])
        BY <3>1, <4>2, <4>3
      <4> QED
        BY Zenon, <4>2, <4>4, <4>5
    <3>3. CASE StatsDone
      <4> DEFINE r == IF Answered THEN Report("server", StatsMark(bench), request.n, FALSE)
                      ELSE Report("server", 0, 0, TRUE)
      <4>1. request.n \in Nat /\ StatsMark(bench) \in Nat
        BY <3>1, RequestFields DEF SamplingTypeOK, StatsMark
      <4>2. r \in Summary /\ r.who = "server" /\ (r.lo = r.hi => r.err)
            /\ (r.lo < r.hi => r.lo = StatsMark(bench) \/ (~Answered /\ r.lo = 0))
        <5>1. CASE Answered
          <6>1. r \in {Report("server", StatsMark(bench), request.n, FALSE),
                      Report("server", StatsMark(bench), request.n, TRUE)}
            BY <5>1
          <6> HIDE DEF r
          <6>2. SummaryFrom(r, "server", StatsMark(bench))
            BY Zenon, <1>0, <4>1, <6>1, ReportIn
          <6> QED
            BY Zenon, <6>2 DEF SummaryFrom
        <5>2. CASE ~Answered
          <6>1. r \in {Report("server", 0, 0, FALSE), Report("server", 0, 0, TRUE)}
            BY <5>2
          <6> HIDE DEF r
          <6>2. SummaryFrom(r, "server", 0)
            BY Zenon, <1>0, <6>1, ReportIn
          <6> QED
            BY Zenon, <6>2, <5>2 DEF SummaryFrom
        <5> QED
          BY Zenon, <5>1, <5>2
      <4>3. ~Answered => r.lo = r.hi
        BY Zenon DEF Report
      <4>4. report' = [report EXCEPT ![bench] = r]
        BY Zenon, <3>3 DEF StatsDone
      <4> HIDE DEF r
      <4>5. ASSUME r.lo < r.hi, r.lo < before[bench][r.who]
            PROVE  lost[bench] \/ source = "fallback"
        <5>1. Answered
          BY Zenon, <4>2, <4>3, <4>5, SummaryFields, NotBelow
        <5>2. r.lo = StatsMark(bench)
          BY Zenon, <4>2, <4>5, <5>1
        <5>3. source \in {"fallback", "remote"}
          BY Zenon, <3>3 DEF StatsDone, Marks, SamplingTypeOK
        <5>4. SUFFICES ASSUME source = "remote", ~lost[bench] PROVE FALSE
          BY Zenon, <5>3
        <5>5. mark[bench] >= before[bench]["server"]
          BY Zenon, <3>3, <5>4 DEF StatsDone, Marks
        <5>6. r.lo = mark[bench] /\ r.who = "server"
          BY Zenon, <4>2, <5>2, <5>4 DEF StatsMark
        <5> QED
          BY Zenon, <3>1, <4>5, <5>5, <5>6, NotBelow
      <4> QED
        BY Zenon, <4>2, <4>4, <4>5
    <3> QED
      BY Zenon, <1>2, <3>2, <3>3
  <2>4. /\ bench \in 1..Benchmarks /\ bench' \in 1..Benchmarks /\ pc' \in {"mark", "drop"}
        /\ pc' = "mark" => bench' = bench + 1
    <3>1. NextBenchmark
      BY Zenon, <1>2 DEF StatsLocal, StatsDone
    <3>2. bench \in 1..Benchmarks
      BY Zenon DEF SamplingTypeOK
    <3> QED
      BY <3>1, <3>2, SamplingAssumption DEF NextBenchmark
  <2>5. report' \in [1..Benchmarks -> Summary] /\ report'[bench] = r
        /\ \A b \in (1..Benchmarks) \ {bench} : report'[b] = report[b]
    BY <2>3, <2>4 DEF SamplingTypeOK
  <2>6. SamplingTypeOK'
    BY Zenon, <1>1, <2>1, <2>2, <2>4, <2>5 DEF SamplingTypeOK
  <2>7. Intervals'
    BY Zenon, <1>1, <2>1, <2>4 DEF Intervals, SamplersGoOn
  <2>8. Requests'
    BY Zenon, <2>2, <2>4 DEF Requests
  <2>9. Marks'
    <3>1. ASSUME pc' = "mark", NEW b \in bench'..Benchmarks PROVE ~report'[b].done
      <4>1. b \in bench..Benchmarks /\ b # bench /\ b \in 1..Benchmarks
        BY <2>4, <3>1, SamplingAssumption
      <4> QED
        <5>1. pc \in {"stats", "asking"}
          BY Zenon, <1>2 DEF StatsLocal, StatsDone
        <5>2. ~report[b].done
          BY Zenon, <4>1, <5>1 DEF Marks
        <5> QED
          BY Zenon, <2>5, <4>1, <5>2
    <3> QED
      BY Zenon, <1>1, <2>4, <3>1 DEF Marks
  <2>10. OwnReports'
    <3> SUFFICES ASSUME NEW b \in 1..Benchmarks
                 PROVE  /\ HasEarlier(b)' =>
                             lost'[b] \/ (source' = "fallback" /\ report'[b].who = "server")
                        /\ report'[b].done /\ report'[b].lo = report'[b].hi => report'[b].err
      BY Zenon DEF OwnReports
    <3>1. CASE b = bench
      BY Zenon, <1>1, <2>3, <2>5, <3>1 DEF HasEarlier
    <3>2. CASE b # bench
      BY Zenon, <1>1, <2>5, <3>2 DEF HasEarlier, OwnReports
    <3> QED
      BY Zenon, <3>1, <3>2
  <2> QED
    BY Zenon, <2>1, <2>6, <2>7, <2>8, <2>9, <2>10
<1>3. CASE StatsAsk
  <2>1. SamplersGoOn /\ UNCHANGED <<sampler, bench, report>> /\ pc' = "asking" /\ pc = "stats"
    BY Zenon, <1>1, <1>3, LeftAlone DEF StatsAsk
  <2>2. request' \in Request /\ request'.path = "/ps"
    BY Zenon, <1>0, <1>3, RequestsIn DEF StatsAsk, Ask, NoRequest
  <2>3. SamplingTypeOK'
    BY Zenon, <1>1, <2>1, <2>2 DEF SamplingTypeOK
  <2>4. Intervals'
    BY Zenon, <1>1, <2>1 DEF Intervals, SamplersGoOn
  <2>5. Requests'
    BY Zenon, <2>1, <2>2 DEF Requests
  <2>6. Marks'
    BY Zenon, <1>1, <1>3, <2>1 DEF Marks, StatsAsk
  <2>7. OwnReports'
    BY Zenon, <1>1, <2>1 DEF OwnReports, HasEarlier
  <2> QED
    BY Zenon, <2>1, <2>3, <2>4, <2>5, <2>6, <2>7
<1>4. CASE Drop \/ Join
  <2>1. UNCHANGED <<request, bench, report>> /\ pc' \in {"join", "done"} /\ pc \in {"drop", "join"}
    BY Zenon, <1>4 DEF Drop, Join
  <2>2. SamplersGoOn
    <3>1. CASE Join
      BY Zenon, <1>1, <3>1, LeftAlone DEF Join
    <3>2. CASE Drop
      <4> DEFINE s == [sampler["client"] EXCEPT !.stop = TRUE]
      <4>1. sampler' = [sampler EXCEPT !["client"] = s]
        BY Zenon, <3>2 DEF Drop
      <4>2. sampler["client"] \in Sampler /\ Sound(sampler["client"])
        BY Zenon, <1>0 DEF SamplingTypeOK, Intervals
      <4>3. s \in Sampler
        BY Zenon, <4>2 DEF Sampler
      <4>4. Sound(s) /\ s.n = sampler["client"].n /\ s.start = sampler["client"].start
        BY Zenon, <4>2 DEF Sampler, Sound
      <4>5. s.n >= sampler["client"].n
        BY <4>2, <4>4, SamplerFields
      <4>6. Follows(s, "client")
        BY Zenon, <4>3, <4>4, <4>5 DEF Follows
      <4> HIDE DEF s
      <4> QED
        BY Zenon, <1>0, <1>1, <4>1, <4>6, OneReplaced
    <3> QED
      BY Zenon, <1>4, <3>1, <3>2
  <2>3. SamplingTypeOK'
    BY Zenon, <1>1, <2>1, <2>2 DEF SamplingTypeOK, SamplersGoOn
  <2>4. Intervals'
    BY Zenon, <1>1, <2>1, <2>2 DEF Intervals, SamplersGoOn
  <2>5. Requests'
    BY Zenon, <2>1 DEF Requests
  <2>6. Marks'
    BY Zenon, <1>1, <2>1 DEF Marks
  <2>7. OwnReports'
    BY Zenon, <1>1, <2>1 DEF OwnReports, HasEarlier
  <2> QED
    BY Zenon, <2>2, <2>3, <2>4, <2>5, <2>6, <2>7
<1> QED
  BY Zenon, <1>2, <1>3, <1>4 DEF SummaryFrom

(* Every step preserves the invariant, and the samplers go on in it. *)
LEMMA SampStep ==
  ASSUME OwnUnlessLost, [SamplingNext]_samplingVars
  PROVE  OwnUnlessLost' /\ SamplersGoOn
<1>1. CASE ClockTicks
  <2> USE DEF OwnUnlessLost, SampInv
  <2>1. clock' = clock + 1 /\ clock' \in 1..MaxClock
    BY <1>1, SamplingAssumption DEF ClockTicks, SamplingTypeOK
  <2>2. UNCHANGED <<mishaps, sampler, main, request, stray>>
    BY Zenon, <1>1 DEF ClockTicks
  <2>3. SamplersGoOn
    BY Zenon, <2>1, <2>2, LeftAlone
  <2>4. SamplingTypeOK'
    BY Zenon, <2>1, <2>2 DEF SamplingTypeOK, main
  <2>5. Intervals'
    BY Zenon, <2>2, <2>3 DEF Intervals, SamplersGoOn, main
  <2>6. Requests' /\ Marks' /\ OwnReports'
    BY Zenon, <2>2 DEF Requests, Marks, OwnReports, HasEarlier, main
  <2> QED
    BY Zenon, <2>3, <2>4, <2>5, <2>6
<1>2. CASE UNCHANGED samplingVars
  <2> USE DEF OwnUnlessLost, SampInv
  <2>1. UNCHANGED <<clock, mishaps, sampler, main, request, stray>>
    BY Zenon, <1>2 DEF samplingVars
  <2>2. SamplersGoOn
    BY Zenon, <2>1, LeftAlone
  <2>3. SamplingTypeOK' /\ Requests' /\ Marks' /\ OwnReports'
    BY Zenon, <2>1 DEF SamplingTypeOK, Requests, Marks, OwnReports, HasEarlier, main
  <2>4. Intervals'
    BY Zenon, <2>1, <2>2 DEF Intervals, SamplersGoOn, main
  <2> QED
    BY Zenon, <2>2, <2>3, <2>4
<1>3. CASE Main
  BY Zenon, <1>3, SetupStep, MarkStep, StatsStep DEF Main
<1>4. ASSUME NEW m \in Machines, Thread(m) \/ SampleFails(m)
      PROVE  OwnUnlessLost' /\ SamplersGoOn
  BY Zenon, <1>4, ThreadStep DEF Thread
<1> QED
  BY Zenon, <1>1, <1>2, <1>3, <1>4, HandleStep, AttemptStep DEF SamplingNext, EndOfClock

(* The CPU time of a sample follows on that of the one before, if no read failed
   between them. *)
LEMMA SampConsequence == OwnUnlessLost => IntervalUnlessFailed
  BY Zenon DEF OwnUnlessLost, SampInv, Intervals, Sound, IntervalUnlessFailed

(* remote_stats, stats_since and the marks of ps.rs: whatever requests are lost or
   late, a report has a sample from before its benchmark only if the mark was lost
   in every attempt, or the server's samples stand in for those of this machine,
   and one without samples comes with an error. *)
THEOREM ReportsOwnSamples == SamplingSpec => []OwnUnlessLost
<1>1. OwnUnlessLost /\ [SamplingNext]_samplingVars => OwnUnlessLost'
  BY Zenon, SampStep
<1> QED
  BY SampInit, <1>1, PTL DEF SamplingSpec

(* The sampler's thread: the CPU time of a sample, but for the first, is of its
   interval when no read failed since the sample before. *)
THEOREM SamplesOfIntervals == SamplingSpec => []IntervalUnlessFailed
  BY ReportsOwnSamples, SampConsequence, PTL

(* Sampler::start and the /init route: however often and however late /init is
   delivered, a sampler is never replaced, and its list of samples only grows. *)
THEOREM SamplersStay == SamplingSpec => SamplesKept
<1>1. OwnUnlessLost /\ [SamplingNext]_samplingVars =>
        [\A m \in Machines :
           sampler[m].state # "none" =>
             /\ sampler'[m].start = sampler[m].start
             /\ sampler'[m].n >= sampler[m].n]_samplingVars
  BY Zenon, SampStep DEF SamplersGoOn
<1> QED
  BY ReportsOwnSamples, <1>1, PTL DEF SamplingSpec, SamplesKept
=============================================================================
