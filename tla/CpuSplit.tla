------------------------------ MODULE CpuSplit ------------------------------
(***************************************************************************)
(* How the CPUs are divided between the servers and the client: by         *)
(* script/env.sh on a machine that runs both, from its topology, and by    *)
(* script/docker_benchmark.sh, which hands env.sh the two lists.           *)
(***************************************************************************)
EXTENDS Integers, SequencesExt, FiniteSetsExt

CONSTANTS
  Machines,   \* the most CPUs, and the numbers of cores, sockets and nodes; -1 is
              \* one lscpu does not know
  Asked       \* what -cput, -cpus and -cpuc may be; 0 is a flag not given

ASSUME CpuSplitAssumption ==
  /\ Asked \subseteq Nat
  /\ \A m \in Machines : /\ m.cpus \in Nat \ {0} /\ m.cores \subseteq Nat
                          /\ m.sockets \subseteq Int /\ m.nodes \subseteq Int

VARIABLES
  phase,          \* "split", "groups" or "docker", then "done" or "failed"
  online,      \* the CPUs that are online, or in the daemon's cpuset
  topology,    \* the place of each of them; empty without lscpu
  groups,      \* the groups of the topology still to be given away
  server, client,   \* the lists, as sets
  daemon, total, asked_server, asked_client   \* docker: the CPUs it reports, and the flags

cpuVars == <<phase, online, topology, groups, server, client, daemon, total, asked_server, asked_client>>
inputs == <<online, topology, daemon, total, asked_server, asked_client>>

(* A core is on one NUMA node. *)
Topologies(m, cpus) ==
  {[c \in cpus |-> [at |-> at[c], node |-> node[at[c]]]] :
     at \in [cpus -> m.sockets \X m.cores], node \in [m.sockets \X m.cores -> m.nodes]}

CpuSplitInit == \E m \in Machines :
  /\ online \in SUBSET (0..(m.cpus - 1)) \ {{}}
  /\ groups = <<>> /\ server = {} /\ client = {}
  /\ \/ phase = "split" /\ topology \in Topologies(m, online) \cup {<<>>}
        /\ daemon = 0 /\ total = 0 /\ asked_server = 0 /\ asked_client = 0
     \/ phase = "docker" /\ topology = <<>> /\ daemon \in 1..m.cpus
        /\ total \in Asked /\ asked_server \in Asked /\ asked_client \in Asked

-----------------------------------------------------------------------------
(* env.sh *)

(* The first half of the numbers and the second one. *)
Halves(cpus) ==
  LET n == Cardinality(cpus)
  IN  /\ server' = 0..(n \div 2 - 1)
      /\ client' = (n \div 2)..(n - 1)

Socket == [c \in online |-> topology[c].at[1]]
Node == [c \in online |-> topology[c].node]
Known(f) == {f[c] : c \in online} \ {-1}

(* The groups with one value of f, in its order. *)
GroupsBy(f) ==
  LET keys == SetToSortSeq(Known(f), <)
  IN  [i \in DOMAIN keys |-> {c \in online : f[c] = keys[i]}]

(* Slip of the grouping: a thread is a group. *)
GroupsByCoreThreads == LET s == SetToSortSeq(online, <) IN [i \in DOMAIN s |-> {s[i]}]

(* The groups of the threads of one core, by socket and core. *)
GroupsByCore ==
  LET Before(p, q) == p[1] < q[1] \/ (p[1] = q[1] /\ p[2] < q[2])
      places == SetToSortSeq({topology[c].at : c \in online}, Before)
  IN  [i \in DOMAIN places |-> {c \in online : topology[c].at = places[i]}]

(* The halves stand when there is no lscpu. *)
Split ==
  /\ phase = "split"
  /\ \/ topology = <<>> /\ phase' = "done" /\ Halves(online) /\ UNCHANGED groups
     \/ /\ topology # <<>> /\ phase' = "groups"
        /\ groups' = IF Cardinality(Known(Socket)) >= 2 THEN GroupsBy(Socket)
                     ELSE IF Cardinality(Known(Node)) >= 2 THEN GroupsBy(Node)
                     ELSE GroupsByCore
        /\ UNCHANGED <<server, client>>
  /\ UNCHANGED inputs

(* Slip of the loop: the groups take turns. *)
AppendInTurn ==
  /\ phase = "groups" /\ groups # <<>>
  /\ groups' = Tail(groups)
  /\ IF Len(groups) % 2 = 0
     THEN server' = server \cup Head(groups) /\ UNCHANGED client
     ELSE client' = client \cup Head(groups) /\ UNCHANGED server
  /\ UNCHANGED <<phase, inputs>>

(* append_cpu_group: to the side with fewer CPUs, the server's if they are even. *)
AppendGroup ==
  /\ phase = "groups" /\ groups # <<>>
  /\ groups' = Tail(groups)
  /\ IF Cardinality(server) <= Cardinality(client)
     THEN server' = server \cup Head(groups) /\ UNCHANGED client
     ELSE client' = client \cup Head(groups) /\ UNCHANGED server
  /\ UNCHANGED <<phase, inputs>>

(* Slip of the last test: one side may be left without CPUs. *)
UseGroupsAnyway ==
  /\ phase = "groups" /\ groups = <<>> /\ phase' = "done"
  /\ UNCHANGED <<server, client, groups, inputs>>

(* The lists of the groups, if both have CPUs. *)
UseGroups ==
  /\ phase = "groups" /\ groups = <<>> /\ phase' = "done"
  /\ IF server # {} /\ client # {} THEN UNCHANGED <<server, client>> ELSE Halves(online)
  /\ UNCHANGED <<groups, inputs>>

-----------------------------------------------------------------------------
(* docker_benchmark.sh *)

Available == Min({Cardinality(online), daemon})

(* About 75% of the CPUs, and not all of them. *)
DefaultTotal ==
  LET most == Max({(Available * 3) \div 4, 2})
  IN  IF Available > 2 /\ most >= Available THEN Available - 1 ELSE most

Allocated ==
  IF total > 0 THEN total
  ELSE IF asked_server > 0 /\ asked_client > 0 THEN asked_server + asked_client
  ELSE DefaultTotal

(* Slip of the counts: the server has half whatever the client asked for. *)
ServerCountHalf == IF asked_server > 0 THEN asked_server ELSE Allocated \div 2

ServerCount ==
  IF asked_server > 0 THEN asked_server
  ELSE IF asked_client > 0 THEN Allocated - asked_client
  ELSE Allocated \div 2

ClientCount == IF asked_client > 0 THEN asked_client ELSE Allocated - ServerCount

Fits ==
  /\ Available >= 2 /\ Allocated >= 2 /\ Allocated <= Available
  /\ ServerCount >= 1 /\ ClientCount >= 1 /\ ServerCount + ClientCount <= Allocated

Docker ==
  /\ phase = "docker"
  /\ IF Fits
     THEN LET selected == SubSeq(SetToSortSeq(online, <), 1, Allocated)
          IN  /\ phase' = "done"
              /\ server' = ToSet(SubSeq(selected, 1, ServerCount))
              /\ client' = ToSet(SubSeq(selected, ServerCount + 1, ServerCount + ClientCount))
     ELSE phase' = "failed" /\ UNCHANGED <<server, client>>
  /\ UNCHANGED <<groups, inputs>>

CpuSplitNext == Split \/ AppendGroup \/ UseGroups \/ Docker

CpuSplitSpec == CpuSplitInit /\ [][CpuSplitNext]_cpuVars

-----------------------------------------------------------------------------
(* Properties. *)

Divided == phase = "done"
ByDocker == daemon > 0
ByTopology == Divided /\ topology # <<>>
Contiguous == online = 0..(Cardinality(online) - 1)
Largest(gs) == Max({Cardinality(gs[i]) : i \in DOMAIN gs})
CoresOf(cpus) == {topology[c].at : c \in cpus}

(* "the server and client CPUs never overlap" (docker_benchmark.sh, line 36), in
   either way of dividing them, and whenever there are two CPUs both sides get
   some.  They are CPUs that are there, except that halves are of the numbers from
   0 on, whichever CPUs are online. *)
BothGetCpus ==
  /\ server \cap client = {}
  /\ Divided /\ Cardinality(online) >= 2 =>
       /\ server # {} /\ client # {}
       /\ ByDocker \/ Contiguous => server \cup client \subseteq online

(* A division by the topology never puts two threads of one core on both sides,
   however the sockets and the nodes lie, unless there is one core only. *)
CoresWhole ==
  ByTopology /\ Cardinality(CoresOf(online)) > 1 =>
    CoresOf(server) \cap CoresOf(client) = {}

(* append_cpu_group: the two sides of a division by the topology differ by no more
   than the largest socket, or node when there is one socket, or core. *)
Balanced ==
  ByTopology /\ Cardinality(online) >= 2 =>
    LET most == IF Cardinality(Known(Socket)) >= 2 THEN Largest(GroupsBy(Socket))
                ELSE IF Cardinality(Known(Node)) >= 2 THEN Largest(GroupsBy(Node))
                ELSE Largest(GroupsByCore)
    IN  Cardinality(server) - Cardinality(client) \in (-most)..most

(* docker_benchmark.sh, lines 33 to 36: each side gets the CPUs that were asked
   for, or what the other one leaves; without flags one CPU of three or more is
   left to the host. *)
DockerAsAsked ==
  Divided /\ ByDocker =>
    /\ asked_server > 0 => Cardinality(server) = asked_server
    /\ asked_client > 0 => Cardinality(client) = asked_client
    /\ asked_server = 0 \/ asked_client = 0 =>
         Cardinality(server) + Cardinality(client) = Allocated
    /\ total = 0 /\ asked_server * asked_client = 0 /\ Available > 2 =>
         Cardinality(server \cup client) < Available
=============================================================================
