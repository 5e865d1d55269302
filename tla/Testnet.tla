-------------------------------- MODULE Testnet --------------------------------
(* How the nodes of a network get their configuration, key and genesis: the     *)
(* commands testnet, distributed-testnet and init (crate cli).  Each writes its *)
(* files one after the other, may be killed or fail between or within any two   *)
(* writes, and may be run again over what is there.  (main does not dispatch    *)
(* distributed-testnet; it is modelled as the library crate has it.)            *)
(*                                                                              *)
(* A key is the generator it came from and its place in the output of that      *)
(* generator: 0 is the generator of fixed seed, which gives the same keys in    *)
(* every command; a random one is known by the command that used it.  A genesis *)
(* holds the set of its keys, all of voting power 1.                            *)
EXTENDS Integers, FiniteSetsExt, SequencesExt

CONSTANTS
  Absent,         \* what a file holds that does not exist
  Truncated,      \* or whose writing was interrupted
  MaxNodes,       \* bound on --nodes
  MaxMachines,    \* bound on the number of --machines
  MaxBootstrap,   \* bound on --bootstrap-set-size
  MaxCommands,    \* bound on the commands run
  MaxInterrupts   \* bound on those killed or failing

ASSUME BoundsAssumption ==
  {MaxNodes, MaxMachines, MaxBootstrap, MaxCommands, MaxInterrupts} \subseteq Nat

VARIABLES
  files,      \* per home: what config.toml, the key file and genesis.json hold
  job,        \* the command that runs
  network,    \* the homes of the last network made, until a command overwrites files
  commands, interrupts

vars == <<files, job, network, commands, interrupts>>

Indices == 0..MaxNodes-1

(* What the files of a node hold.                                               *)
Addresses == [machine : Nat, port : Nat]
Configs == [listen_addr : Addresses, metrics : Addresses, persistent_peers : SUBSET Addresses]
Keys == [generator : Nat, index : Nat]
Geneses == [validators : SUBSET Keys]

ASSUME MarksAssumption ==
  \A mark \in {Absent, Truncated} :
    mark \notin Configs /\ mark \notin Keys /\ mark \notin Geneses

Readable(content) == content \notin {Absent, Truncated}

Home(i) == <<i>>                                     \* home/<i>
MachineHome(machines, i) == <<i % machines, i>>      \* home/<machine>/<i>
Homes == {Home(i) : i \in Indices}
           \cup {MachineHome(m, i) : m \in 1..MaxMachines, i \in Indices}
NoFiles == [config |-> Absent, key |-> Absent, genesis |-> Absent]

-------------------------------------------------------------------------------
(* Key and configuration generation (new.rs).                                   *)

DrawnFromLast(size, deterministic) ==    \* mutant
  [i \in 0..size-1 |-> [generator |-> IF deterministic THEN 0 ELSE commands + 1,
                        index |-> size - 1 - i]]
PrivateKeys(size, deterministic) ==
  [i \in 0..size-1 |-> [generator |-> IF deterministic THEN 0 ELSE commands + 1,
                        index |-> i]]

Genesis(keys) == [validators |-> keys]

ConsensusBasePort == 27000
MetricsBasePort == 29000

(* The nodes go round the machines; ports count the nodes of one machine.  The  *)
(* testnet command has one machine, 127.0.0.1.                                  *)
ByMachine(base, machines, i) == [machine |-> i % machines, port |-> base + (i % machines)]  \* mutant
Address(base, machines, i) == [machine |-> i % machines, port |-> base + (i \div machines)]
ListenAddress(machines, i) == Address(ConsensusBasePort, machines, i)
MetricsAddress(machines, i) == Address(MetricsBasePort, machines, i)

(* The persistent peers node i of n may get.                                    *)
TestnetPeers(n, discovery, i) ==
  LET others == (0..n-1) \ {i} IN
  IF discovery /\ n > 1
  THEN UNION {kSubset(count, others) : count \in 1..(n \div 2)}
  ELSE IF discovery THEN {{}} ELSE {others}

DistributedPeers(discovery, bootstrap, i) ==
  IF discovery THEN (Max({0, i - bootstrap}))..(i - 1) ELSE 0..(i - 1)

Config(machines, i, peers) ==
  [listen_addr |-> ListenAddress(machines, i),
   metrics |-> MetricsAddress(machines, i),
   persistent_peers |-> {ListenAddress(machines, j) : j \in peers}]

-------------------------------------------------------------------------------
(* The commands.  A job is the files a command has still to write, each with    *)
(* the contents it may get, and the homes of the network it makes.              *)
Write(home, file, contents) == [home |-> home, file |-> file, contents |-> contents]

NodeFiles(home, configs, key, genesis) ==
  << Write(home, "config", configs), Write(home, "key", {key}), Write(home, "genesis", {genesis}) >>

NoJob == [todo |-> <<>>, overwrite |-> TRUE, makes |-> <<>>]

RunCommand(writes, overwrite, makes) ==
  /\ job = NoJob /\ commands < MaxCommands
  /\ commands' = commands + 1
  /\ job' = [todo |-> writes, overwrite |-> overwrite, makes |-> makes]
  /\ network' = IF overwrite THEN <<>> ELSE network
  /\ UNCHANGED <<files, interrupts>>

(* Node by node, with the same genesis for all.                                 *)
NodeByNode(writes) ==
  [j \in 1..3 * Len(writes) |-> writes[1 + ((j - 1) \div 3)][1 + ((j - 1) % 3)]]

MakeNetwork(homes, configs, deterministic) ==
  LET keys == PrivateKeys(Len(homes), deterministic)
      writes == [k \in 1..Len(homes) |->
                   NodeFiles(homes[k], configs[k], keys[k - 1], Genesis(Range(keys)))]
  IN  RunCommand(NodeByNode(writes), TRUE, homes)

TestnetCmd(n, deterministic, discovery) ==
  MakeNetwork([k \in 1..n |-> Home(k - 1)],
              [k \in 1..n |-> {Config(1, k - 1, p) : p \in TestnetPeers(n, discovery, k - 1)}],
              deterministic)

DistributedTestnetCmd(n, deterministic, machines, discovery, bootstrap) ==
  LET Peers(i) == DistributedPeers(discovery, bootstrap, i) IN
  MakeNetwork([k \in 1..n |-> MachineHome(machines, k - 1)],
              [k \in 1..n |-> {Config(machines, k - 1, Peers(k - 1))}],
              deterministic)

(* init draws the key of the node and the key in the genesis one after the      *)
(* other: they differ.                                                          *)
InitCmd(home, overwrite) ==
  LET keys == PrivateKeys(2, FALSE) IN
  RunCommand(NodeFiles(home, {Config(1, 0, {})}, keys[0], Genesis({keys[1]})), overwrite, <<>>)

-------------------------------------------------------------------------------
(* Saving the files (file.rs): opened and truncated, then written.              *)

KeepsAllButGenesis(write) ==   \* mutant: init always saves the genesis
  ~ job.overwrite /\ files[write.home][write.file] # Absent /\ write.file # "genesis"
Keeps(write) == ~ job.overwrite /\ files[write.home][write.file] # Absent

Written ==
  IF Len(job.todo) > 1
  THEN job' = [job EXCEPT !.todo = Tail(@)] /\ UNCHANGED network
  ELSE job' = NoJob /\ network' = IF job.makes = <<>> THEN network ELSE job.makes

SaveFile ==
  /\ job # NoJob
  /\ LET write == Head(job.todo) IN
     /\ ~ Keeps(write)
     /\ \E content \in write.contents : files' = [files EXCEPT ![write.home][write.file] = content]
  /\ Written
  /\ UNCHANGED <<commands, interrupts>>

(* init: "file already exists, skipping".                                       *)
SkipFile ==
  /\ job # NoJob
  /\ Keeps(Head(job.todo))
  /\ Written
  /\ UNCHANGED <<files, commands, interrupts>>

(* The command is killed, or returns the error of a save.                       *)
Interrupt ==
  /\ job # NoJob /\ interrupts < MaxInterrupts
  /\ interrupts' = interrupts + 1
  /\ job' = NoJob
  /\ LET write == Head(job.todo) IN
     \/ UNCHANGED files
     \/ ~ Keeps(write) /\ files' = [files EXCEPT ![write.home][write.file] = Truncated]
  /\ UNCHANGED <<network, commands>>

(* What a node started in a home loads; without one of the files it does not    *)
(* start.                                                                       *)
Starts(home) == \A file \in DOMAIN NoFiles : Readable(files[home][file])

-------------------------------------------------------------------------------
Init ==
  /\ files = [home \in Homes |-> NoFiles]
  /\ job = NoJob
  /\ network = <<>>
  /\ commands = 0
  /\ interrupts = 0

Next ==
  \/ \E n \in 1..MaxNodes, deterministic, discovery \in BOOLEAN :
       TestnetCmd(n, deterministic, discovery)
  \/ \E n \in 1..MaxNodes, machines \in 1..MaxMachines, bootstrap \in 1..MaxBootstrap :
       \E deterministic, discovery \in BOOLEAN :
         DistributedTestnetCmd(n, deterministic, machines, discovery, bootstrap)
  \/ \E i \in Indices, overwrite \in BOOLEAN : InitCmd(Home(i), overwrite)
  \/ SaveFile \/ SkipFile \/ Interrupt

Spec == Init /\ [][Next]_vars

-------------------------------------------------------------------------------
(* Properties.                                                                  *)

Members == DOMAIN network
FilesOfMember(k) == files[network[k]]

(* Whatever commands were interrupted before, once a network is made each of    *)
(* its nodes starts, all with one genesis, and each with a key of its own that  *)
(* is a validator of that genesis and leaves no validator without a node.       *)
(* Running init in the home of a node afterwards changes none of this ("already *)
(* exists, skipping", init.rs).                                                 *)
NodesAreTheValidators ==
  /\ \A k \in Members : Starts(network[k])
  /\ \A k \in Members :
       FilesOfMember(k).genesis.validators = {FilesOfMember(l).key : l \in Members}
  /\ \A k, l \in Members : k # l => FilesOfMember(k).key # FilesOfMember(l).key

(* No two servers of a network made listen on one address, and its nodes find   *)
(* each other ("the node will attempt to discover other nodes in the network",  *)
(* testnet.rs): their peers are addresses of other nodes, none is alone, and up *)
(* to three nodes are all connected.  With discovery four may not be: two pairs *)
(* may each have been given the other as their only peer.                       *)
ListenersOf(k) == {FilesOfMember(k).config.listen_addr, FilesOfMember(k).config.metrics}
Dials(k, l) ==
  FilesOfMember(l).config.listen_addr \in FilesOfMember(k).config.persistent_peers
Linked(members) ==
  members \cup {l \in Members : \E k \in members : Dials(k, l) \/ Dials(l, k)}

NodesFindEachOther ==
  /\ \A k, l \in Members : k # l => ListenersOf(k) \cap ListenersOf(l) = {}
  /\ \A k \in Members :
       /\ ~ Dials(k, k)
       /\ FilesOfMember(k).config.persistent_peers
            \subseteq {FilesOfMember(l).config.listen_addr : l \in Members}
  /\ \A k \in Members : Len(network) > 1 => Linked({k}) # {k}
  /\ \A k \in Members : Len(network) <= 3 => Linked(Linked({k})) = Members

(* The keys of --deterministic are reproducible ("for reproducibility",         *)
(* testnet.rs): a home that holds a key and a genesis of that generator, from   *)
(* whichever two commands, of which networks and interrupted where, is that of  *)
(* a validator of its genesis.                                                  *)
DeterministicRerun ==
  \A home \in Homes :
    LET held == files[home] IN
    /\ Readable(held.key) /\ Readable(held.genesis)
    /\ held.key.generator = 0 /\ \A key \in held.genesis.validators : key.generator = 0
    => held.key \in held.genesis.validators
===============================================================================
