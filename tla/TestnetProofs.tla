----------------------------- MODULE TestnetProofs -----------------------------
(* Whatever commands are interrupted and run again, the networks that get made  *)
(* are whole, proved for every number of nodes, machines and commands.          *)
(*                                                                              *)
(* A command that makes a network overwrites: no network counts as made while   *)
(* it runs, and what it has written so far is what it will have in the end,     *)
(* since each of its writes is of a file of its own.  A command that does not   *)
(* overwrite leaves every file of a network alone, since all of them exist.     *)
EXTENDS Testnet, TLAPS, FiniteSetTheorems, SequenceTheorems

FileNames == {"config", "key", "genesis"}
Marks == {Absent, Truncated}
IndexOf(home) == home[Len(home)]

(* The keys of one generator, and the genesis of n of them.                     *)
KeyOf(g, i) == [generator |-> g, index |-> i]
GenesisOf(g, n) == Genesis({KeyOf(g, i) : i \in 0..n-1})

(* The networks the commands lay out: homes, and what each may be configured.   *)
TestnetLayout(n, discovery) ==
  [homes |-> [k \in 1..n |-> Home(k - 1)],
   configs |-> [k \in 1..n |-> {Config(1, k - 1, p) : p \in TestnetPeers(n, discovery, k - 1)}]]
DistributedLayout(n, machines, discovery, bootstrap) ==
  [homes |-> [k \in 1..n |-> MachineHome(machines, k - 1)],
   configs |-> [k \in 1..n |->
                  {Config(machines, k - 1, DistributedPeers(discovery, bootstrap, k - 1))}]]
Layouts ==
  {TestnetLayout(n, discovery) : n \in 1..MaxNodes, discovery \in BOOLEAN}
    \cup {DistributedLayout(n, machines, discovery, bootstrap) :
            n \in 1..MaxNodes, machines \in 1..MaxMachines, discovery \in BOOLEAN,
            bootstrap \in 1..MaxBootstrap}

(* The writes of the command that lays it out, with the keys of generator g.    *)
WritesOf(layout, g) ==
  NodeByNode([k \in 1..Len(layout.homes) |->
    NodeFiles(layout.homes[k], layout.configs[k], KeyOf(g, k - 1),
              GenesisOf(g, Len(layout.homes)))])

Contents == Configs \cup Keys \cup Geneses
Writes == [home : Homes, file : FileNames, contents : SUBSET Contents]
Jobs == [todo : Seq(Writes), overwrite : BOOLEAN, makes : Seq(Homes)]

Done(write) == files[write.home][write.file] \in write.contents

(* The inductive invariant.                                                     *)

(* A key or a genesis of generator 0 is one of the home it is in.               *)
Fits(home, file, content) ==
  content \notin Marks =>
    /\ file = "config"  => content \in Configs
    /\ file = "key"     => /\ content \in Keys
                           /\ content.generator = 0 => content.index = IndexOf(home)
    /\ file = "genesis" => /\ content \in Geneses
                           /\ (\A key \in content.validators : key.generator = 0)
                                => KeyOf(0, IndexOf(home)) \in content.validators

FilesInv ==
  /\ DOMAIN files = Homes
  /\ \A home \in Homes :
       /\ DOMAIN files[home] = FileNames
       /\ \A file \in FileNames : Fits(home, file, files[home][file])

JobInv ==
  job # NoJob =>
    /\ job \in Jobs /\ job.todo # <<>>
    /\ \A j \in 1..Len(job.todo) : \A content \in job.todo[j].contents :
         Fits(job.todo[j].home, job.todo[j].file, content)
    /\ job.overwrite => network = <<>>

(* What a command that makes a network has left to do, and has done.            *)
MakingInv ==
  job.makes # <<>> =>
    /\ job.overwrite
    /\ \E layout \in Layouts, g \in 0..commands :
         /\ layout.homes = job.makes
         /\ \E done \in 0..3 * Len(layout.homes) - 1 :
              /\ Len(job.todo) = 3 * Len(layout.homes) - done
              /\ \A j \in 1..Len(job.todo) : job.todo[j] = WritesOf(layout, g)[done + j]
              /\ \A j \in 1..done : Done(WritesOf(layout, g)[j])

NetworkInv ==
  network # <<>> =>
    \E layout \in Layouts, g \in 0..commands :
      /\ layout.homes = network
      /\ \A j \in 1..3 * Len(layout.homes) : Done(WritesOf(layout, g)[j])

TestnetInv ==
  /\ commands \in Nat
  /\ FilesInv
  /\ JobInv
  /\ MakingInv
  /\ NetworkInv

-------------------------------------------------------------------------------
(* The layouts.                                                                 *)

(* The networks of the testnet command: k-1 is the place of the home of node k. *)
LEMMA TestnetLayoutFacts ==
  ASSUME NEW n \in 1..MaxNodes, NEW discovery \in BOOLEAN,
         NEW layout, layout = TestnetLayout(n, discovery)
  PROVE  /\ layout.homes \in Seq(Homes) /\ Len(layout.homes) = n
         /\ \A k \in 1..n : IndexOf(layout.homes[k]) = k - 1
         /\ \A k \in 1..n : layout.configs[k] =
              {Config(1, k - 1, p) : p \in TestnetPeers(n, discovery, k - 1)}
<1>0. MaxNodes \in Nat BY BoundsAssumption
<1>1. layout.homes = [k \in 1..n |-> <<k - 1>>] BY DEF TestnetLayout, Home
<1>2. \A k \in 1..n : <<k - 1>> \in Homes BY <1>0 DEF Homes, Home, Indices
<1>3. layout.homes \in Seq(Homes) /\ Len(layout.homes) = n BY <1>0, <1>1, <1>2
<1>4. \A k \in 1..n : IndexOf(layout.homes[k]) = k - 1 BY <1>1 DEF IndexOf
<1>5. QED BY <1>3, <1>4 DEF TestnetLayout

(* The same of the distributed-testnet command.                                 *)
LEMMA DistributedLayoutFacts ==
  ASSUME NEW n \in 1..MaxNodes, NEW machines \in 1..MaxMachines, NEW discovery \in BOOLEAN,
         NEW bootstrap \in 1..MaxBootstrap,
         NEW layout, layout = DistributedLayout(n, machines, discovery, bootstrap)
  PROVE  /\ layout.homes \in Seq(Homes) /\ Len(layout.homes) = n
         /\ \A k \in 1..n : IndexOf(layout.homes[k]) = k - 1
         /\ \A k \in 1..n : layout.configs[k] =
              {Config(machines, k - 1, DistributedPeers(discovery, bootstrap, k - 1))}
<1>0. MaxNodes \in Nat /\ MaxMachines \in Nat BY BoundsAssumption
<1>1. layout.homes = [k \in 1..n |-> MachineHome(machines, k - 1)] BY DEF DistributedLayout
<1>2. \A k \in 1..n : MachineHome(machines, k - 1) \in Homes
  BY <1>0 DEF Homes, Indices
<1>3. layout.homes \in Seq(Homes) /\ Len(layout.homes) = n BY <1>0, <1>1, <1>2
<1>4. \A k \in 1..n : IndexOf(layout.homes[k]) = k - 1
  <2>1. \A a, i : IndexOf(<<a, i>>) = i BY DEF IndexOf
  <2>2. QED BY <1>1, <2>1 DEF MachineHome
<1>5. QED BY <1>3, <1>4 DEF DistributedLayout

(* What a server gets is a configuration.                                       *)
LEMMA ConfigType ==
  ASSUME NEW machines \in Nat \ {0}, NEW i \in Nat, NEW peers \in SUBSET Nat
  PROVE  Config(machines, i, peers) \in Configs
<1>1. \A j \in Nat, base \in Nat : Address(base, machines, j) \in Addresses
  <2>1. TAKE j \in Nat, base \in Nat
  <2>2. j % machines \in Nat /\ j \div machines \in Nat OBVIOUS
  <2>3. QED BY <2>2 DEF Address, Addresses
<1>2. \A j \in Nat : ListenAddress(machines, j) \in Addresses /\ MetricsAddress(machines, j) \in Addresses
  BY <1>1 DEF ListenAddress, MetricsAddress, ConsensusBasePort, MetricsBasePort
<1>3. QED BY <1>2 DEF Config, Configs

(* The peers of a node of the testnet command: others, and one at least.        *)
LEMMA TestnetPeersFacts ==
  ASSUME NEW n \in Nat \ {0}, NEW discovery \in BOOLEAN, NEW i \in 0..n-1,
         NEW peers \in TestnetPeers(n, discovery, i)
  PROVE  peers \subseteq (0..n-1) \ {i} /\ (n > 1 => peers # {})
<1>1. CASE discovery /\ n > 1
  <2>1. PICK count \in 1..(n \div 2) : peers \in kSubset(count, (0..n-1) \ {i})
    BY <1>1 DEF TestnetPeers
  <2>2. peers \subseteq (0..n-1) \ {i} /\ Cardinality(peers) = count BY <2>1 DEF kSubset
  <2>3. Cardinality(peers) # 0 BY <2>2
  <2>4. Cardinality({}) = 0 BY FS_EmptySet
  <2>5. QED BY <2>2, <2>3, <2>4
<1>2. CASE discovery /\ ~ n > 1 BY <1>2 DEF TestnetPeers
<1>3. CASE ~ discovery
  <2>1. peers = (0..n-1) \ {i} BY <1>3 DEF TestnetPeers
  <2>2. n > 1 => 0 \in peers \/ 1 \in peers BY <2>1
  <2>3. QED BY <2>1, <2>2
<1>4. QED BY <1>1, <1>2, <1>3

(* The peers of a node of the distributed-testnet command: earlier nodes, the   *)
(* one before it among them.                                                    *)
LEMMA DistributedPeersFacts ==
  ASSUME NEW discovery \in BOOLEAN, NEW bootstrap \in Nat \ {0}, NEW i \in Nat
  PROVE  /\ DistributedPeers(discovery, bootstrap, i) \subseteq 0..i-1
         /\ i > 0 => i - 1 \in DistributedPeers(discovery, bootstrap, i)
<1>1. CASE discovery
  <2>1. PICK low : low = Max({0, i - bootstrap}) OBVIOUS
  <2>2. low \in {0, i - bootstrap} /\ \A x \in {0, i - bootstrap} : low >= x
    <3>1. \E x \in {0, i - bootstrap} : \A y \in {0, i - bootstrap} : x >= y OBVIOUS
    <3>2. QED BY <2>1, <3>1 DEF Max
  <2>3. DistributedPeers(discovery, bootstrap, i) = low..(i - 1) BY <1>1, <2>1 DEF DistributedPeers
  <2>4. QED BY <2>2, <2>3
<1>2. CASE ~ discovery BY <1>2 DEF DistributedPeers
<1>3. QED BY <1>1, <1>2

(* A layout has a node for each of its homes, the place of a home is that of    *)
(* its node, and what may be configured is a configuration.                     *)
LEMMA LayoutFacts ==
  ASSUME NEW layout \in Layouts
  PROVE  /\ layout.homes \in Seq(Homes) /\ Len(layout.homes) \in Nat \ {0}
         /\ \A k \in 1..Len(layout.homes) : /\ layout.homes[k] \in Homes
                                            /\ IndexOf(layout.homes[k]) = k - 1
         /\ \A k \in 1..Len(layout.homes) : \A config \in layout.configs[k] : config \in Configs
<1>0. MaxNodes \in Nat /\ MaxMachines \in Nat /\ MaxBootstrap \in Nat BY BoundsAssumption
<1>1. CASE \E n \in 1..MaxNodes, discovery \in BOOLEAN : layout = TestnetLayout(n, discovery)
  <2>1. PICK n \in 1..MaxNodes, discovery \in BOOLEAN : layout = TestnetLayout(n, discovery)
    BY <1>1
  <2>2. /\ layout.homes \in Seq(Homes) /\ Len(layout.homes) = n
        /\ \A k \in 1..n : IndexOf(layout.homes[k]) = k - 1
        /\ \A k \in 1..n : layout.configs[k] =
             {Config(1, k - 1, p) : p \in TestnetPeers(n, discovery, k - 1)}
    BY <2>1, TestnetLayoutFacts
  <2>3. \A k \in 1..n : \A config \in layout.configs[k] : config \in Configs
    <3>0. TAKE k \in 1..n
    <3>1. TAKE config \in layout.configs[k]
    <3>2. PICK p \in TestnetPeers(n, discovery, k - 1) : config = Config(1, k - 1, p)
      BY <2>2, <3>1
    <3>3. p \in SUBSET Nat /\ k - 1 \in Nat /\ k - 1 \in 0..n-1 /\ n \in Nat \ {0}
      <4>1. k - 1 \in 0..n-1 /\ n \in Nat \ {0} BY <1>0, <3>0
      <4>2. p \subseteq (0..n-1) \ {k - 1} BY <4>1, <3>2, TestnetPeersFacts
      <4>3. QED BY <4>1, <4>2
    <3>4. QED BY <3>2, <3>3, ConfigType
  <2>4. QED BY <1>0, <2>2, <2>3
<1>2. CASE \E n \in 1..MaxNodes, machines \in 1..MaxMachines, discovery \in BOOLEAN,
             bootstrap \in 1..MaxBootstrap :
             layout = DistributedLayout(n, machines, discovery, bootstrap)
  <2>1. PICK n \in 1..MaxNodes, machines \in 1..MaxMachines, discovery \in BOOLEAN,
             bootstrap \in 1..MaxBootstrap :
             layout = DistributedLayout(n, machines, discovery, bootstrap)
    BY <1>2
  <2>2. /\ layout.homes \in Seq(Homes) /\ Len(layout.homes) = n
        /\ \A k \in 1..n : IndexOf(layout.homes[k]) = k - 1
        /\ \A k \in 1..n : layout.configs[k] =
             {Config(machines, k - 1, DistributedPeers(discovery, bootstrap, k - 1))}
    BY <2>1, DistributedLayoutFacts
  <2>3. \A k \in 1..n : \A config \in layout.configs[k] : config \in Configs
    <3>0. TAKE k \in 1..n
    <3>1. TAKE config \in layout.configs[k]
    <3>2. PICK p : p = DistributedPeers(discovery, bootstrap, k - 1) OBVIOUS
    <3>3. config = Config(machines, k - 1, p) BY <2>2, <3>1, <3>2
    <3>4. k - 1 \in Nat /\ bootstrap \in Nat \ {0} /\ machines \in Nat \ {0} BY <1>0
    <3>5. p \subseteq 0..(k - 1) - 1 BY <3>2, <3>4, DistributedPeersFacts
    <3>6. p \in SUBSET Nat BY <3>4, <3>5
    <3>7. QED BY <3>3, <3>4, <3>6, ConfigType
  <2>4. QED BY <1>0, <2>2, <2>3
<1>3. QED BY <1>1, <1>2 DEF Layouts

-------------------------------------------------------------------------------
(* The writes of a command that makes a network.                                *)

(* What each node's three writes are.                                           *)
ThreeEach(layout, g, n) ==
  \A k \in 1..n :
    /\ WritesOf(layout, g)[3 * k - 2] = Write(layout.homes[k], "config", layout.configs[k])
    /\ WritesOf(layout, g)[3 * k - 1] = Write(layout.homes[k], "key", {KeyOf(g, k - 1)})
    /\ WritesOf(layout, g)[3 * k] = Write(layout.homes[k], "genesis", {GenesisOf(g, n)})

(* Three for each node, each of a file of its own.                              *)
LEMMA WriteFacts ==
  ASSUME NEW layout \in Layouts, NEW g \in Nat,
         NEW n \in Nat \ {0}, n = Len(layout.homes)
  PROVE  /\ ThreeEach(layout, g, n)
         /\ \A j \in 1..3 * n : \E k \in 1..n : j \in {3 * k - 2, 3 * k - 1, 3 * k}
         /\ Len(WritesOf(layout, g)) = 3 * n
<1>1. PICK rows : rows = [k \in 1..n |->
                NodeFiles(layout.homes[k], layout.configs[k], KeyOf(g, k - 1), GenesisOf(g, n))]
  OBVIOUS
<1>2. Len(rows) = n BY <1>1
<1>3. WritesOf(layout, g) = [j \in 1..3 * n |-> rows[1 + ((j - 1) \div 3)][1 + ((j - 1) % 3)]]
  BY <1>1, <1>2 DEF WritesOf, NodeByNode
<1>4. \A k \in 1..n :
        /\ rows[k][1] = Write(layout.homes[k], "config", layout.configs[k])
        /\ rows[k][2] = Write(layout.homes[k], "key", {KeyOf(g, k - 1)})
        /\ rows[k][3] = Write(layout.homes[k], "genesis", {GenesisOf(g, n)})
  BY <1>1 DEF NodeFiles
<1>5. \A k \in 1..n, f \in 1..3 : WritesOf(layout, g)[3 * k - 3 + f] = rows[k][f]
  <2>1. TAKE k \in 1..n, f \in 1..3
  <2>2. PICK j \in 1..3 * n : j = 3 * k - 3 + f OBVIOUS
  <2>3. 1 + ((j - 1) \div 3) = k /\ 1 + ((j - 1) % 3) = f BY <2>2
  <2>4. QED BY <1>3, <2>2, <2>3
<1>6. \A j \in 1..3 * n : \E k \in 1..n : j \in {3 * k - 2, 3 * k - 1, 3 * k}
  <2>1. TAKE j \in 1..3 * n
  <2>2. WITNESS 1 + ((j - 1) \div 3) \in 1..n
  <2>3. QED OBVIOUS
<1>7. \A k \in 1..n : 3 * k - 3 + 1 = 3 * k - 2 /\ 3 * k - 3 + 2 = 3 * k - 1 /\ 3 * k - 3 + 3 = 3 * k
  OBVIOUS
<1>8. ASSUME NEW k \in 1..n
      PROVE  /\ WritesOf(layout, g)[3 * k - 2] = rows[k][1]
             /\ WritesOf(layout, g)[3 * k - 1] = rows[k][2]
             /\ WritesOf(layout, g)[3 * k] = rows[k][3]
  BY <1>5, <1>7
<1>9. Len(WritesOf(layout, g)) = 3 * n BY <1>3
<1>10. ThreeEach(layout, g, n) BY <1>4, <1>8 DEF ThreeEach
<1>11. QED BY <1>6, <1>9, <1>10

(* Each of what its home may hold, and no two of one file: none is undone.      *)
LEMMA WritesFit ==
  ASSUME NEW layout \in Layouts, NEW g \in Nat,
         NEW n \in Nat \ {0}, n = Len(layout.homes),
         NEW j \in 1..3 * n,
         NEW write, write = WritesOf(layout, g)[j]
  PROVE  /\ write \in Writes
         /\ \A content \in write.contents :
              content \notin Marks /\ Fits(write.home, write.file, content)
         /\ \A i \in 1..3 * n : i # j =>
              \/ WritesOf(layout, g)[i].home # write.home
              \/ WritesOf(layout, g)[i].file # write.file
<1>0. ThreeEach(layout, g, n) BY WriteFacts
<1>1. PICK k \in 1..n : j \in {3 * k - 2, 3 * k - 1, 3 * k} BY WriteFacts
<1>2. /\ WritesOf(layout, g)[3 * k - 2] = Write(layout.homes[k], "config", layout.configs[k])
      /\ WritesOf(layout, g)[3 * k - 1] = Write(layout.homes[k], "key", {KeyOf(g, k - 1)})
      /\ WritesOf(layout, g)[3 * k] = Write(layout.homes[k], "genesis", {GenesisOf(g, n)})
  BY <1>0 DEF ThreeEach
<1>3. /\ layout.homes[k] \in Homes /\ IndexOf(layout.homes[k]) = k - 1
      /\ \A config \in layout.configs[k] : config \in Configs
  BY LayoutFacts
<1>4. KeyOf(g, k - 1) \in Keys /\ KeyOf(g, k - 1).index = k - 1 BY DEF KeyOf, Keys
<1>5. GenesisOf(g, n) \in Geneses /\ KeyOf(g, k - 1) \in GenesisOf(g, n).validators
      /\ \A key \in GenesisOf(g, n).validators : key.generator = g
  BY DEF GenesisOf, Genesis, Geneses, KeyOf, Keys
<1>6. write.home = layout.homes[k] /\ write.file \in FileNames
  BY <1>1, <1>2 DEF Write, FileNames
<1>7. \A content \in write.contents : Fits(write.home, write.file, content)
  <2>1. CASE j = 3 * k - 2 BY <2>1, <1>2, <1>3 DEF Write, Fits
  <2>2. CASE j = 3 * k - 1
    <3>1. write = Write(layout.homes[k], "key", {KeyOf(g, k - 1)}) BY <2>2, <1>2
    <3>2. QED BY <3>1, <1>3, <1>4 DEF Write, Fits
  <2>3. CASE j = 3 * k
    <3>1. write = Write(layout.homes[k], "genesis", {GenesisOf(g, n)}) BY <2>3, <1>2
    <3>2. (\A key \in GenesisOf(g, n).validators : key.generator = 0)
             => KeyOf(0, k - 1) \in GenesisOf(g, n).validators
      BY <1>5 DEF KeyOf
    <3>3. QED BY <3>1, <3>2, <1>3, <1>5 DEF Write, Fits
  <2>4. QED BY <1>1, <2>1, <2>2, <2>3
<1>8. ASSUME NEW i \in 1..3 * n, i # j
      PROVE  \/ WritesOf(layout, g)[i].home # write.home
             \/ WritesOf(layout, g)[i].file # write.file
  <2>1. PICK l \in 1..n : i \in {3 * l - 2, 3 * l - 1, 3 * l} BY WriteFacts
  <2>2. /\ WritesOf(layout, g)[3 * l - 2] = Write(layout.homes[l], "config", layout.configs[l])
        /\ WritesOf(layout, g)[3 * l - 1] = Write(layout.homes[l], "key", {KeyOf(g, l - 1)})
        /\ WritesOf(layout, g)[3 * l] = Write(layout.homes[l], "genesis", {GenesisOf(g, n)})
    BY <1>0 DEF ThreeEach
  <2>3. CASE l = k
    <3>1. /\ WritesOf(layout, g)[3 * k - 2].file = "config"
          /\ WritesOf(layout, g)[3 * k - 1].file = "key"
          /\ WritesOf(layout, g)[3 * k].file = "genesis"
      BY <1>2 DEF Write
    <3>2. \/ i = 3 * k - 2 /\ WritesOf(layout, g)[i].file = "config"
          \/ i = 3 * k - 1 /\ WritesOf(layout, g)[i].file = "key"
          \/ i = 3 * k /\ WritesOf(layout, g)[i].file = "genesis"
      BY <2>1, <2>3, <3>1
    <3>3. \/ j = 3 * k - 2 /\ write.file = "config"
          \/ j = 3 * k - 1 /\ write.file = "key"
          \/ j = 3 * k /\ write.file = "genesis"
      BY <1>1, <3>1
    <3>4. WritesOf(layout, g)[i].file # write.file
      BY <1>8, <3>2, <3>3
    <3>5. QED BY <3>4
  <2>4. CASE l # k
    <3>1. IndexOf(layout.homes[l]) = l - 1 /\ IndexOf(layout.homes[k]) = k - 1
      BY LayoutFacts
    <3>2. l - 1 # k - 1 BY <2>4
    <3>3. layout.homes[l] # layout.homes[k] BY <3>1, <3>2, Zenon
    <3>4. /\ WritesOf(layout, g)[3 * l - 2].home = layout.homes[l]
          /\ WritesOf(layout, g)[3 * l - 1].home = layout.homes[l]
          /\ WritesOf(layout, g)[3 * l].home = layout.homes[l]
      BY <2>2 DEF Write
    <3>5. QED BY <1>6, <2>1, <3>3, <3>4
  <2>5. QED BY <2>3, <2>4
<1>9. write \in Writes
  <2>1. Write(layout.homes[k], "config", layout.configs[k]) \in Writes
    BY <1>3 DEF Write, Writes, Contents, FileNames
  <2>2. Write(layout.homes[k], "key", {KeyOf(g, k - 1)}) \in Writes
    BY <1>3, <1>4 DEF Write, Writes, Contents, FileNames
  <2>3. Write(layout.homes[k], "genesis", {GenesisOf(g, n)}) \in Writes
    BY <1>3, <1>5 DEF Write, Writes, Contents, FileNames
  <2>4. QED BY <1>1, <1>2, <2>1, <2>2, <2>3
<1>10. \A content \in write.contents : content \notin Marks
  <2>1. \A content \in Contents : content \notin Marks BY MarksAssumption DEF Contents, Marks
  <2>2. QED BY <1>9, <2>1 DEF Writes
<1>11. QED BY <1>7, <1>8, <1>9, <1>10

(* No two of one file.                                                          *)
LEMMA OwnFiles ==
  ASSUME NEW layout \in Layouts, NEW g \in Nat,
         NEW n \in Nat \ {0}, n = Len(layout.homes),
         NEW all, all = WritesOf(layout, g)
  PROVE  \A i, j \in 1..3 * n : i # j =>
           all[i].home # all[j].home \/ all[i].file # all[j].file
<1>1. TAKE i, j \in 1..3 * n
<1>2. PICK write : write = WritesOf(layout, g)[j] OBVIOUS
<1>3. i # j => \/ WritesOf(layout, g)[i].home # write.home
               \/ WritesOf(layout, g)[i].file # write.file
  BY <1>2, WritesFit
<1>4. QED BY <1>2, <1>3

-------------------------------------------------------------------------------
(* The steps.                                                                   *)

(* A command that makes a network starts with all of its writes to do.          *)
LEMMA MakeNetworkEffect ==
  ASSUME NEW layout \in Layouts, NEW deterministic \in BOOLEAN, commands \in Nat,
         MakeNetwork(layout.homes, layout.configs, deterministic)
  PROVE  /\ \E g \in 0..commands + 1 :
              job' = [todo |-> WritesOf(layout, g), overwrite |-> TRUE, makes |-> layout.homes]
         /\ commands' = commands + 1 /\ network' = <<>> /\ files' = files
<1>1. PICK g \in 0..commands + 1 : g = IF deterministic THEN 0 ELSE commands + 1 OBVIOUS
<1>2. PICK n \in Nat \ {0} : n = Len(layout.homes) BY LayoutFacts
<1>3. PICK keys : keys = PrivateKeys(n, deterministic) OBVIOUS
<1>4. keys = [i \in 0..n-1 |-> KeyOf(g, i)] BY <1>1, <1>3 DEF PrivateKeys, KeyOf
<1>5. Genesis(Range(keys)) = GenesisOf(g, n)
  <2>1. Range(keys) = {KeyOf(g, i) : i \in 0..n-1} BY <1>4 DEF Range
  <2>2. QED BY <2>1 DEF GenesisOf
<1>6. \A k \in 1..n : keys[k - 1] = KeyOf(g, k - 1) BY <1>4
<1>7. PICK writes : writes = [k \in 1..n |->
         NodeFiles(layout.homes[k], layout.configs[k], keys[k - 1], Genesis(Range(keys)))]
  OBVIOUS
<1>8. writes = [k \in 1..n |->
         NodeFiles(layout.homes[k], layout.configs[k], KeyOf(g, k - 1), GenesisOf(g, n))]
  BY <1>5, <1>6, <1>7
<1>9. NodeByNode(writes) = WritesOf(layout, g) BY <1>2, <1>8 DEF WritesOf
<1>10. RunCommand(NodeByNode(writes), TRUE, layout.homes)
  BY <1>2, <1>3, <1>7 DEF MakeNetwork
<1>11. QED BY <1>9, <1>10 DEF RunCommand

(* So it keeps the invariant.                                                   *)
LEMMA MakeNetworkInv ==
  ASSUME TestnetInv, NEW layout \in Layouts, NEW deterministic \in BOOLEAN,
         MakeNetwork(layout.homes, layout.configs, deterministic)
  PROVE  TestnetInv'
<1>1. commands \in Nat BY DEF TestnetInv
<1>2. PICK g \in 0..commands + 1 :
        job' = [todo |-> WritesOf(layout, g), overwrite |-> TRUE, makes |-> layout.homes]
  BY <1>1, MakeNetworkEffect
<1>3. commands' = commands + 1 /\ network' = <<>> /\ files' = files BY <1>1, MakeNetworkEffect
<1>4. PICK n \in Nat \ {0} : n = Len(layout.homes) BY LayoutFacts
<1>5. g \in Nat BY <1>1
<1>6. PICK todo : todo = WritesOf(layout, g) OBVIOUS
<1>7. Len(todo) = 3 * n /\ todo \in Seq(Writes)
  <2>1. Len(todo) = 3 * n BY <1>4, <1>5, <1>6, WriteFacts
  <2>2. \A j \in 1..3 * n : todo[j] \in Writes BY <1>4, <1>5, <1>6, WritesFit
  <2>3. PICK rows : /\ todo = NodeByNode(rows)
                    /\ rows = [k \in 1..n |->
                         NodeFiles(layout.homes[k], layout.configs[k], KeyOf(g, k - 1),
                                   GenesisOf(g, n))]
    BY <1>4, <1>6 DEF WritesOf
  <2>4. Len(rows) = n BY <2>3
  <2>5. todo = [j \in 1..3 * n |-> todo[j]] BY <2>3, <2>4 DEF NodeByNode
  <2>6. QED BY <2>1, <2>2, <2>5
<1>8. \A j \in 1..3 * n : \A content \in todo[j].contents : Fits(todo[j].home, todo[j].file, content)
  BY <1>4, <1>5, <1>6, WritesFit
<1>9. layout.homes \in Seq(Homes) /\ layout.homes # <<>> BY <1>4, LayoutFacts
<1>10. FilesInv' BY <1>3 DEF TestnetInv, FilesInv
<1>11. JobInv'
  <2>1. job' \in Jobs BY <1>2, <1>6, <1>7, <1>9 DEF Jobs
  <2>2. job'.todo = todo BY <1>2, <1>6
  <2>3. todo # <<>> BY <1>7
  <2>4. QED BY <1>3, <1>7, <1>8, <2>1, <2>2, <2>3 DEF JobInv
<1>12. MakingInv'
  <2>1. job'.overwrite /\ job'.makes = layout.homes /\ job'.todo = todo BY <1>2, <1>6
  <2>2. g \in 0..commands' BY <1>3
  <2>3. 0 \in 0..3 * n - 1 /\ Len(todo) = 3 * n - 0 BY <1>7
  <2>4. \A j \in 1..Len(todo) : todo[j] = WritesOf(layout, g)[0 + j] BY <1>6, <1>7
  <2>5. \A j \in 1..0 : Done(WritesOf(layout, g)[j])' OBVIOUS
  <2>6. QED BY <1>4, <2>1, <2>2, <2>3, <2>4, <2>5 DEF MakingInv
<1>13. NetworkInv' BY <1>3 DEF NetworkInv
<1>14. QED BY <1>1, <1>3, <1>10, <1>11, <1>12, <1>13 DEF TestnetInv

(* So does init: the keys it draws are of no other command.                     *)
LEMMA InitCmdInv ==
  ASSUME TestnetInv, NEW i \in Indices, NEW overwrite \in BOOLEAN, InitCmd(Home(i), overwrite)
  PROVE  TestnetInv'
<1>0. commands \in Nat /\ MaxNodes \in Nat BY BoundsAssumption DEF TestnetInv
<1>1. PICK home : home = Home(i) OBVIOUS
<1>2. home \in Homes BY <1>1 DEF Homes
<1>3. PICK g \in Nat \ {0} : g = commands + 1 BY <1>0
<1>4. PrivateKeys(2, FALSE)[0] = KeyOf(g, 0) /\ PrivateKeys(2, FALSE)[1] = KeyOf(g, 1)
  BY <1>3 DEF PrivateKeys, KeyOf
<1>5. PICK config : config = Config(1, 0, {}) OBVIOUS
<1>6. config \in Configs BY <1>5, ConfigType
<1>7. PICK key : key = KeyOf(g, 0) OBVIOUS
<1>8. PICK genesis : genesis = Genesis({KeyOf(g, 1)}) OBVIOUS
<1>9. PICK todo : todo = << Write(home, "config", {config}), Write(home, "key", {key}),
                            Write(home, "genesis", {genesis}) >>
  OBVIOUS
<1>10. RunCommand(todo, overwrite, <<>>)
  BY <1>1, <1>4, <1>5, <1>7, <1>8, <1>9 DEF InitCmd, NodeFiles
<1>11. /\ job' = [todo |-> todo, overwrite |-> overwrite, makes |-> <<>>]
       /\ commands' = commands + 1 /\ files' = files
       /\ network' = IF overwrite THEN <<>> ELSE network
  BY <1>10 DEF RunCommand
<1>12. key \in Keys /\ key.generator # 0
  BY <1>7 DEF KeyOf, Keys
<1>13. genesis \in Geneses /\ ~ \A k \in genesis.validators : k.generator = 0
  <2>1. KeyOf(g, 1) \in Keys /\ KeyOf(g, 1).generator # 0 BY DEF KeyOf, Keys
  <2>2. QED BY <1>8, <2>1 DEF Genesis, Geneses
<1>14. Fits(home, "config", config) /\ Fits(home, "key", key) /\ Fits(home, "genesis", genesis)
  BY <1>6, <1>12, <1>13 DEF Fits
<1>15. /\ Write(home, "config", {config}) \in Writes
       /\ Write(home, "key", {key}) \in Writes
       /\ Write(home, "genesis", {genesis}) \in Writes
  BY <1>2, <1>6, <1>12, <1>13 DEF Write, Writes, Contents, FileNames
<1>16. todo \in Seq(Writes) /\ Len(todo) = 3 /\ todo # <<>> BY <1>9, <1>15
<1>17. FilesInv' BY <1>11 DEF TestnetInv, FilesInv
<1>18. JobInv'
  <2>1. job'.todo = todo BY <1>11
  <2>2. <<>> \in Seq(Homes) OBVIOUS
  <2>3. job' \in Jobs BY <1>11, <1>16, <2>2 DEF Jobs
  <2>4. \A j \in 1..3 : \A content \in todo[j].contents : Fits(todo[j].home, todo[j].file, content)
    BY <1>9, <1>14 DEF Write
  <2>5. overwrite => network' = <<>> BY <1>11
  <2>6. job'.overwrite = overwrite BY <1>11
  <2>7. QED BY <1>16, <2>1, <2>3, <2>4, <2>5, <2>6 DEF JobInv
<1>19. MakingInv' BY <1>11 DEF MakingInv
<1>20. NetworkInv'
  <2>1. CASE network' = <<>> BY <2>1 DEF NetworkInv
  <2>2. CASE network' # <<>>
    <3>1. network' = network BY <1>11, <2>2
    <3>2. PICK layout \in Layouts, g2 \in 0..commands :
            /\ layout.homes = network
            /\ \A j \in 1..3 * Len(layout.homes) : Done(WritesOf(layout, g2)[j])
      BY <2>2, <3>1 DEF TestnetInv, NetworkInv
    <3>3. g2 \in 0..commands' BY <1>0, <1>11
    <3>4. \A j \in 1..3 * Len(layout.homes) : Done(WritesOf(layout, g2)[j])'
      BY <1>11, <3>2 DEF Done
    <3>5. QED BY <3>1, <3>2, <3>3, <3>4 DEF NetworkInv
  <2>3. QED BY <2>1, <2>2
<1>21. QED BY <1>0, <1>11, <1>17, <1>18, <1>19, <1>20 DEF TestnetInv

(* What a save, a skip or an interrupt does to the files: nothing, or the next  *)
(* file to write gets other contents.                                           *)
Touches(write) ==
  \/ files' = files
  \/ /\ ~ Keeps(write)
     /\ \E content : /\ Fits(write.home, write.file, content)
                     /\ files' = [files EXCEPT ![write.home][write.file] = content]

(* Either way every file still fits its home, and the other files are as they   *)
(* were.                                                                        *)
LEMMA TouchedFiles ==
  ASSUME FilesInv, NEW write \in Writes, Touches(write)
  PROVE  /\ FilesInv'
         /\ \A home \in Homes, file \in FileNames :
              home # write.home \/ file # write.file => files'[home][file] = files[home][file]
<1>1. CASE files' = files BY <1>1 DEF FilesInv
<1>2. CASE files' # files
  <2>1. PICK content : /\ Fits(write.home, write.file, content)
                       /\ files' = [files EXCEPT ![write.home][write.file] = content]
    BY <1>2 DEF Touches
  <2>2. write.home \in Homes /\ write.file \in FileNames BY DEF Writes
  <2>3. PICK row : row = [files[write.home] EXCEPT ![write.file] = content] OBVIOUS
  <2>4. files' = [files EXCEPT ![write.home] = row] BY <2>1, <2>3
  <2>5. /\ DOMAIN row = FileNames /\ row[write.file] = content
        /\ \A file \in FileNames : file # write.file => row[file] = files[write.home][file]
    BY <2>2, <2>3 DEF FilesInv
  <2>6. /\ DOMAIN files' = Homes /\ files'[write.home] = row
        /\ \A home \in Homes : home # write.home => files'[home] = files[home]
    BY <2>2, <2>4 DEF FilesInv
  <2>7. ASSUME NEW home \in Homes, NEW file \in FileNames
        PROVE  /\ DOMAIN files'[home] = FileNames
               /\ Fits(home, file, files'[home][file])
               /\ home # write.home \/ file # write.file => files'[home][file] = files[home][file]
    <3>1. DOMAIN files[home] = FileNames /\ Fits(home, file, files[home][file]) BY DEF FilesInv
    <3>2. CASE home = write.home /\ file = write.file
      <4>1. files'[home] = row /\ row[file] = content BY <2>5, <2>6, <3>2
      <4>2. QED BY <2>1, <2>5, <3>2, <4>1
    <3>3. CASE home = write.home /\ file # write.file
      <4>1. files'[home] = row /\ row[file] = files[home][file] BY <2>5, <2>6, <3>3
      <4>2. QED BY <2>5, <3>1, <4>1
    <3>4. CASE home # write.home
      <4>1. files'[home] = files[home] BY <2>6, <3>4
      <4>2. QED BY <3>1, <4>1
    <3>5. QED BY <3>2, <3>3, <3>4
  <2>8. FilesInv'
    <3>1. "key" \in FileNames BY DEF FileNames
    <3>2. \A home \in Homes : DOMAIN files'[home] = FileNames BY <2>7, <3>1
    <3>3. QED BY <2>6, <2>7, <3>2 DEF FilesInv
  <2>9. QED BY <2>7, <2>8
<1>3. QED BY <1>1, <1>2

(* Whoever may not overwrite leaves the network made as it is.                  *)
LEMMA NetworkKept ==
  ASSUME TestnetInv, NEW write \in Writes, Touches(write), ~ job.overwrite,
         network' = network, commands' = commands
  PROVE  NetworkInv'
<1>1. CASE network = <<>> BY <1>1 DEF NetworkInv
<1>2. CASE network # <<>>
  <2>1. PICK layout \in Layouts, g \in 0..commands :
          /\ layout.homes = network
          /\ \A j \in 1..3 * Len(layout.homes) : Done(WritesOf(layout, g)[j])
    BY <1>2 DEF TestnetInv, NetworkInv
  <2>2. g \in Nat BY DEF TestnetInv
  <2>3. PICK n \in Nat \ {0} : n = Len(layout.homes) BY LayoutFacts
  <2>4. ASSUME NEW j \in 1..3 * n PROVE Done(WritesOf(layout, g)[j])'
    <3>1. PICK other : other = WritesOf(layout, g)[j] OBVIOUS
    <3>2. other \in Writes /\ \A content \in other.contents : content \notin Marks
      BY <2>2, <2>3, <3>1, WritesFit
    <3>3. files[other.home][other.file] \in other.contents BY <2>1, <2>3, <3>1 DEF Done
    <3>4. other.home \in Homes /\ other.file \in FileNames BY <3>2 DEF Writes
    <3>5. files'[other.home][other.file] = files[other.home][other.file]
      <4>1. CASE files' = files BY <4>1
      <4>2. CASE files' # files
        <5>1. files[write.home][write.file] = Absent BY <4>2 DEF Touches, Keeps
        <5>2. other.home # write.home \/ other.file # write.file
          BY <3>2, <3>3, <5>1 DEF Marks
        <5>3. QED BY <3>4, <5>2, TouchedFiles DEF TestnetInv
      <4>3. QED BY <4>1, <4>2
    <3>6. files'[other.home][other.file] \in other.contents BY <3>3, <3>5
    <3>7. QED BY <3>1, <3>6 DEF Done
  <2>5. QED BY <1>2, <2>1, <2>3, <2>4 DEF NetworkInv
<1>3. QED BY <1>1, <1>2

(* A job that has written, or skipped, its next file.                           *)
LEMMA WrittenInv ==
  ASSUME TestnetInv, job # NoJob, NEW write, write = Head(job.todo), Touches(write),
         job.overwrite => Done(write)', Written, commands' = commands
  PROVE  TestnetInv'
<1>1. /\ commands \in Nat /\ job \in Jobs /\ job.todo # <<>>
      /\ \A j \in 1..Len(job.todo) : \A content \in job.todo[j].contents :
           Fits(job.todo[j].home, job.todo[j].file, content)
      /\ job.overwrite => network = <<>>
  BY DEF TestnetInv, JobInv
<1>2. PICK todo \in Seq(Writes) : todo = job.todo BY <1>1 DEF Jobs
<1>3. PICK left \in Nat \ {0} : left = Len(todo) BY <1>1, <1>2
<1>4. write = todo[1] /\ write \in Writes BY <1>2, <1>3
<1>5. FilesInv' BY <1>4, TouchedFiles DEF TestnetInv
<1>6. CASE left > 1
  <2>1. job' = [job EXCEPT !.todo = Tail(todo)] /\ network' = network
    BY <1>2, <1>3, <1>6 DEF Written
  <2>2. PICK rest \in Seq(Writes) : rest = Tail(todo) BY <1>1, <1>2, HeadTailProperties
  <2>3. Len(rest) = left - 1 /\ \A j \in 1..left - 1 : rest[j] = todo[j + 1]
    BY <1>3, <2>2
  <2>4. /\ job' \in Jobs /\ job'.todo = rest /\ job'.overwrite = job.overwrite
        /\ job'.makes = job.makes
    BY <1>1, <2>1, <2>2 DEF Jobs
  <2>5. JobInv'
    <3>1. rest # <<>> BY <1>6, <2>3
    <3>2. \A j \in 1..left - 1 : \A content \in rest[j].contents :
            Fits(rest[j].home, rest[j].file, content)
      BY <1>1, <1>2, <1>3, <2>3
    <3>3. QED BY <1>1, <2>1, <2>3, <2>4, <3>1, <3>2 DEF JobInv
  <2>6. MakingInv'
    <3>1. SUFFICES ASSUME job.makes # <<>> PROVE MakingInv' BY <2>4 DEF MakingInv
    <3>2. job.overwrite BY <3>1 DEF TestnetInv, MakingInv
    <3>3. PICK layout \in Layouts, g \in 0..commands :
            /\ layout.homes = job.makes
            /\ \E done \in 0..3 * Len(layout.homes) - 1 :
                 /\ Len(job.todo) = 3 * Len(layout.homes) - done
                 /\ \A j \in 1..Len(job.todo) : job.todo[j] = WritesOf(layout, g)[done + j]
                 /\ \A j \in 1..done : Done(WritesOf(layout, g)[j])
      BY <3>1 DEF TestnetInv, MakingInv
    <3>4. PICK n \in Nat \ {0} : n = Len(layout.homes) BY LayoutFacts
    <3>5. PICK done \in 0..3 * n - 1 :
            /\ left = 3 * n - done
            /\ \A j \in 1..left : todo[j] = WritesOf(layout, g)[done + j]
            /\ \A j \in 1..done : Done(WritesOf(layout, g)[j])
      BY <1>2, <1>3, <3>3, <3>4
    <3>6. done + 1 \in 0..3 * n - 1 /\ left - 1 = 3 * n - (done + 1) BY <1>6, <3>5
    <3>7. \A j \in 1..left - 1 : rest[j] = WritesOf(layout, g)[(done + 1) + j]
      <4>1. TAKE j \in 1..left - 1
      <4>2. rest[j] = todo[j + 1] /\ j + 1 \in 1..left BY <2>3
      <4>3. todo[j + 1] = WritesOf(layout, g)[done + (j + 1)] BY <3>5, <4>2
      <4>4. done + (j + 1) = (done + 1) + j OBVIOUS
      <4>5. QED BY <4>2, <4>3, <4>4
    <3>8. write = WritesOf(layout, g)[done + 1] BY <1>3, <1>4, <3>5
    <3>9. ASSUME NEW j \in 1..done + 1 PROVE Done(WritesOf(layout, g)[j])'
      <4>1. CASE j = done + 1
        <5>1. Done(write)' BY <3>2
        <5>2. QED BY <3>8, <4>1, <5>1 DEF Done
      <4>2. CASE j # done + 1
        <5>1. j \in 1..done /\ j \in 1..3 * n /\ done + 1 \in 1..3 * n BY <4>2, <3>5
        <5>2. PICK other : other = WritesOf(layout, g)[j] OBVIOUS
        <5>3. g \in Nat BY <1>1
        <5>4. other \in Writes BY <3>4, <5>1, <5>2, <5>3, WritesFit
        <5>5. other.home # write.home \/ other.file # write.file
          BY <3>4, <3>8, <4>2, <5>1, <5>2, <5>3, WritesFit
        <5>6. files[other.home][other.file] \in other.contents BY <3>5, <5>1, <5>2 DEF Done
        <5>7. other.home \in Homes /\ other.file \in FileNames BY <5>4 DEF Writes
        <5>8. files'[other.home][other.file] = files[other.home][other.file]
          BY <1>4, <5>5, <5>7, TouchedFiles DEF TestnetInv
        <5>9. QED BY <5>2, <5>6, <5>8 DEF Done
      <4>3. QED BY <4>1, <4>2
    <3>10. \E d \in 0..3 * n - 1 :
             /\ Len(job'.todo) = 3 * n - d
             /\ \A j \in 1..Len(job'.todo) : job'.todo[j] = WritesOf(layout, g)[d + j]
             /\ \A j \in 1..d : Done(WritesOf(layout, g)[j])'
      BY <2>3, <2>4, <3>6, <3>7, <3>9
    <3>11. QED BY <2>4, <3>2, <3>3, <3>4, <3>10 DEF MakingInv
  <2>7. NetworkInv'
    <3>1. CASE network = <<>> BY <2>1, <3>1 DEF NetworkInv
    <3>2. CASE network # <<>> BY <1>1, <1>4, <2>1, <3>2, NetworkKept
    <3>3. QED BY <3>1, <3>2
  <2>8. QED BY <1>1, <1>5, <2>5, <2>6, <2>7 DEF TestnetInv
<1>7. CASE left = 1
  <2>1. job' = NoJob /\ network' = IF job.makes = <<>> THEN network ELSE job.makes
    BY <1>2, <1>3, <1>7 DEF Written
  <2>2. JobInv' /\ MakingInv' BY <2>1 DEF JobInv, MakingInv, NoJob
  <2>3. NetworkInv'
    <3>1. CASE job.makes = <<>>
      <4>1. CASE network = <<>> BY <2>1, <3>1, <4>1 DEF NetworkInv
      <4>2. CASE network # <<>> BY <1>1, <1>4, <2>1, <3>1, <4>2, NetworkKept
      <4>3. QED BY <4>1, <4>2
    <3>2. CASE job.makes # <<>>
      <4>1. job.overwrite BY <3>2 DEF TestnetInv, MakingInv
      <4>2. PICK layout \in Layouts, g \in 0..commands :
              /\ layout.homes = job.makes
              /\ \E done \in 0..3 * Len(layout.homes) - 1 :
                   /\ Len(job.todo) = 3 * Len(layout.homes) - done
                   /\ \A j \in 1..Len(job.todo) : job.todo[j] = WritesOf(layout, g)[done + j]
                   /\ \A j \in 1..done : Done(WritesOf(layout, g)[j])
        BY <3>2 DEF TestnetInv, MakingInv
      <4>3. PICK n \in Nat \ {0} : n = Len(layout.homes) BY LayoutFacts
      <4>4. PICK done \in 0..3 * n - 1 :
              /\ left = 3 * n - done
              /\ \A j \in 1..left : todo[j] = WritesOf(layout, g)[done + j]
              /\ \A j \in 1..done : Done(WritesOf(layout, g)[j])
        BY <1>2, <1>3, <4>2, <4>3
      <4>5. done = 3 * n - 1 BY <1>7, <4>4
      <4>6. write = WritesOf(layout, g)[3 * n]
        <5>1. write = WritesOf(layout, g)[done + 1] BY <1>3, <1>4, <4>4
        <5>2. done + 1 = 3 * n BY <4>5
        <5>3. QED BY <5>1, <5>2
      <4>7. ASSUME NEW j \in 1..3 * n PROVE Done(WritesOf(layout, g)[j])'
        <5>1. CASE j = 3 * n
          <6>1. Done(write)' BY <4>1
          <6>2. QED BY <4>6, <5>1, <6>1 DEF Done
        <5>2. CASE j # 3 * n
          <6>1. j \in 1..done /\ 3 * n \in 1..3 * n BY <5>2, <4>5
          <6>2. PICK other : other = WritesOf(layout, g)[j] OBVIOUS
          <6>3. g \in Nat BY <1>1
          <6>4. other \in Writes BY <4>3, <6>2, <6>3, WritesFit
          <6>5. other.home # write.home \/ other.file # write.file
            <7>1. PICK last \in 1..3 * n : last = 3 * n OBVIOUS
            <7>2. PICK all : all = WritesOf(layout, g) OBVIOUS
            <7>3. \A i \in 1..3 * n : i # j =>
                    all[i].home # all[j].home \/ all[i].file # all[j].file
              BY <4>3, <6>3, <7>2, OwnFiles
            <7>4. write = all[last] /\ j # last BY <4>6, <5>2, <7>1, <7>2
            <7>5. QED BY <6>2, <7>2, <7>3, <7>4
          <6>6. files[other.home][other.file] \in other.contents BY <4>4, <6>1, <6>2 DEF Done
          <6>7. other.home \in Homes /\ other.file \in FileNames BY <6>4 DEF Writes
          <6>8. files'[other.home][other.file] = files[other.home][other.file]
            BY <1>4, <6>5, <6>7, TouchedFiles DEF TestnetInv
          <6>9. QED BY <6>2, <6>6, <6>8 DEF Done
        <5>3. QED BY <5>1, <5>2
      <4>8. network' = layout.homes BY <2>1, <3>2, <4>2
      <4>9. QED BY <4>2, <4>3, <4>7, <4>8 DEF NetworkInv
    <3>3. QED BY <3>1, <3>2
  <2>4. QED BY <1>1, <1>5, <2>2, <2>3 DEF TestnetInv
<1>8. QED BY <1>3, <1>6, <1>7

(* A job cut short.                                                             *)
LEMMA InterruptInv ==
  ASSUME TestnetInv, Interrupt
  PROVE  TestnetInv'
<1>1. job # NoJob /\ job' = NoJob /\ network' = network /\ commands' = commands BY DEF Interrupt
<1>2. PICK write : write = Head(job.todo) OBVIOUS
<1>3. write \in Writes /\ (job.overwrite => network = <<>>)
  <2>1. job \in Jobs /\ job.todo # <<>> BY <1>1 DEF TestnetInv, JobInv
  <2>2. PICK todo \in Seq(Writes) : todo = job.todo BY <2>1 DEF Jobs
  <2>3. Head(todo) \in Writes BY <2>1, <2>2
  <2>4. QED BY <1>1, <1>2, <2>2, <2>3 DEF TestnetInv, JobInv
<1>4. Touches(write)
  <2>1. Fits(write.home, write.file, Truncated) BY DEF Fits, Marks
  <2>2. QED BY <1>2, <2>1 DEF Interrupt, Touches
<1>5. FilesInv' BY <1>3, <1>4, TouchedFiles DEF TestnetInv
<1>6. JobInv' /\ MakingInv' BY <1>1 DEF JobInv, MakingInv, NoJob
<1>7. NetworkInv'
  <2>1. CASE network = <<>> BY <1>1, <2>1 DEF NetworkInv
  <2>2. CASE network # <<>> BY <1>1, <1>3, <1>4, <2>2, NetworkKept
  <2>3. QED BY <2>1, <2>2
<1>8. QED BY <1>1, <1>5, <1>6, <1>7 DEF TestnetInv

(* The next file saved, or kept.                                                *)
LEMMA SaveFileInv ==
  ASSUME TestnetInv, SaveFile
  PROVE  TestnetInv'
<1>1. job # NoJob /\ Written /\ commands' = commands BY DEF SaveFile
<1>2. PICK write : write = Head(job.todo) OBVIOUS
<1>3. PICK content \in write.contents :
        ~ Keeps(write) /\ files' = [files EXCEPT ![write.home][write.file] = content]
  BY <1>2 DEF SaveFile
<1>4. write \in Writes /\ Fits(write.home, write.file, content)
  <2>1. job \in Jobs /\ job.todo # <<>> BY <1>1 DEF TestnetInv, JobInv
  <2>2. PICK todo \in Seq(Writes) : todo = job.todo BY <2>1 DEF Jobs
  <2>3. Head(todo) \in Writes /\ Head(todo) = todo[1] /\ 1 \in 1..Len(todo) BY <2>1, <2>2
  <2>4. Fits(todo[1].home, todo[1].file, content) BY <1>1, <1>2, <1>3, <2>2, <2>3
    DEF TestnetInv, JobInv
  <2>5. QED BY <1>2, <2>2, <2>3, <2>4
<1>5. Touches(write) BY <1>3, <1>4 DEF Touches
<1>6. Done(write)'
  <2>1. write.home \in Homes /\ write.file \in FileNames BY <1>4 DEF Writes
  <2>2. files'[write.home][write.file] = content BY <1>3, <2>1 DEF TestnetInv, FilesInv
  <2>3. QED BY <1>3, <2>2 DEF Done
<1>7. QED BY <1>1, <1>2, <1>5, <1>6, WrittenInv

(* A file that is kept counts as done: only init keeps files, and it makes no   *)
(* network.                                                                     *)
LEMMA SkipFileInv ==
  ASSUME TestnetInv, SkipFile
  PROVE  TestnetInv'
<1>1. job # NoJob /\ Written /\ commands' = commands /\ files' = files BY DEF SkipFile
<1>2. PICK write : write = Head(job.todo) OBVIOUS
<1>3. ~ job.overwrite BY DEF SkipFile, Keeps
<1>4. Touches(write) BY <1>1 DEF Touches
<1>5. QED BY <1>1, <1>2, <1>3, <1>4, WrittenInv

(* Before the first command no file exists.                                     *)
LEMMA InitInv ==
  ASSUME Init
  PROVE  TestnetInv
<1>1. FilesInv
  <2>1. \A home, file : Fits(home, file, Absent) BY DEF Fits, Marks
  <2>2. DOMAIN NoFiles = FileNames /\ \A file \in FileNames : NoFiles[file] = Absent
    BY DEF NoFiles, FileNames
  <2>3. QED BY <2>1, <2>2 DEF Init, FilesInv
<1>2. JobInv /\ MakingInv /\ NetworkInv BY DEF Init, JobInv, MakingInv, NetworkInv, NoJob
<1>3. QED BY <1>1, <1>2 DEF Init, TestnetInv

(* Every command, write and interrupt keeps the invariant.                      *)
LEMMA NextInv ==
  ASSUME TestnetInv, [Next]_vars
  PROVE  TestnetInv'
<1>1. ASSUME NEW n \in 1..MaxNodes, NEW deterministic \in BOOLEAN, NEW discovery \in BOOLEAN,
             TestnetCmd(n, deterministic, discovery)
      PROVE  TestnetInv'
  <2>1. PICK layout : layout = TestnetLayout(n, discovery) OBVIOUS
  <2>2. layout \in Layouts BY <2>1 DEF Layouts
  <2>3. MakeNetwork(layout.homes, layout.configs, deterministic)
    BY <1>1, <2>1 DEF TestnetCmd, TestnetLayout
  <2>4. QED BY <2>2, <2>3, MakeNetworkInv
<1>2. ASSUME NEW n \in 1..MaxNodes, NEW machines \in 1..MaxMachines,
             NEW bootstrap \in 1..MaxBootstrap, NEW deterministic \in BOOLEAN,
             NEW discovery \in BOOLEAN,
             DistributedTestnetCmd(n, deterministic, machines, discovery, bootstrap)
      PROVE  TestnetInv'
  <2>1. PICK layout : layout = DistributedLayout(n, machines, discovery, bootstrap) OBVIOUS
  <2>2. layout \in Layouts BY <2>1 DEF Layouts
  <2>3. MakeNetwork(layout.homes, layout.configs, deterministic)
    BY <1>2, <2>1 DEF DistributedTestnetCmd, DistributedLayout
  <2>4. QED BY <2>2, <2>3, MakeNetworkInv
<1>3. ASSUME NEW i \in Indices, NEW overwrite \in BOOLEAN, InitCmd(Home(i), overwrite)
      PROVE  TestnetInv'
  BY <1>3, InitCmdInv
<1>4. CASE SaveFile BY <1>4, SaveFileInv
<1>5. CASE SkipFile BY <1>5, SkipFileInv
<1>6. CASE Interrupt BY <1>6, InterruptInv
<1>7. CASE UNCHANGED vars
  BY <1>7 DEF vars, TestnetInv, FilesInv, JobInv, MakingInv, NetworkInv, Done
<1>8. QED BY <1>1, <1>2, <1>3, <1>4, <1>5, <1>6, <1>7 DEF Next

(* The files, the running command and the last network always fit together.     *)
THEOREM TestnetInvariant == Spec => []TestnetInv
<1>1. Init => TestnetInv BY InitInv
<1>2. TestnetInv /\ [Next]_vars => TestnetInv' BY NextInv
<1>3. QED BY <1>1, <1>2, PTL DEF Spec

-------------------------------------------------------------------------------
(* The properties.                                                              *)

(* A home that holds a key and a genesis of the fixed seed is that of a         *)
(* validator of its genesis, however many commands wrote them.                  *)
THEOREM RerunFits == Spec => []DeterministicRerun
<1>1. TestnetInv => DeterministicRerun
  <2>1. SUFFICES ASSUME TestnetInv, NEW home \in Homes,
                        Readable(files[home].key), Readable(files[home].genesis),
                        files[home].key.generator = 0,
                        \A key \in files[home].genesis.validators : key.generator = 0
                 PROVE  files[home].key \in files[home].genesis.validators
    BY DEF DeterministicRerun
  <2>2. PICK key : key = files[home].key OBVIOUS
  <2>3. PICK genesis : genesis = files[home].genesis OBVIOUS
  <2>4. Fits(home, "key", key) /\ Fits(home, "genesis", genesis)
    <3>1. "key" \in FileNames /\ "genesis" \in FileNames BY DEF FileNames
    <3>2. Fits(home, "key", files[home]["key"]) /\ Fits(home, "genesis", files[home]["genesis"])
      BY <2>1, <3>1 DEF TestnetInv, FilesInv
    <3>3. QED BY <2>2, <2>3, <3>2
  <2>5. key \in Keys /\ key.index = IndexOf(home) /\ key.generator = 0
    BY <2>1, <2>2, <2>4 DEF Fits, Readable, Marks
  <2>6. KeyOf(0, IndexOf(home)) \in genesis.validators
    BY <2>1, <2>3, <2>4 DEF Fits, Readable, Marks
  <2>7. key = KeyOf(0, IndexOf(home)) BY <2>5 DEF KeyOf, Keys
  <2>8. QED BY <2>2, <2>3, <2>6, <2>7
<1>2. QED BY <1>1, TestnetInvariant, PTL

(* What the files of a network made hold.                                       *)
LEMMA MembersHold ==
  ASSUME TestnetInv, network # <<>>
  PROVE  \E layout \in Layouts, g \in Nat :
           /\ layout.homes = network
           /\ DOMAIN network = 1..Len(network) /\ Len(network) \in Nat \ {0}
           /\ \A k \in 1..Len(network) :
                /\ files[network[k]].config \in layout.configs[k]
                /\ files[network[k]].config \in Configs
                /\ files[network[k]].key = KeyOf(g, k - 1)
                /\ files[network[k]].genesis = GenesisOf(g, Len(network))
<1>1. PICK layout \in Layouts, g \in Nat :
        /\ layout.homes = network
        /\ \A j \in 1..3 * Len(layout.homes) : Done(WritesOf(layout, g)[j])
  BY DEF TestnetInv, NetworkInv
<1>2. PICK n \in Nat \ {0} : n = Len(layout.homes) BY LayoutFacts
<1>3. network \in Seq(Homes) BY <1>1, LayoutFacts
<1>4. ThreeEach(layout, g, n) BY <1>2, WriteFacts
<1>5. ASSUME NEW k \in 1..n
      PROVE  /\ files[network[k]].config \in layout.configs[k]
             /\ files[network[k]].config \in Configs
             /\ files[network[k]].key = KeyOf(g, k - 1)
             /\ files[network[k]].genesis = GenesisOf(g, n)
  <2>1. 3 * k - 2 \in 1..3 * n /\ 3 * k - 1 \in 1..3 * n /\ 3 * k \in 1..3 * n OBVIOUS
  <2>2. /\ Done(WritesOf(layout, g)[3 * k - 2]) /\ Done(WritesOf(layout, g)[3 * k - 1])
        /\ Done(WritesOf(layout, g)[3 * k])
    BY <1>1, <1>2, <2>1
  <2>3. /\ Done(Write(network[k], "config", layout.configs[k]))
        /\ Done(Write(network[k], "key", {KeyOf(g, k - 1)}))
        /\ Done(Write(network[k], "genesis", {GenesisOf(g, n)}))
    BY <1>1, <1>4, <2>2 DEF ThreeEach
  <2>4. \A config \in layout.configs[k] : config \in Configs BY <1>2, LayoutFacts
  <2>5. QED BY <2>3, <2>4 DEF Done, Write
<1>6. QED BY <1>1, <1>2, <1>3, <1>5

(* Each node of a network made starts, with a key of its own that is one of the *)
(* validators of the one genesis, and no validator is without a node.           *)
THEOREM MadeNetworksAreWhole == Spec => []NodesAreTheValidators
<1>1. TestnetInv => NodesAreTheValidators
  <2>1. SUFFICES ASSUME TestnetInv, network # <<>> PROVE NodesAreTheValidators
    BY DEF NodesAreTheValidators, Members
  <2>2. PICK layout \in Layouts, g \in Nat :
           /\ layout.homes = network
           /\ DOMAIN network = 1..Len(network) /\ Len(network) \in Nat \ {0}
           /\ \A k \in 1..Len(network) :
                /\ files[network[k]].config \in layout.configs[k]
                /\ files[network[k]].config \in Configs
                /\ files[network[k]].key = KeyOf(g, k - 1)
                /\ files[network[k]].genesis = GenesisOf(g, Len(network))
    BY <2>1, MembersHold
  <2>3. PICK n \in Nat \ {0} : n = Len(network) BY <2>2
  <2>4. Members = 1..n BY <2>2, <2>3 DEF Members
  <2>5. \A k \in 1..n : KeyOf(g, k - 1) \in Keys /\ KeyOf(g, k - 1).index = k - 1
    BY <2>2 DEF KeyOf, Keys
  <2>6. GenesisOf(g, n) \in Geneses BY <2>2 DEF GenesisOf, Genesis, Geneses, KeyOf, Keys
  <2>7. \A k \in 1..n : Starts(network[k])
    <3>1. TAKE k \in 1..n
    <3>2. /\ files[network[k]].config \in Configs /\ files[network[k]].key \in Keys
          /\ files[network[k]].genesis \in Geneses
      BY <2>2, <2>3, <2>5, <2>6
    <3>3. DOMAIN NoFiles = FileNames BY DEF NoFiles, FileNames
    <3>4. QED BY <3>2, <3>3, MarksAssumption DEF Starts, Readable, FileNames
  <2>8. \A k \in 1..n : FilesOfMember(k).genesis.validators = {FilesOfMember(l).key : l \in 1..n}
    <3>1. {FilesOfMember(l).key : l \in 1..n} = {KeyOf(g, l - 1) : l \in 1..n}
      BY <2>2, <2>3 DEF FilesOfMember
    <3>2. {KeyOf(g, l - 1) : l \in 1..n} = {KeyOf(g, i) : i \in 0..n-1}
      <4>1. \A l \in 1..n : l - 1 \in 0..n-1 OBVIOUS
      <4>2. \A i \in 0..n-1 : i + 1 \in 1..n /\ (i + 1) - 1 = i OBVIOUS
      <4>3. QED BY <4>1, <4>2
    <3>3. GenesisOf(g, n).validators = {KeyOf(g, i) : i \in 0..n-1} BY DEF GenesisOf, Genesis
    <3>4. QED BY <2>2, <2>3, <3>1, <3>2, <3>3 DEF FilesOfMember
  <2>9. \A k, l \in 1..n : k # l => FilesOfMember(k).key # FilesOfMember(l).key
    BY <2>2, <2>3, <2>5 DEF FilesOfMember
  <2>10. QED BY <2>4, <2>7, <2>8, <2>9 DEF NodesAreTheValidators
<1>2. QED BY <1>1, TestnetInvariant, PTL

(* The peers a layout may give: never the node itself, and with any choice each *)
(* of several nodes dials another or is dialled by it.                          *)
Connected(n, peers) ==
  \A k \in 1..n :
    /\ peers[k] \subseteq (0..n-1) \ {k - 1}
    /\ n > 1 => \E l \in (1..n) \ {k} : l - 1 \in peers[k] \/ k - 1 \in peers[l]

(* Whatever configurations the nodes of a layout get, their peers connect       *)
(* them, and they are on the machines of one command.                           *)
LEMMA LayoutConnects ==
  ASSUME NEW layout \in Layouts, NEW n, n = Len(layout.homes),
         NEW configs, \A k \in 1..n : configs[k] \in layout.configs[k]
  PROVE  \E machines \in 1..MaxMachines \cup {1} : \E peers :
           /\ \A k \in 1..n : configs[k] = Config(machines, k - 1, peers[k])
           /\ Connected(n, peers) /\ n <= MaxNodes
<1>0. MaxNodes \in Nat /\ MaxMachines \in Nat /\ MaxBootstrap \in Nat BY BoundsAssumption
<1>1. CASE \E m \in 1..MaxNodes, discovery \in BOOLEAN : layout = TestnetLayout(m, discovery)
  <2>1. PICK m \in 1..MaxNodes, discovery \in BOOLEAN : layout = TestnetLayout(m, discovery)
    BY <1>1
  <2>2. /\ n = m
        /\ \A k \in 1..n : layout.configs[k] =
             {Config(1, k - 1, p) : p \in TestnetPeers(n, discovery, k - 1)}
    BY <2>1, TestnetLayoutFacts
  <2>3. \A k \in 1..n : \E p \in TestnetPeers(n, discovery, k - 1) :
          configs[k] = Config(1, k - 1, p)
    BY <2>2
  <2>4. PICK peers : peers = [k \in 1..n |->
          CHOOSE p \in TestnetPeers(n, discovery, k - 1) : configs[k] = Config(1, k - 1, p)]
    OBVIOUS
  <2>5. \A k \in 1..n : /\ peers[k] \in TestnetPeers(n, discovery, k - 1)
                        /\ configs[k] = Config(1, k - 1, peers[k])
    BY <2>3, <2>4
  <2>6. n \in Nat \ {0} BY <1>0, <2>2
  <2>7. ASSUME NEW k \in 1..n
        PROVE  peers[k] \subseteq (0..n-1) \ {k - 1} /\ (n > 1 => peers[k] # {})
    <3>1. PICK i \in 0..n-1 : i = k - 1 BY <2>6
    <3>2. PICK p : p = peers[k] OBVIOUS
    <3>3. p \in TestnetPeers(n, discovery, i) BY <2>5, <3>1, <3>2
    <3>4. p \subseteq (0..n-1) \ {i} /\ (n > 1 => p # {}) BY <2>6, <3>3, TestnetPeersFacts
    <3>5. QED BY <3>1, <3>2, <3>4
  <2>8. ASSUME NEW k \in 1..n, n > 1
        PROVE  \E l \in (1..n) \ {k} : l - 1 \in peers[k]
    <3>1. PICK j \in (0..n-1) \ {k - 1} : j \in peers[k] BY <2>7, <2>8
    <3>2. j + 1 \in (1..n) \ {k} /\ (j + 1) - 1 \in peers[k] BY <2>6, <3>1
    <3>3. QED BY <3>2
  <2>9. Connected(n, peers) BY <2>7, <2>8 DEF Connected
  <2>10. n <= MaxNodes BY <1>0, <2>2
  <2>11. QED BY <2>5, <2>9, <2>10
<1>2. CASE \E m \in 1..MaxNodes, machines \in 1..MaxMachines, discovery \in BOOLEAN,
             bootstrap \in 1..MaxBootstrap :
             layout = DistributedLayout(m, machines, discovery, bootstrap)
  <2>1. PICK m \in 1..MaxNodes, machines \in 1..MaxMachines, discovery \in BOOLEAN,
             bootstrap \in 1..MaxBootstrap :
             layout = DistributedLayout(m, machines, discovery, bootstrap)
    BY <1>2
  <2>2. /\ n = m
        /\ \A k \in 1..n : layout.configs[k] =
             {Config(machines, k - 1, DistributedPeers(discovery, bootstrap, k - 1))}
    BY <2>1, DistributedLayoutFacts
  <2>3. PICK peers : peers = [k \in 1..n |-> DistributedPeers(discovery, bootstrap, k - 1)]
    OBVIOUS
  <2>4. \A k \in 1..n : configs[k] = Config(machines, k - 1, peers[k]) BY <2>2, <2>3
  <2>5. n \in Nat \ {0} /\ bootstrap \in Nat \ {0} BY <1>0, <2>2
  <2>6. ASSUME NEW k \in 1..n
        PROVE  peers[k] \subseteq 0..k-2 /\ (k > 1 => k - 2 \in peers[k])
    <3>1. PICK i \in Nat : i = k - 1 BY <2>5
    <3>2. PICK p : p = peers[k] OBVIOUS
    <3>3. p = DistributedPeers(discovery, bootstrap, i) BY <2>3, <3>1, <3>2
    <3>4. p \subseteq 0..i-1 /\ (i > 0 => i - 1 \in p) BY <2>5, <3>3, DistributedPeersFacts
    <3>5. i - 1 = k - 2 BY <3>1
    <3>6. QED BY <3>1, <3>2, <3>4, <3>5
  <2>7. \A k \in 1..n : peers[k] \subseteq (0..n-1) \ {k - 1} BY <2>5, <2>6
  <2>8. ASSUME NEW k \in 1..n, n > 1
        PROVE  \E l \in (1..n) \ {k} : l - 1 \in peers[k] \/ k - 1 \in peers[l]
    <3>1. CASE k > 1
      <4>1. k - 1 \in (1..n) \ {k} /\ (k - 1) - 1 \in peers[k] BY <2>5, <2>6, <3>1
      <4>2. QED BY <4>1
    <3>2. CASE k = 1
      <4>1. 2 \in 1..n BY <2>5, <2>8
      <4>2. 2 - 2 \in peers[2] BY <2>6, <4>1
      <4>3. 2 \in (1..n) \ {k} /\ k - 1 \in peers[2] BY <3>2, <4>1, <4>2
      <4>4. QED BY <4>3
    <3>3. QED BY <2>5, <3>1, <3>2
  <2>9. Connected(n, peers) BY <2>7, <2>8 DEF Connected
  <2>10. n <= MaxNodes BY <1>0, <2>2
  <2>11. QED BY <2>4, <2>9, <2>10
<1>3. QED BY <1>1, <1>2 DEF Layouts

(* Addresses tell nodes apart, and with fewer nodes than there are numbers      *)
(* between the base ports a consensus port is never a metrics port.             *)
LEMMA AddressesDiffer ==
  ASSUME NEW machines \in Nat \ {0}, NEW i \in Nat, NEW j \in Nat
  PROVE  /\ \A base \in Nat : Address(base, machines, i) = Address(base, machines, j) => i = j
         /\ i < MetricsBasePort - ConsensusBasePort =>
              ListenAddress(machines, i) # MetricsAddress(machines, j)
<1>1. PICK d : d = i \div machines OBVIOUS
<1>2. PICK e : e = j \div machines OBVIOUS
<1>3. PICK r : r = i % machines OBVIOUS
<1>4. PICK s : s = j % machines OBVIOUS
<1>5. d \in Nat /\ r \in Nat /\ i = machines * d + r BY <1>1, <1>3
<1>6. e \in Nat /\ s \in Nat /\ j = machines * e + s BY <1>2, <1>4
<1>7. \A base \in Nat : /\ Address(base, machines, i) = [machine |-> r, port |-> base + d]
                        /\ Address(base, machines, j) = [machine |-> s, port |-> base + e]
  BY <1>1, <1>2, <1>3, <1>4 DEF Address
<1>8. ASSUME NEW base \in Nat, Address(base, machines, i) = Address(base, machines, j)
      PROVE  i = j
  <2>1. r = s /\ base + d = base + e BY <1>7, <1>8
  <2>2. d = e BY <1>5, <1>6, <2>1
  <2>3. QED BY <1>5, <1>6, <2>1, <2>2
<1>9. ASSUME i < MetricsBasePort - ConsensusBasePort
      PROVE  ListenAddress(machines, i) # MetricsAddress(machines, j)
  <2>1. d <= i BY <1>5
  <2>2. ConsensusBasePort \in Nat /\ MetricsBasePort \in Nat
    BY DEF ConsensusBasePort, MetricsBasePort
  <2>3. ConsensusBasePort + d # MetricsBasePort + e BY <1>5, <1>6, <1>9, <2>1, <2>2
  <2>4. /\ ListenAddress(machines, i).port = ConsensusBasePort + d
        /\ MetricsAddress(machines, j).port = MetricsBasePort + e
    BY <1>7, <2>2 DEF ListenAddress, MetricsAddress
  <2>5. QED BY <2>3, <2>4
<1>10. QED BY <1>8, <1>9

(* In a network made, of up to 2000 nodes, no two servers listen on one         *)
(* address, a node dials other nodes only, none is alone, and three are all     *)
(* connected.  (With more nodes on one machine the consensus ports reach the    *)
(* metrics ports.)                                                              *)
THEOREM MadeNetworksConnect ==
  ASSUME MaxNodes <= MetricsBasePort - ConsensusBasePort
  PROVE  Spec => []NodesFindEachOther
<1>1. TestnetInv => NodesFindEachOther
  <2>1. SUFFICES ASSUME TestnetInv, network # <<>> PROVE NodesFindEachOther
    BY DEF NodesFindEachOther, Members
  <2>2. PICK layout \in Layouts :
           /\ layout.homes = network
           /\ DOMAIN network = 1..Len(network) /\ Len(network) \in Nat \ {0}
           /\ \A k \in 1..Len(network) : files[network[k]].config \in layout.configs[k]
    BY <2>1, MembersHold
  <2>3. PICK n \in Nat \ {0} : n = Len(network) BY <2>2
  <2>4. Members = 1..n BY <2>2, <2>3 DEF Members
  <2>5. PICK configs : configs = [k \in 1..n |-> files[network[k]].config] OBVIOUS
  <2>6. \A k \in 1..n : /\ FilesOfMember(k).config = configs[k]
                        /\ configs[k] \in layout.configs[k]
    BY <2>2, <2>3, <2>5 DEF FilesOfMember
  <2>7. PICK machines \in 1..MaxMachines \cup {1} : \E peers :
           /\ \A k \in 1..n : configs[k] = Config(machines, k - 1, peers[k])
           /\ Connected(n, peers) /\ n <= MaxNodes
    BY <2>2, <2>3, <2>6, LayoutConnects
  <2>8. PICK peers :
           /\ \A k \in 1..n : configs[k] = Config(machines, k - 1, peers[k])
           /\ Connected(n, peers) /\ n <= MaxNodes
    BY <2>7
  <2>9. machines \in Nat \ {0} /\ MaxNodes \in Nat BY BoundsAssumption
  <2>10. \A k \in 1..n :
           /\ FilesOfMember(k).config.listen_addr = ListenAddress(machines, k - 1)
           /\ FilesOfMember(k).config.metrics = MetricsAddress(machines, k - 1)
           /\ FilesOfMember(k).config.persistent_peers
                = {ListenAddress(machines, j) : j \in peers[k]}
    <3>1. TAKE k \in 1..n
    <3>2. FilesOfMember(k).config = Config(machines, k - 1, peers[k]) BY <2>6, <2>8
    <3>3. PICK listen : listen = ListenAddress(machines, k - 1) OBVIOUS
    <3>4. PICK metrics : metrics = MetricsAddress(machines, k - 1) OBVIOUS
    <3>5. PICK dials : dials = {ListenAddress(machines, j) : j \in peers[k]} OBVIOUS
    <3>6. Config(machines, k - 1, peers[k])
            = [listen_addr |-> listen, metrics |-> metrics, persistent_peers |-> dials]
      BY <3>3, <3>4, <3>5 DEF Config
    <3>7. QED BY <3>2, <3>3, <3>4, <3>5, <3>6
  <2>11. ASSUME NEW i \in 0..n-1, NEW j \in 0..n-1
         PROVE  /\ ListenAddress(machines, i) = ListenAddress(machines, j) => i = j
                /\ MetricsAddress(machines, i) = MetricsAddress(machines, j) => i = j
                /\ ListenAddress(machines, i) # MetricsAddress(machines, j)
    <3>2. ConsensusBasePort \in Nat /\ MetricsBasePort \in Nat
      BY DEF ConsensusBasePort, MetricsBasePort
    <3>1. i < MetricsBasePort - ConsensusBasePort BY <2>8, <2>9, <3>2
    <3>3. \A base \in Nat : Address(base, machines, i) = Address(base, machines, j) => i = j
      BY <2>9, AddressesDiffer
    <3>4. ListenAddress(machines, i) # MetricsAddress(machines, j)
      BY <2>9, <3>1, AddressesDiffer
    <3>5. QED BY <3>2, <3>3, <3>4 DEF ListenAddress, MetricsAddress
  <2>12. \A k \in 1..n : k - 1 \in 0..n-1 /\ peers[k] \subseteq (0..n-1) \ {k - 1}
    BY <2>8 DEF Connected
  <2>13. ASSUME NEW k \in 1..n, NEW l \in 1..n PROVE Dials(k, l) <=> l - 1 \in peers[k]
    <3>1. Dials(k, l) <=> \E j \in peers[k] : ListenAddress(machines, l - 1) = ListenAddress(machines, j)
      BY <2>10 DEF Dials
    <3>2. \A j \in peers[k] : ListenAddress(machines, l - 1) = ListenAddress(machines, j) => l - 1 = j
      BY <2>11, <2>12
    <3>3. QED BY <3>1, <3>2
  <2>14. \A k, l \in 1..n : k # l => ListenersOf(k) \cap ListenersOf(l) = {}
    <3>1. TAKE k, l \in 1..n
    <3>2. HAVE k # l
    <3>3. PICK i \in 0..n-1 : i = k - 1 BY <2>12
    <3>4. PICK j \in 0..n-1 : j = l - 1 BY <2>12
    <3>5. i # j BY <3>2, <3>3, <3>4
    <3>6. ListenersOf(k) = {ListenAddress(machines, i), MetricsAddress(machines, i)}
      BY <2>10, <3>3 DEF ListenersOf
    <3>7. ListenersOf(l) = {ListenAddress(machines, j), MetricsAddress(machines, j)}
      BY <2>10, <3>4 DEF ListenersOf
    <3>8. QED BY <2>11, <3>5, <3>6, <3>7
  <2>15. ASSUME NEW k \in 1..n
         PROVE  /\ ~ Dials(k, k)
                /\ FilesOfMember(k).config.persistent_peers
                     \subseteq {FilesOfMember(l).config.listen_addr : l \in 1..n}
    <3>1. ~ Dials(k, k) BY <2>12, <2>13
    <3>2. ASSUME NEW j \in peers[k]
          PROVE  ListenAddress(machines, j) \in {FilesOfMember(l).config.listen_addr : l \in 1..n}
      <4>1. j \in 0..n-1 BY <2>12
      <4>2. PICK l \in 1..n : l = j + 1 BY <4>1
      <4>3. j = l - 1 BY <4>1, <4>2
      <4>4. FilesOfMember(l).config.listen_addr = ListenAddress(machines, j) BY <2>10, <4>3
      <4>5. QED BY <4>4
    <3>3. QED BY <2>10, <3>1, <3>2
  <2>16. \A k \in 1..n : n > 1 => \E l \in (1..n) \ {k} : Dials(k, l) \/ Dials(l, k)
    BY <2>8, <2>13 DEF Connected
  <2>17. \A k \in 1..n : n > 1 => Linked({k}) # {k}
    BY <2>4, <2>16 DEF Linked
  <2>18. ASSUME NEW k \in 1..n, n <= 3 PROVE Linked(Linked({k})) = 1..n
    <3>1. PICK near : near = Linked({k}) OBVIOUS
    <3>2. near \subseteq 1..n /\ \A m \in 1..n : m \in near <=> m = k \/ Dials(k, m) \/ Dials(m, k)
      BY <2>4, <3>1 DEF Linked
    <3>3. \A m \in 1..n : m \in Linked(near)
      <4>1. TAKE m \in 1..n
      <4>2. CASE m \in near BY <4>2 DEF Linked
      <4>3. CASE m \notin near
        <5>1. m # k /\ n > 1 BY <3>2, <4>3
        <5>2. PICK l \in (1..n) \ {m} : Dials(m, l) \/ Dials(l, m) BY <2>16, <5>1
        <5>3. PICK x \in (1..n) \ {k} : Dials(k, x) \/ Dials(x, k) BY <2>16, <5>1
        <5>4. l # k /\ x # m BY <3>2, <4>3, <5>2, <5>3
        <5>5. x = l BY <2>18, <5>1, <5>2, <5>3, <5>4
        <5>6. l \in near BY <3>2, <5>3, <5>5
        <5>7. QED BY <2>4, <5>2, <5>6 DEF Linked
      <4>4. QED BY <4>2, <4>3
    <3>4. Linked(near) \subseteq 1..n BY <2>4, <3>2 DEF Linked
    <3>5. QED BY <3>1, <3>3, <3>4
  <2>19. QED BY <2>3, <2>4, <2>14, <2>15, <2>17, <2>18 DEF NodesFindEachOther
<1>2. QED BY <1>1, TestnetInvariant, PTL
===============================================================================
