---------------------------- MODULE SadSpdProofs ----------------------------
(***************************************************************************)
(* Theorems about the operators of IpsecEntries, about Sad, for any number *)
(* of entries, SAs and foreign SAs, and about Spd, for any number of       *)
(* entries and policies, each under any order of calls.                    *)
(***************************************************************************)
EXTENDS Sad, Spd, SequenceLemmas

-----------------------------------------------------------------------------
(* Lookups, removals, and the width of an SPI *)

\* get_sad_node and get_spd_node return the first node under the name, or
\* NULL if no node has it.
LEMMA GetNodeFinds ==
  ASSUME NEW T, NEW list \in Seq(T), NEW n
  PROVE  /\ GetNode(list, n) \in 0..Len(list)
         /\ GetNode(list, n) = 0 <=> \A i \in 1..Len(list) : list[i].name # n
         /\ GetNode(list, n) # 0 =>
              /\ list[GetNode(list, n)].name = n
              /\ \A i \in 1..Len(list) : list[i].name = n => GetNode(list, n) <= i
<1> DEFINE I == {i \in 1..Len(list) : list[i].name = n}
<1>1. GetNode(list, n) = IF I # {} THEN Min(I) ELSE 0
  BY DEF GetNode, SelectInSeq
<1>2. I \subseteq 1..Len(list)
  OBVIOUS
<1> HIDE DEF I
<1>3. /\ GetNode(list, n) \in 0..Len(list)
      /\ GetNode(list, n) = 0 <=> I = {}
      /\ GetNode(list, n) # 0 => GetNode(list, n) \in I /\ \A i \in I : GetNode(list, n) <= i
  BY <1>1, <1>2, FirstIndex
<1>4. QED
  BY <1>3 DEF I

\* get_sad_node_by_spi returns the first node with the SPI, or NULL if no
\* node has it.
LEMMA GetNodeBySpiFinds ==
  ASSUME NEW T, NEW list \in Seq(T), NEW s
  PROVE  /\ GetNodeBySpi(list, s) \in 0..Len(list)
         /\ GetNodeBySpi(list, s) = 0 <=> \A i \in 1..Len(list) : list[i].cfg.spi # s
         /\ GetNodeBySpi(list, s) # 0 =>
              /\ GetNodeBySpi(list, s) \in 1..Len(list)
              /\ list[GetNodeBySpi(list, s)] \in T
              /\ list[GetNodeBySpi(list, s)].cfg.spi = s
<1> DEFINE I == {i \in 1..Len(list) : list[i].cfg.spi = s}
<1>1. GetNodeBySpi(list, s) = IF I # {} THEN Min(I) ELSE 0
  BY DEF GetNodeBySpi, SelectInSeq
<1>2. I \subseteq 1..Len(list)
  OBVIOUS
<1> HIDE DEF I
<1>3. /\ GetNodeBySpi(list, s) \in 0..Len(list)
      /\ GetNodeBySpi(list, s) = 0 <=> I = {}
      /\ GetNodeBySpi(list, s) # 0 => GetNodeBySpi(list, s) \in I
  BY <1>1, <1>2, FirstIndex
<1>4. \A i \in 1..Len(list) : list[i] \in T
  BY ElementOfSeq
<1>5. QED
  BY <1>3, <1>4 DEF I

\* A looked-up node is a node of the list.
LEMMA FoundNode ==
  ASSUME NEW T, NEW list \in Seq(T), NEW n, GetNode(list, n) # 0
  PROVE  /\ GetNode(list, n) \in 1..Len(list)
         /\ list[GetNode(list, n)] \in T
         /\ list[GetNode(list, n)].name = n
<1>1. /\ GetNode(list, n) \in 0..Len(list)
      /\ GetNode(list, n) # 0 => list[GetNode(list, n)].name = n
  BY GetNodeFinds
<1>2. Len(list) \in Nat
  BY LenProperties
<1>3. GetNode(list, n) \in 1..Len(list)
  BY <1>1, <1>2
<1>4. QED
  BY <1>1, <1>3, ElementOfSeq

\* The list without an unlinked node is a list of the same nodes, less one.
LEMMA UnlinkedNode ==
  ASSUME NEW T, NEW list \in Seq(T), NEW n, GetNode(list, n) # 0
  PROVE  /\ DelNode(list, n) \in Seq(T)
         /\ Len(DelNode(list, n)) = Len(list) - 1
         /\ \A j \in 1..Len(list) - 1 :
              DelNode(list, n)[j] =
                IF j < GetNode(list, n) THEN list[j] ELSE list[j + 1]
<1>1. GetNode(list, n) \in 1..Len(list)
  BY FoundNode
<1>2. QED
  BY <1>1, RemoveAtShifts DEF DelNode

-----------------------------------------------------------------------------
(* What a list holds under a name *)

\* At most one node has the name.
Once(list, n) ==
  \A i, j \in 1..Len(list) : list[i].name = n /\ list[j].name = n => i = j

\* The configurations of the nodes under a name.
CfgsUnder(list, n) == {list[i].cfg : i \in {j \in 1..Len(list) : list[j].name = n}}

\* A node is found under a name if and only if there is one.
LEMMA FoundIfThere ==
  ASSUME NEW T, NEW list \in Seq(T), NEW n
  PROVE  GetNode(list, n) # 0 <=> n \in NamesIn(list)
BY GetNodeFinds DEF NamesIn

\* A name that is not there has no configuration.
LEMMA NothingUnder ==
  ASSUME NEW list, NEW n, n \notin NamesIn(list)
  PROVE  Once(list, n) /\ CfgsUnder(list, n) = {}
BY DEF Once, CfgsUnder, NamesIn

\* An empty list has no names.
LEMMA EmptyHasNoNames == NamesIn(<< >>) = {}
BY DEF NamesIn

\* What linking a node at the end does to the names.
LEMMA AppendedNames ==
  ASSUME NEW T, NEW list \in Seq(T), NEW node \in T
  PROVE  /\ NamesIn(Append(list, node)) = NamesIn(list) \cup {node.name}
         /\ \A m : m # node.name =>
              /\ Once(list, m) => Once(Append(list, node), m)
              /\ CfgsUnder(Append(list, node), m) = CfgsUnder(list, m)
         /\ node.name \notin NamesIn(list) =>
              /\ Once(Append(list, node), node.name)
              /\ CfgsUnder(Append(list, node), node.name) = {node.cfg}
<1> DEFINE app == Append(list, node)
<1>1. /\ Len(list) \in Nat /\ Len(app) = Len(list) + 1
      /\ \A i \in 1..Len(list) : app[i] = list[i]
      /\ app[Len(list) + 1] = node
  BY AppendProperties, LenProperties
<1> HIDE DEF app
<1>2. \A i : i \in 1..Len(app) <=> i \in 1..Len(list) \/ i = Len(list) + 1
  BY <1>1
<1>3. Len(list) + 1 \notin 1..Len(list)
  BY <1>1
<1>4. NamesIn(app) = NamesIn(list) \cup {node.name}
  BY <1>1, <1>2 DEF NamesIn
<1>5. ASSUME NEW m, m # node.name
      PROVE  /\ Once(list, m) => Once(app, m)
             /\ CfgsUnder(app, m) = CfgsUnder(list, m)
  <2>1. \A i \in 1..Len(app) : app[i].name = m => i \in 1..Len(list) /\ app[i] = list[i]
    BY <1>1, <1>2, <1>5
  <2>2. {j \in 1..Len(app) : app[j].name = m} = {j \in 1..Len(list) : list[j].name = m}
    BY <1>1, <1>2, <2>1
  <2>3. CfgsUnder(app, m) = CfgsUnder(list, m)
    BY <1>1, <2>2 DEF CfgsUnder
  <2>4. QED
    BY <2>1, <2>3 DEF Once
<1>6. ASSUME node.name \notin NamesIn(list)
      PROVE  Once(app, node.name) /\ CfgsUnder(app, node.name) = {node.cfg}
  <2>1. \A i \in 1..Len(app) : app[i].name = node.name <=> i = Len(list) + 1
    BY <1>1, <1>2, <1>3, <1>6 DEF NamesIn
  <2>2. {j \in 1..Len(app) : app[j].name = node.name} = {Len(list) + 1}
    BY <1>2, <2>1
  <2>3. CfgsUnder(app, node.name) = {node.cfg}
    BY <1>1, <2>2 DEF CfgsUnder
  <2>4. QED
    BY <2>1, <2>3 DEF Once
<1>7. QED
  BY <1>4, <1>5, <1>6 DEF app

\* Unlinking the first node under a name leaves every other node, once.
LEMMA UnlinkedOthers ==
  ASSUME NEW T, NEW list \in Seq(T), NEW n, GetNode(list, n) # 0
  PROVE  \E from \in [1..Len(DelNode(list, n)) -> 1..Len(list)] :
           /\ \A j \in 1..Len(DelNode(list, n)) :
                from[j] # GetNode(list, n) /\ DelNode(list, n)[j] = list[from[j]]
           /\ \A i, j \in 1..Len(DelNode(list, n)) : from[i] = from[j] => i = j
           /\ \A i \in 1..Len(list) :
                i # GetNode(list, n) => \E j \in 1..Len(DelNode(list, n)) : from[j] = i
<1> DEFINE g == GetNode(list, n)
           del == DelNode(list, n)
           from == [j \in 1..Len(del) |-> IF j < g THEN j ELSE j + 1]
<1>1. /\ Len(list) \in Nat /\ g \in 1..Len(list)
      /\ Len(del) = Len(list) - 1
      /\ \A j \in 1..Len(list) - 1 : del[j] = IF j < g THEN list[j] ELSE list[j + 1]
  BY FoundNode, UnlinkedNode, LenProperties
<1> HIDE DEF g, del
<1>2. from \in [1..Len(del) -> 1..Len(list)]
  BY <1>1
<1>3. \A j \in 1..Len(del) : from[j] # g /\ del[j] = list[from[j]]
  BY <1>1
<1>4. \A i, j \in 1..Len(del) : from[i] = from[j] => i = j
  BY <1>1
<1>5. ASSUME NEW i \in 1..Len(list), i # g
      PROVE  \E j \in 1..Len(del) : from[j] = i
  <2>1. CASE i < g
    <3>1. i \in 1..Len(del) /\ from[i] = i
      BY <1>1, <2>1
    <3>2. QED
      BY <3>1
  <2>2. CASE i > g
    <3>1. i - 1 \in 1..Len(del) /\ from[i - 1] = i
      BY <1>1, <2>2
    <3>2. QED
      BY <3>1
  <2>3. QED
    BY <1>1, <1>5, <2>1, <2>2
<1> HIDE DEF from
<1>6. QED
  BY <1>2, <1>3, <1>4, <1>5 DEF g, del

\* What unlinking the first node under a name does to the names.
LEMMA UnlinkedNames ==
  ASSUME NEW T, NEW list \in Seq(T), NEW n, GetNode(list, n) # 0,
         NEW del, del = DelNode(list, n)
  PROVE  /\ \A m : m # n => /\ m \in NamesIn(del) <=> m \in NamesIn(list)
                            /\ Once(list, m) => Once(del, m)
                            /\ CfgsUnder(del, m) \subseteq CfgsUnder(list, m)
         /\ Once(list, n) => n \notin NamesIn(del)
<1>1. GetNode(list, n) \in 1..Len(list) /\ list[GetNode(list, n)].name = n
  BY FoundNode
<1>2. PICK from \in [1..Len(del) -> 1..Len(list)] :
        /\ \A j \in 1..Len(del) : from[j] # GetNode(list, n) /\ del[j] = list[from[j]]
        /\ \A i, j \in 1..Len(del) : from[i] = from[j] => i = j
        /\ \A i \in 1..Len(list) : i # GetNode(list, n) => \E j \in 1..Len(del) : from[j] = i
  BY UnlinkedOthers
<1>3. ASSUME NEW m, m # n
      PROVE  /\ m \in NamesIn(del) <=> m \in NamesIn(list)
             /\ Once(list, m) => Once(del, m)
             /\ CfgsUnder(del, m) \subseteq CfgsUnder(list, m)
  <2>1. m \in NamesIn(del) => m \in NamesIn(list)
    BY <1>2 DEF NamesIn
  <2>2. m \in NamesIn(list) => m \in NamesIn(del)
    <3>1. SUFFICES ASSUME NEW i \in 1..Len(list), list[i].name = m
                   PROVE  m \in NamesIn(del)
      BY DEF NamesIn
    <3>2. PICK j \in 1..Len(del) : from[j] = i
      BY <1>1, <1>2, <1>3, <3>1
    <3>3. QED
      BY <1>2, <3>1, <3>2 DEF NamesIn
  <2>3. Once(list, m) => Once(del, m)
    BY <1>2 DEF Once
  <2>4. CfgsUnder(del, m) \subseteq CfgsUnder(list, m)
    BY <1>2 DEF CfgsUnder
  <2>5. QED
    BY <2>1, <2>2, <2>3, <2>4
<1>4. ASSUME Once(list, n)
      PROVE  n \notin NamesIn(del)
  BY SMTT(30), <1>1, <1>2, <1>4 DEF Once, NamesIn
<1>5. QED
  BY <1>3, <1>4

-----------------------------------------------------------------------------
(***************************************************************************)
(* An SPI in the lower half of its range reaches get_sad_node_by_spi as it *)
(* was; one in the upper half reaches it as a number no node can have.     *)
(***************************************************************************)
THEOREM SpiWidth ==
  ASSUME NEW s \in Spis
  PROVE  /\ s < SpiHalf => EventSpi(s) = s
         /\ s >= SpiHalf => \A t \in Spis : EventSpi(s) # t
<1>1. /\ SpiHalf \in Nat /\ ULongMod \in Nat /\ ULongMod >= 4 * SpiHalf
      /\ \A t \in Spis : t \in Int /\ 0 <= t /\ t < 2 * SpiHalf
  BY WidthAssumption
<1>2. QED
  BY <1>1 DEF EventSpi, AsInt, AsULong

-----------------------------------------------------------------------------
(* The SAD *)

\* The kernel's identity of an SA is one of SaIds.
LEMMA AddIdType ==
  ASSUME NEW c \in SadCfg
  PROVE  AddId(c) \in SaIds
BY DEF AddId, SadCfg, SaIds, Modes

\* A looked-up node is a node of the list.
LEMMA FoundSadNode ==
  ASSUME SadTypeOK, NEW n, get_sad_node(n) # 0
  PROVE  /\ get_sad_node(n) \in 1..Len(sad)
         /\ sad[get_sad_node(n)] \in SadNode
         /\ sad[get_sad_node(n)].name = n
BY FoundNode DEF SadTypeOK, get_sad_node

\* The list without an unlinked node is a list of the same nodes, less one.
LEMMA UnlinkedSad ==
  ASSUME SadTypeOK, NEW n, get_sad_node(n) # 0
  PROVE  /\ DelNode(sad, n) \in Seq(SadNode)
         /\ Len(DelNode(sad, n)) = Len(sad) - 1
         /\ \A j \in 1..Len(sad) - 1 :
              DelNode(sad, n)[j] =
                IF j < get_sad_node(n) THEN sad[j] ELSE sad[j + 1]
BY UnlinkedNode DEF SadTypeOK, get_sad_node

-----------------------------------------------------------------------------
(***************************************************************************)
(* The SAD component keeps its types: the list holds nodes only, and the   *)
(* marks on the kernel's SAs are on SAs the kernel has.                    *)
(***************************************************************************)
THEOREM SadTypeCorrect == SadSpec => []SadTypeOK
<1>1. SadInit => SadTypeOK
  BY EmptySeq DEF SadInit, SadTypeOK, SadOps
<1>2. SadTypeOK /\ [SadNext]_sadVars => SadTypeOK'
  <2> SUFFICES ASSUME SadTypeOK, [SadNext]_sadVars
               PROVE  SadTypeOK'
    OBVIOUS
  <2>0. /\ sad \in Seq(SadNode) /\ sadOp \in SadOps
        /\ ksad \subseteq SaIds /\ aging \subseteq ksad /\ strays \subseteq ksad
    BY DEF SadTypeOK
  <2>1. ASSUME NEW n \in SadNames, NEW c \in SadCfgsOf[n], AddSadNode(n, c)
        PROVE  SadTypeOK'
    <3> DEFINE node == [name |-> n, cfg |-> c]
    <3>1. node \in SadNode
      BY NamesAssumption DEF SadNode
    <3>2. sad' \in Seq(SadNode)
      BY <2>0, <2>1, <3>1, AppendProperties DEF AddSadNode
    <3>3. sadOp' \in SadOps
      BY <2>1, <3>1 DEF AddSadNode, SadOps
    <3>4. QED
      BY <2>0, <2>1, <3>2, <3>3 DEF AddSadNode, SadTypeOK
  <2>2. ASSUME NEW n \in SadNames, PfDelSad(n)
        PROVE  SadTypeOK'
    <3>1. sad[get_sad_node(n)] \in SadNode
      BY <2>2, FoundSadNode DEF PfDelSad
    <3>2. sadOp' \in SadOps
      BY <2>2, <3>1 DEF PfDelSad, SadOps
    <3>3. QED
      BY <2>0, <2>2, <3>2 DEF PfDelSad, KernelForgets, SadTypeOK
  <2>3. CASE PfAddSad
    <3>1. sadOp.node \in SadNode
      BY <2>0, <2>3 DEF PfAddSad, SadOps, NoSadOp
    <3>2. AddId(sadOp.node.cfg) \in SaIds
      BY <3>1, AddIdType DEF SadNode
    <3>3. sadOp' \in SadOps
      BY <2>3 DEF PfAddSad, SadOps
    <3>4. QED
      BY <2>0, <2>3, <3>2, <3>3 DEF PfAddSad, SadTypeOK
  <2>4. CASE DelSadNode
    <3>1. DelNode(sad, sadOp.node.name) \in Seq(SadNode)
      BY <2>4, UnlinkedSad DEF DelSadNode
    <3>2. sadOp' \in SadOps
      BY <2>4 DEF DelSadNode, SadOps
    <3>3. QED
      BY <2>0, <2>4, <3>1, <3>2 DEF DelSadNode, SadTypeOK
  <2>5. CASE SadLost
    BY <2>0, <2>5, EmptySeq DEF SadLost, SadTypeOK, SadOps
  <2>6. ASSUME NEW k \in SaIds, SoftExpire(k) \/ HardExpire(k) \/ ForeignAdd(k)
        PROVE  SadTypeOK'
    BY <2>0, <2>6 DEF SoftExpire, HardExpire, ForeignAdd, KernelForgets, SadTypeOK
  <2>7. CASE UNCHANGED sadVars
    BY <2>0, <2>7 DEF sadVars, SadTypeOK
  <2>8. QED
    BY <2>1, <2>2, <2>3, <2>4, <2>5, <2>6, <2>7 DEF SadNext
<1>3. QED
  BY <1>1, <1>2, PTL DEF SadSpec

-----------------------------------------------------------------------------
\* Every SA that may be configured is deleted under the identity it is added
\* under: pf_delsad and pf_addsad disagree on other tunnel-mode SAs.
SameIds == \A n \in SadNames : \A c \in SadCfgsOf[n] : AddId(c) = DelId(c)

\* What an operation under way knows of the list and the kernel.
OpKnows ==
  /\ sadOp.op = "add" => \E i \in 1..Len(sad) : sad[i] = sadOp.node
  /\ sadOp.op = "del" => /\ get_sad_node(sadOp.node.name) # 0
                         /\ sad[get_sad_node(sadOp.node.name)] = sadOp.node
                         /\ DelId(sadOp.node.cfg) \notin ksad \ strays

\* The nodes of the list carry configurations the controller gave.
NodesGiven ==
  \A i \in 1..Len(sad) : AddId(sad[i].cfg) = DelId(sad[i].cfg)

SaInv == SadTypeOK /\ NodesGiven /\ OpKnows /\ SaHasNode

\* The operation under way knows what it needs to keep SAs and nodes
\* together.
LEMMA SaInvCorrect ==
  ASSUME SameIds
  PROVE  SadSpec => []SaInv
<1>1. SadInit => SaInv
  <2> SUFFICES ASSUME SadInit PROVE SaInv
    OBVIOUS
  <2>1. SadTypeOK
    BY EmptySeq DEF SadInit, SadTypeOK, SadOps
  <2>2. Len(sad) = 0
    BY DEF SadInit
  <2>3. QED
    BY <2>1, <2>2 DEF SadInit, SaInv, NodesGiven, OpKnows, SaHasNode, NoSadOp
<1>2. SaInv /\ SadTypeOK' /\ [SadNext]_sadVars => SaInv'
  <2> SUFFICES ASSUME SaInv, SadTypeOK', [SadNext]_sadVars
               PROVE  NodesGiven' /\ OpKnows' /\ SaHasNode'
    BY DEF SaInv
  <2>0. SadTypeOK /\ NodesGiven /\ OpKnows /\ SaHasNode
    BY DEF SaInv
  <2>00. /\ sad \in Seq(SadNode) /\ Len(sad) \in Nat
         /\ \A i \in 1..Len(sad) : sad[i] \in SadNode
    BY <2>0, LenProperties, ElementOfSeq DEF SadTypeOK
  <2>1. ASSUME NEW n \in SadNames, NEW c \in SadCfgsOf[n], AddSadNode(n, c)
        PROVE  NodesGiven' /\ OpKnows' /\ SaHasNode'
    <3> DEFINE node == [name |-> n, cfg |-> c]
    <3>1. node \in SadNode
      BY NamesAssumption DEF SadNode
    <3>2. /\ Len(sad') = Len(sad) + 1
          /\ \A i \in 1..Len(sad) : sad'[i] = sad[i]
          /\ sad'[Len(sad) + 1] = node
      BY <2>00, <2>1, <3>1, AppendProperties DEF AddSadNode
    <3>3. NodesGiven'
      <4> SUFFICES ASSUME NEW i \in 1..Len(sad')
                   PROVE  AddId(sad'[i].cfg) = DelId(sad'[i].cfg)
        BY DEF NodesGiven
      <4>1. CASE i \in 1..Len(sad)
        BY <2>0, <3>2, <4>1 DEF NodesGiven
      <4>2. CASE i = Len(sad) + 1
        BY <3>2, <4>2 DEF SameIds
      <4>3. QED
        BY <2>00, <3>2, <4>1, <4>2
    <3>4. OpKnows'
      BY <2>00, <2>1, <3>2 DEF OpKnows, AddSadNode
    <3>5. SaHasNode'
      BY <2>0, <2>00, <2>1, <3>2 DEF SaHasNode, AddSadNode
    <3>6. QED
      BY <3>3, <3>4, <3>5
  <2>2. ASSUME NEW n \in SadNames, PfDelSad(n)
        PROVE  NodesGiven' /\ OpKnows' /\ SaHasNode'
    <3>1. sad' = sad /\ get_sad_node(n) # 0
      BY <2>2 DEF PfDelSad
    <3>2. sad[get_sad_node(n)].name = n
      BY <2>0, <3>1, FoundSadNode
    <3>3. OpKnows'
      BY <2>2, <3>1, <3>2 DEF OpKnows, PfDelSad, KernelForgets, get_sad_node
    <3>4. QED
      BY <2>0, <2>2, <3>1, <3>3 DEF PfDelSad, KernelForgets, NodesGiven, SaHasNode
  <2>3. CASE PfAddSad
    <3>1. PICK i \in 1..Len(sad) : sad[i] = sadOp.node
      BY <2>0, <2>3 DEF PfAddSad, OpKnows
    <3>2. SaHasNode'
      BY <2>0, <2>3, <3>1 DEF PfAddSad, SaHasNode
    <3>3. QED
      BY <2>0, <2>3, <3>2 DEF PfAddSad, OpKnows, NodesGiven, NoSadOp
  <2>4. CASE DelSadNode
    <3> DEFINE g == get_sad_node(sadOp.node.name)
    <3>1. /\ g # 0 /\ g \in 1..Len(sad)
          /\ sad[g] = sadOp.node
          /\ AddId(sad[g].cfg) \notin ksad \ strays
      BY <2>0, <2>4, FoundSadNode DEF DelSadNode, OpKnows, NodesGiven
    <3>2. /\ Len(sad') = Len(sad) - 1
          /\ \A j \in 1..Len(sad) - 1 :
               sad'[j] = IF j < g THEN sad[j] ELSE sad[j + 1]
      BY <2>0, <2>4, <3>1, UnlinkedSad DEF DelSadNode
    <3> HIDE DEF g
    <3>3. NodesGiven'
      <4> SUFFICES ASSUME NEW j \in 1..Len(sad) - 1
                   PROVE  AddId(sad'[j].cfg) = DelId(sad'[j].cfg)
        BY <3>2 DEF NodesGiven
      <4>1. j \in 1..Len(sad) /\ j + 1 \in 1..Len(sad)
        BY <2>00
      <4>2. QED
        BY <2>0, <3>2, <4>1 DEF NodesGiven
    <3>4. OpKnows'
      BY <2>4 DEF DelSadNode, OpKnows, NoSadOp
    <3>5. ASSUME NEW k \in ksad' \ strays'
          PROVE  \E j \in 1..Len(sad') : AddId(sad'[j].cfg) = k
      <4>1. k \in ksad \ strays
        BY <2>4 DEF DelSadNode
      <4>2. PICK i \in 1..Len(sad) : AddId(sad[i].cfg) = k
        BY <2>0, <4>1 DEF SaHasNode
      <4>3. i # g
        BY <3>1, <4>1, <4>2
      <4>4. CASE i < g
        <5>1. i \in 1..Len(sad) - 1 /\ sad'[i] = sad[i]
          BY <2>00, <3>1, <3>2, <4>4
        <5>2. QED
          BY <3>2, <4>2, <5>1
      <4>5. CASE i > g
        <5>1. i - 1 \in 1..Len(sad) - 1 /\ ~(i - 1 < g) /\ (i - 1) + 1 = i
          BY <2>00, <3>1, <4>5
        <5>2. sad'[i - 1] = sad[i]
          BY <3>2, <5>1
        <5>3. QED
          BY <3>2, <4>2, <5>1, <5>2
      <4>6. QED
        BY <2>00, <3>1, <4>3, <4>4, <4>5
    <3>6. QED
      BY <3>3, <3>4, <3>5 DEF SaHasNode
  <2>5. CASE SadLost
    <3>1. Len(sad') = 0
      BY <2>5 DEF SadLost
    <3>2. QED
      BY <2>5, <3>1 DEF SadLost, NodesGiven, OpKnows, SaHasNode, NoSadOp
  <2>6. ASSUME NEW k \in SaIds, SoftExpire(k) \/ HardExpire(k) \/ ForeignAdd(k)
        PROVE  NodesGiven' /\ OpKnows' /\ SaHasNode'
    <3>1. sad' = sad /\ sadOp' = sadOp /\ ksad' \ strays' \subseteq ksad \ strays
      BY <2>6 DEF SoftExpire, HardExpire, ForeignAdd, KernelForgets
    <3>2. QED
      BY <2>0, <3>1 DEF NodesGiven, OpKnows, SaHasNode, get_sad_node
  <2>7. CASE UNCHANGED sadVars
    BY <2>0, <2>7 DEF sadVars, NodesGiven, OpKnows, SaHasNode, get_sad_node
  <2>8. QED
    BY <2>1, <2>2, <2>3, <2>4, <2>5, <2>6, <2>7 DEF SadNext
<1>3. QED
  BY <1>1, <1>2, SadTypeCorrect, PTL DEF SadSpec

(***************************************************************************)
(* Whatever the order of additions, removals, expirations, other programs' *)
(* SAs and restarts, an SA this run has put in the kernel has a node in    *)
(* the list, if pf_delsad names the SAs as pf_addsad does.                 *)
(***************************************************************************)
THEOREM SaHasNodeCorrect ==
  ASSUME SameIds
  PROVE  SadSpec => []SaHasNode
<1>1. SaInv => SaHasNode
  BY DEF SaInv
<1>2. QED
  BY <1>1, SaInvCorrect, PTL

-----------------------------------------------------------------------------
\* Nodes have configurations their entries may be given.
SadGiven ==
  /\ \A i \in 1..Len(sad) :
       sad[i].name \in SadNames /\ sad[i].cfg \in SadCfgsOf[sad[i].name]
  /\ sadOp # NoSadOp =>
       sadOp.node.name \in SadNames /\ sadOp.node.cfg \in SadCfgsOf[sadOp.node.name]

\* The list only ever holds configurations of its entries.
LEMMA SadGivenCorrect == SadSpec => []SadGiven
<1>1. SadInit => SadGiven
  BY DEF SadInit, SadGiven
<1>2. SadTypeOK /\ SadGiven /\ [SadNext]_sadVars => SadGiven'
  <2> SUFFICES ASSUME SadTypeOK, SadGiven, [SadNext]_sadVars
               PROVE  SadGiven'
    OBVIOUS
  <2>0. sad \in Seq(SadNode) /\ Len(sad) \in Nat
    BY LenProperties DEF SadTypeOK
  <2>1. ASSUME NEW n \in SadNames, NEW c \in SadCfgsOf[n], AddSadNode(n, c)
        PROVE  SadGiven'
    <3> DEFINE node == [name |-> n, cfg |-> c]
    <3>1. node \in SadNode
      BY NamesAssumption DEF SadNode
    <3>2. /\ Len(sad') = Len(sad) + 1
          /\ \A i \in 1..Len(sad) : sad'[i] = sad[i]
          /\ sad'[Len(sad) + 1] = node
      BY <2>0, <2>1, <3>1, AppendProperties DEF AddSadNode
    <3>3. \A i \in 1..Len(sad') : i \in 1..Len(sad) \/ sad'[i] = node
      BY <2>0, <3>2
    <3>4. QED
      BY <2>1, <3>2, <3>3 DEF AddSadNode, SadGiven
  <2>2. ASSUME NEW n \in SadNames, PfDelSad(n)
        PROVE  SadGiven'
    <3>1. get_sad_node(n) \in 1..Len(sad)
      BY <2>2, FoundSadNode DEF PfDelSad
    <3>2. sad' = sad /\ sadOp'.node = sad[get_sad_node(n)]
      BY <2>2 DEF PfDelSad
    <3>3. QED
      BY <3>1, <3>2 DEF SadGiven
  <2>3. CASE DelSadNode
    <3> DEFINE g == get_sad_node(sadOp.node.name)
    <3>1. /\ g \in 1..Len(sad)
          /\ Len(sad') = Len(sad) - 1
          /\ \A j \in 1..Len(sad) - 1 :
               sad'[j] = IF j < g THEN sad[j] ELSE sad[j + 1]
          /\ sadOp' = NoSadOp
      BY <2>3, FoundSadNode, UnlinkedSad DEF DelSadNode
    <3> HIDE DEF g
    <3>2. QED
      BY SMTT(30), <2>0, <3>1 DEF SadGiven
  <2>4. CASE PfAddSad \/ SadLost \/ UNCHANGED <<sad, sadOp>>
    BY <2>4 DEF PfAddSad, SadLost, SadGiven
  <2>5. QED
    BY <2>1, <2>2, <2>3, <2>4 DEF SadNext, sadVars, SoftExpire, HardExpire, ForeignAdd
<1>3. QED
  BY <1>1, <1>2, SadTypeCorrect, PTL DEF SadSpec

-----------------------------------------------------------------------------
(***************************************************************************)
(* The SPD.                                                                *)
(***************************************************************************)

\* The kernel's identities of a policy are among PolicyIds.
LEMMA PolicyIdTypes ==
  ASSUME NEW c \in SpdCfg
  PROVE  PolicyId(c) \in PolicyIds /\ ForwardId(c) \in PolicyIds
BY DEF PolicyId, ForwardId, SpdCfg, PolicyIds, Dirs

\* A looked-up node is a node of the list.
LEMMA FoundSpdNode ==
  ASSUME SpdTypeOK, NEW n, get_spd_node(n) # 0
  PROVE  /\ get_spd_node(n) \in 1..Len(spd)
         /\ spd[get_spd_node(n)] \in SpdNode
         /\ spd[get_spd_node(n)].name = n
BY FoundNode DEF SpdTypeOK, get_spd_node

\* The list without an unlinked node is a list of the same nodes, less one.
LEMMA UnlinkedSpd ==
  ASSUME SpdTypeOK, NEW n, get_spd_node(n) # 0
  PROVE  /\ DelNode(spd, n) \in Seq(SpdNode)
         /\ Len(DelNode(spd, n)) = Len(spd) - 1
         /\ \A j \in 1..Len(spd) - 1 :
              DelNode(spd, n)[j] =
                IF j < get_spd_node(n) THEN spd[j] ELSE spd[j + 1]
BY UnlinkedNode DEF SpdTypeOK, get_spd_node

\* The node of an operation under way is a node, and a later step keeps it.
LEMMA SpdOpNode ==
  ASSUME SpdTypeOK, spdOp # NoSpdOp
  PROVE  /\ spdOp.node \in SpdNode
         /\ spdOp.node.cfg \in SpdCfg
         /\ \A o \in {"addForward", "del"} :
              /\ [spdOp EXCEPT !.op = o] \in SpdOps
              /\ [spdOp EXCEPT !.op = o].op = o
              /\ [spdOp EXCEPT !.op = o].node = spdOp.node
BY DEF SpdTypeOK, SpdOps, SpdNode

-----------------------------------------------------------------------------
\* The SPD component keeps its types.
THEOREM SpdTypeCorrect == SpdSpec => []SpdTypeOK
<1>1. SpdInit => SpdTypeOK
  BY EmptySeq DEF SpdInit, SpdTypeOK, SpdOps
<1>2. SpdTypeOK /\ [SpdNext]_spdVars => SpdTypeOK'
  <2> SUFFICES ASSUME SpdTypeOK, [SpdNext]_spdVars
               PROVE  SpdTypeOK'
    OBVIOUS
  <2>0. /\ spd \in Seq(SpdNode) /\ spdOp \in SpdOps
        /\ kspd \subseteq PolicyIds /\ spdStrays \subseteq kspd
    BY DEF SpdTypeOK
  <2>1. ASSUME NEW n \in SpdNames, NEW c \in SpdCfgsOf[n], AddSpdNode(n, c)
        PROVE  SpdTypeOK'
    <3> DEFINE node == [name |-> n, cfg |-> c]
    <3>1. node \in SpdNode
      BY NamesAssumption DEF SpdNode
    <3>2. spd' \in Seq(SpdNode)
      BY <2>0, <2>1, <3>1, AppendProperties DEF AddSpdNode
    <3>3. spdOp' \in SpdOps
      BY <2>1, <3>1 DEF AddSpdNode, SpdOps
    <3>4. QED
      BY <2>0, <2>1, <3>2, <3>3 DEF AddSpdNode, SpdTypeOK
  <2>2. ASSUME NEW n \in SpdNames, PfDelPolicy(n)
        PROVE  SpdTypeOK'
    <3>1. spd[get_spd_node(n)] \in SpdNode
      BY <2>2, FoundSpdNode DEF PfDelPolicy
    <3>2. spdOp' \in SpdOps
      BY <2>2, <3>1 DEF PfDelPolicy, SpdOps
    <3>3. QED
      BY <2>0, <2>2, <3>2 DEF PfDelPolicy, pf_delpolicy, SpdTypeOK
  <2>3. CASE PfAddPolicy
    <3>1. spdOp # NoSpdOp
      BY <2>3 DEF PfAddPolicy, NoSpdOp
    <3>2. spdOp' \in SpdOps
      BY <2>3, <3>1, SpdOpNode DEF PfAddPolicy, SpdOps
    <3>3. PolicyId(spdOp.node.cfg) \in PolicyIds
      BY <3>1, SpdOpNode, PolicyIdTypes
    <3>4. QED
      BY <2>0, <2>3, <3>2, <3>3 DEF PfAddPolicy, pf_addpolicy, SpdTypeOK
  <2>4. CASE PfAddForward
    <3>1. spdOp # NoSpdOp
      BY <2>4 DEF PfAddForward, NoSpdOp
    <3>2. ForwardId(spdOp.node.cfg) \in PolicyIds
      BY <3>1, SpdOpNode, PolicyIdTypes
    <3>3. spdOp' \in SpdOps
      BY <2>4 DEF PfAddForward, SpdOps
    <3>4. QED
      BY <2>0, <2>4, <3>2, <3>3 DEF PfAddForward, pf_addpolicy, SpdTypeOK
  <2>5. CASE PfDelForward
    <3>1. spdOp # NoSpdOp
      BY <2>5 DEF PfDelForward, NoSpdOp
    <3>2. spdOp' \in SpdOps
      BY <2>5, <3>1, SpdOpNode DEF PfDelForward
    <3>3. QED
      BY <2>0, <2>5, <3>2 DEF PfDelForward, pf_delpolicy, SpdTypeOK
  <2>6. CASE DelSpdNode
    <3>1. DelNode(spd, spdOp.node.name) \in Seq(SpdNode)
      BY <2>6, UnlinkedSpd DEF DelSpdNode
    <3>2. spdOp' \in SpdOps
      BY <2>6 DEF DelSpdNode, SpdOps
    <3>3. QED
      BY <2>0, <2>6, <3>1, <3>2 DEF DelSpdNode, SpdTypeOK
  <2>7. CASE SpdLost
    BY <2>0, <2>7, EmptySeq DEF SpdLost, SpdTypeOK, SpdOps
  <2>8. CASE UNCHANGED spdVars
    BY <2>0, <2>8 DEF spdVars, SpdTypeOK
  <2>9. QED
    BY <2>1, <2>2, <2>3, <2>4, <2>5, <2>6, <2>7, <2>8 DEF SpdNext
<1>3. QED
  BY <1>1, <1>2, PTL DEF SpdSpec

-----------------------------------------------------------------------------
(***************************************************************************)
(* The check at the head of addSPD_entry keeps the names of the list       *)
(* apart, whatever the callers do.                                         *)
(***************************************************************************)
THEOREM SpdNamesCorrect == SpdSpec => []SpdNamesUnique
<1>1. SpdInit => SpdNamesUnique
  BY DEF SpdInit, SpdNamesUnique
<1>2. SpdTypeOK /\ SpdNamesUnique /\ [SpdNext]_spdVars => SpdNamesUnique'
  <2> SUFFICES ASSUME SpdTypeOK, SpdNamesUnique, [SpdNext]_spdVars
               PROVE  SpdNamesUnique'
    OBVIOUS
  <2>0. spd \in Seq(SpdNode) /\ Len(spd) \in Nat
    BY LenProperties DEF SpdTypeOK
  <2>1. ASSUME NEW n \in SpdNames, NEW c \in SpdCfgsOf[n], AddSpdNode(n, c)
        PROVE  SpdNamesUnique'
    <3> DEFINE node == [name |-> n, cfg |-> c]
    <3>1. node \in SpdNode
      BY NamesAssumption DEF SpdNode
    <3>2. /\ Len(spd') = Len(spd) + 1
          /\ \A i \in 1..Len(spd) : spd'[i] = spd[i]
          /\ spd'[Len(spd) + 1] = node
      BY <2>0, <2>1, <3>1, AppendProperties DEF AddSpdNode
    <3>3. \A i \in 1..Len(spd) : spd[i].name # n
      BY <2>0, <2>1, GetNodeFinds DEF AddSpdNode, get_spd_node
    <3>4. QED
      BY SMTT(30), <2>0, <3>2, <3>3 DEF SpdNamesUnique
  <2>2. CASE DelSpdNode
    <3> DEFINE g == get_spd_node(spdOp.node.name)
    <3>1. /\ g \in 1..Len(spd)
          /\ Len(spd') = Len(spd) - 1
          /\ \A j \in 1..Len(spd) - 1 :
               spd'[j] = IF j < g THEN spd[j] ELSE spd[j + 1]
      BY <2>2, FoundSpdNode, UnlinkedSpd DEF DelSpdNode
    <3> HIDE DEF g
    <3>2. QED
      BY <2>0, <3>1 DEF SpdNamesUnique
  <2>3. CASE SpdLost
    BY <2>3 DEF SpdLost, SpdNamesUnique
  <2>4. CASE spd' = spd
    BY <2>4 DEF SpdNamesUnique
  <2>5. QED
    BY <2>1, <2>2, <2>3, <2>4
    DEF SpdNext, spdVars, PfDelPolicy, PfAddPolicy, PfAddForward, PfDelForward
<1>3. QED
  BY <1>1, <1>2, SpdTypeCorrect, PTL DEF SpdSpec

-----------------------------------------------------------------------------
\* What an operation under way knows of the list and the kernel: the node
\* being added is linked; the node being removed is the one its name leads
\* to, and its policies go in order.
SpdOpKnows ==
  /\ spdOp.op \in {"add", "addForward"} =>
       \E i \in 1..Len(spd) : spd[i] = spdOp.node
  /\ spdOp.op \in {"addForward", "delForward"} => Inbound(spdOp.node)
  /\ spdOp.op \in {"delForward", "del"} =>
       /\ get_spd_node(spdOp.node.name) # 0
       /\ spd[get_spd_node(spdOp.node.name)] = spdOp.node
       /\ PolicyId(spdOp.node.cfg) \notin kspd \ spdStrays
  /\ spdOp.op = "del" =>
       \A p \in Policies(spdOp.node.cfg) : p \notin kspd \ spdStrays

PolicyInv == SpdTypeOK /\ SpdOpKnows /\ PolicyHasNode

\* The operation under way knows what it needs to keep policies and nodes
\* together.
LEMMA PolicyInvCorrect == SpdSpec => []PolicyInv
<1>1. SpdInit => PolicyInv
  BY EmptySeq
  DEF SpdInit, PolicyInv, SpdTypeOK, SpdOps, SpdOpKnows, PolicyHasNode, NoSpdOp
<1>2. PolicyInv /\ SpdTypeOK' /\ [SpdNext]_spdVars => PolicyInv'
  <2> SUFFICES ASSUME PolicyInv, SpdTypeOK', [SpdNext]_spdVars
               PROVE  SpdOpKnows' /\ PolicyHasNode'
    BY DEF PolicyInv
  <2>0. SpdTypeOK /\ SpdOpKnows /\ PolicyHasNode
    BY DEF PolicyInv
  <2>00. spd \in Seq(SpdNode) /\ Len(spd) \in Nat
    BY <2>0, LenProperties DEF SpdTypeOK
  <2>1. ASSUME NEW n \in SpdNames, NEW c \in SpdCfgsOf[n], AddSpdNode(n, c)
        PROVE  SpdOpKnows' /\ PolicyHasNode'
    <3> DEFINE node == [name |-> n, cfg |-> c]
    <3>1. node \in SpdNode
      BY NamesAssumption DEF SpdNode
    <3>2. /\ Len(spd') = Len(spd) + 1
          /\ \A i \in 1..Len(spd) : spd'[i] = spd[i]
          /\ spd'[Len(spd) + 1] = node
      BY <2>00, <2>1, <3>1, AppendProperties DEF AddSpdNode
    <3>3. SpdOpKnows'
      BY <2>00, <2>1, <3>2 DEF SpdOpKnows, AddSpdNode
    <3>4. PolicyHasNode'
      BY <2>0, <2>00, <2>1, <3>2 DEF PolicyHasNode, AddSpdNode
    <3>5. QED
      BY <3>3, <3>4
  <2>2. ASSUME NEW n \in SpdNames, PfDelPolicy(n)
        PROVE  SpdOpKnows' /\ PolicyHasNode'
    <3> DEFINE node == spd[get_spd_node(n)]
    <3>1. /\ spd' = spd /\ get_spd_node(n) # 0
          /\ spdOp' = [op |-> IF Inbound(node) THEN "delForward" ELSE "del",
                       node |-> node]
          /\ kspd' = kspd \ {PolicyId(node.cfg)}
          /\ spdStrays' = spdStrays \ {PolicyId(node.cfg)}
      BY <2>2 DEF PfDelPolicy, pf_delpolicy
    <3>2. node.name = n
      BY <2>0, <3>1, FoundSpdNode
    <3>3. get_spd_node(n)' = get_spd_node(n)
      BY <3>1 DEF get_spd_node
    <3>4. Policies(node.cfg) =
            IF Inbound(node) THEN {PolicyId(node.cfg), ForwardId(node.cfg)}
                             ELSE {PolicyId(node.cfg)}
      BY DEF Policies, Inbound
    <3>5. kspd' \ spdStrays' \subseteq kspd \ spdStrays
      BY <3>1
    <3>6. PolicyHasNode'
      BY <2>0, <3>1, <3>5 DEF PolicyHasNode
    <3>7. /\ spdOp'.op = IF Inbound(node) THEN "delForward" ELSE "del"
          /\ spdOp'.node = node
      BY <3>1
    <3>8. get_spd_node(spdOp.node.name)' = get_spd_node(n)
      BY <3>1, <3>2, <3>7 DEF get_spd_node
    <3>9. SpdOpKnows'
      <4>1. PolicyId(node.cfg) \notin kspd' \ spdStrays'
        BY <3>1
      <4>2. spd'[get_spd_node(n)] = node
        BY <3>1
      <4> HIDE DEF node
      <4>3. QED
        BY <3>1, <3>4, <3>7, <3>8, <4>1, <4>2 DEF SpdOpKnows, Inbound
    <3>10. QED
      BY <3>6, <3>9
  <2>3. CASE PfAddPolicy
    <3>1. spdOp # NoSpdOp
      BY <2>3 DEF PfAddPolicy, NoSpdOp
    <3>2. PICK i \in 1..Len(spd) : spd[i] = spdOp.node
      BY <2>0, <2>3 DEF PfAddPolicy, SpdOpKnows
    <3>3. PolicyId(spdOp.node.cfg) \in Policies(spd[i].cfg)
      BY <3>2 DEF Policies
    <3>4. PolicyHasNode'
      BY <2>0, <2>3, <3>2, <3>3 DEF PfAddPolicy, pf_addpolicy, PolicyHasNode
    <3>5. SpdOpKnows'
      <4>1. CASE Inbound(spdOp.node)
        <5>1. spdOp'.op = "addForward" /\ spdOp'.node = spdOp.node /\ spd' = spd
          BY <2>0, <2>3, <3>1, <4>1, SpdOpNode DEF PfAddPolicy
        <5>2. QED
          BY <3>2, <4>1, <5>1 DEF SpdOpKnows, Inbound
      <4>2. CASE ~Inbound(spdOp.node)
        BY <2>3, <4>2 DEF PfAddPolicy, SpdOpKnows, NoSpdOp
      <4>3. QED
        BY <4>1, <4>2
    <3>6. QED
      BY <3>4, <3>5
  <2>4. CASE PfAddForward
    <3>1. PICK i \in 1..Len(spd) : spd[i] = spdOp.node
      BY <2>0, <2>4 DEF PfAddForward, SpdOpKnows
    <3>2. ForwardId(spdOp.node.cfg) \in Policies(spd[i].cfg)
      BY <2>0, <2>4, <3>1 DEF PfAddForward, SpdOpKnows, Inbound, Policies
    <3>3. PolicyHasNode'
      BY <2>0, <2>4, <3>1, <3>2 DEF PfAddForward, pf_addpolicy, PolicyHasNode
    <3>4. SpdOpKnows'
      BY <2>4 DEF PfAddForward, SpdOpKnows, NoSpdOp
    <3>5. QED
      BY <3>3, <3>4
  <2>5. CASE PfDelForward
    <3>1. spdOp # NoSpdOp
      BY <2>5 DEF PfDelForward, NoSpdOp
    <3>2. /\ spdOp'.op = "del" /\ spdOp'.node = spdOp.node /\ spd' = spd
          /\ kspd' = kspd \ {ForwardId(spdOp.node.cfg)}
          /\ spdStrays' = spdStrays \ {ForwardId(spdOp.node.cfg)}
      BY <2>0, <2>5, <3>1, SpdOpNode DEF PfDelForward, pf_delpolicy
    <3>3. Policies(spdOp.node.cfg) =
            {PolicyId(spdOp.node.cfg), ForwardId(spdOp.node.cfg)}
      BY <2>0, <2>5 DEF PfDelForward, SpdOpKnows, Inbound, Policies
    <3>4. kspd' \ spdStrays' \subseteq kspd \ spdStrays
      BY <3>2
    <3>5. PolicyHasNode'
      BY <2>0, <3>2, <3>4 DEF PolicyHasNode
    <3>6. \A p \in Policies(spdOp.node.cfg) : p \notin kspd' \ spdStrays'
      BY <2>0, <2>5, <3>2, <3>3 DEF PfDelForward, SpdOpKnows
    <3>7. get_spd_node(spdOp.node.name)' = get_spd_node(spdOp.node.name)
      BY <3>2 DEF get_spd_node
    <3>8. SpdOpKnows'
      BY <2>0, <2>5, <3>2, <3>3, <3>6, <3>7 DEF PfDelForward, SpdOpKnows
    <3>9. QED
      BY <3>5, <3>8
  <2>6. CASE DelSpdNode
    <3> DEFINE g == get_spd_node(spdOp.node.name)
    <3>1. /\ g \in 1..Len(spd)
          /\ spd[g] = spdOp.node
          /\ \A p \in Policies(spd[g].cfg) : p \notin kspd \ spdStrays
      BY <2>0, <2>6, FoundSpdNode DEF DelSpdNode, SpdOpKnows
    <3>2. /\ Len(spd') = Len(spd) - 1
          /\ \A j \in 1..Len(spd) - 1 :
               spd'[j] = IF j < g THEN spd[j] ELSE spd[j + 1]
      BY <2>0, <2>6, UnlinkedSpd DEF DelSpdNode
    <3> HIDE DEF g
    <3>3. ASSUME NEW p \in kspd' \ spdStrays'
          PROVE  \E j \in 1..Len(spd') : p \in Policies(spd'[j].cfg)
      <4>1. p \in kspd \ spdStrays
        BY <2>6 DEF DelSpdNode
      <4>2. PICK i \in 1..Len(spd) : p \in Policies(spd[i].cfg)
        BY <2>0, <4>1 DEF PolicyHasNode
      <4>3. i # g
        BY <3>1, <4>1, <4>2
      <4>4. CASE i < g
        <5>1. i \in 1..Len(spd) - 1 /\ spd'[i] = spd[i]
          BY <2>00, <3>1, <3>2, <4>4
        <5>2. QED
          BY <3>2, <4>2, <5>1
      <4>5. CASE i > g
        <5>1. i - 1 \in 1..Len(spd) - 1 /\ ~(i - 1 < g) /\ (i - 1) + 1 = i
          BY <2>00, <3>1, <4>5
        <5>2. spd'[i - 1] = spd[i]
          BY <3>2, <5>1
        <5>3. QED
          BY <3>2, <4>2, <5>1, <5>2
      <4>6. QED
        BY <2>00, <3>1, <4>3, <4>4, <4>5
    <3>4. SpdOpKnows'
      BY <2>6 DEF DelSpdNode, SpdOpKnows, NoSpdOp
    <3>5. QED
      BY <3>3, <3>4 DEF PolicyHasNode
  <2>7. CASE SpdLost
    BY <2>7 DEF SpdLost, SpdOpKnows, PolicyHasNode, NoSpdOp
  <2>8. CASE UNCHANGED spdVars
    BY <2>0, <2>8 DEF spdVars, SpdOpKnows, PolicyHasNode, get_spd_node
  <2>9. QED
    BY <2>1, <2>2, <2>3, <2>4, <2>5, <2>6, <2>7, <2>8 DEF SpdNext
<1>3. QED
  BY <1>1, <1>2, SpdTypeCorrect, PTL DEF SpdSpec

(***************************************************************************)
(* removeSPD_entry never leaves a policy without its node, not even when   *)
(* entries share a selector, requests are refused or the process restarts. *)
(***************************************************************************)
THEOREM PolicyHasNodeCorrect == SpdSpec => []PolicyHasNode
<1>1. PolicyInv => PolicyHasNode
  BY DEF PolicyInv
<1>2. QED
  BY <1>1, PolicyInvCorrect, PTL

-----------------------------------------------------------------------------
(***************************************************************************)
(* Entries under distinct names stand for distinct policies of the kernel, *)
(* as those of one traffic selector each do: pf_delpolicy finds a policy   *)
(* by its identity alone, so deleting one of two entries that share a      *)
(* policy would take it from the other.                                    *)
(***************************************************************************)
OwnPolicies ==
  \A m, n \in SpdNames : m # n =>
    \A c \in SpdCfgsOf[m], d \in SpdCfgsOf[n] : Policies(c) \cap Policies(d) = {}

\* Nodes have configurations their entries may be given.
SpdGiven ==
  /\ \A i \in 1..Len(spd) :
       spd[i].name \in SpdNames /\ spd[i].cfg \in SpdCfgsOf[spd[i].name]
  /\ spdOp # NoSpdOp =>
       spdOp.node.name \in SpdNames /\ spdOp.node.cfg \in SpdCfgsOf[spdOp.node.name]

\* The policies of node i at each step of an operation on it, or on another.
LEMMA TransitSteps ==
  ASSUME NEW i
  PROVE  /\ spdOp = NoSpdOp \/ spdOp.node # spd[i] => InTransit(i) = {}
         /\ spdOp # NoSpdOp /\ spdOp.node = spd[i] =>
              /\ spdOp.op = "addForward" => InTransit(i) = {ForwardId(spd[i].cfg)}
              /\ spdOp.op = "delForward" => InTransit(i) = {PolicyId(spd[i].cfg)}
              /\ spdOp.op \in {"add", "del"} => InTransit(i) = Policies(spd[i].cfg)
BY DEF InTransit

\* Two nodes of a list with distinct names, one of them looked up.
LEMMA OtherNode ==
  ASSUME SpdTypeOK, SpdNamesUnique, NEW n, get_spd_node(n) # 0,
         NEW i \in 1..Len(spd), i # get_spd_node(n)
  PROVE  spd[i].name # n
BY FoundSpdNode DEF SpdNamesUnique

\* The list only ever holds configurations of its entries.
LEMMA SpdGivenCorrect == SpdSpec => []SpdGiven
<1>1. SpdInit => SpdGiven
  BY DEF SpdInit, SpdGiven
<1>2. SpdTypeOK /\ SpdGiven /\ [SpdNext]_spdVars => SpdGiven'
  <2> SUFFICES ASSUME SpdTypeOK, SpdGiven, [SpdNext]_spdVars
               PROVE  SpdGiven'
    OBVIOUS
  <2>0. spd \in Seq(SpdNode) /\ Len(spd) \in Nat
    BY LenProperties DEF SpdTypeOK
  <2>1. ASSUME NEW n \in SpdNames, NEW c \in SpdCfgsOf[n], AddSpdNode(n, c)
        PROVE  SpdGiven'
    <3> DEFINE node == [name |-> n, cfg |-> c]
    <3>1. node \in SpdNode
      BY NamesAssumption DEF SpdNode
    <3>2. /\ Len(spd') = Len(spd) + 1
          /\ \A i \in 1..Len(spd) : spd'[i] = spd[i]
          /\ spd'[Len(spd) + 1] = node
      BY <2>0, <2>1, <3>1, AppendProperties DEF AddSpdNode
    <3>3. \A i \in 1..Len(spd') : i \in 1..Len(spd) \/ spd'[i] = node
      BY <2>0, <3>2
    <3>4. QED
      BY <2>1, <3>2, <3>3 DEF AddSpdNode, SpdGiven
  <2>2. ASSUME NEW n \in SpdNames, PfDelPolicy(n)
        PROVE  SpdGiven'
    <3>1. get_spd_node(n) \in 1..Len(spd)
      BY <2>2, FoundSpdNode DEF PfDelPolicy
    <3>2. spd' = spd /\ spdOp'.node = spd[get_spd_node(n)]
      BY <2>2 DEF PfDelPolicy
    <3>3. QED
      BY <3>1, <3>2 DEF SpdGiven
  <2>3. CASE PfAddPolicy \/ PfAddForward \/ PfDelForward
    <3>1. spdOp # NoSpdOp /\ spd' = spd
      BY <2>3 DEF PfAddPolicy, PfAddForward, PfDelForward, NoSpdOp
    <3>2. spdOp' = NoSpdOp \/ spdOp'.node = spdOp.node
      BY <2>3, <3>1, SpdOpNode DEF PfAddPolicy, PfAddForward, PfDelForward
    <3>3. QED
      BY <3>1, <3>2 DEF SpdGiven
  <2>4. CASE DelSpdNode
    <3> DEFINE g == get_spd_node(spdOp.node.name)
    <3>1. /\ g \in 1..Len(spd)
          /\ Len(spd') = Len(spd) - 1
          /\ \A j \in 1..Len(spd) - 1 :
               spd'[j] = IF j < g THEN spd[j] ELSE spd[j + 1]
          /\ spdOp' = NoSpdOp
      BY <2>4, FoundSpdNode, UnlinkedSpd DEF DelSpdNode
    <3> HIDE DEF g
    <3>2. QED
      BY SMTT(30), <2>0, <3>1 DEF SpdGiven
  <2>5. CASE SpdLost
    BY <2>5 DEF SpdLost, SpdGiven
  <2>6. CASE UNCHANGED spdVars
    BY <2>6 DEF spdVars, SpdGiven
  <2>7. QED
    BY <2>1, <2>2, <2>3, <2>4, <2>5, <2>6 DEF SpdNext
<1>3. QED
  BY <1>1, <1>2, SpdTypeCorrect, PTL DEF SpdSpec

(***************************************************************************)
(* If the kernel refuses nothing and distinct entries stand for distinct   *)
(* policies, then every node has all its policies in the kernel at every   *)
(* step of every operation, but for those the operation on it has still to *)
(* add or has deleted: removing an entry takes no policy from another, and *)
(* no forward policy of an inbound entry is left out.                      *)
(***************************************************************************)
THEOREM SpdInstalledCorrect ==
  ASSUME OwnPolicies, "reject" \notin MayHappen
  PROVE  SpdSpec => []SpdInstalled
<1>1. SpdInit => SpdInstalled
  BY DEF SpdInit, SpdInstalled
<1>2. PolicyInv /\ SpdNamesUnique /\ SpdGiven /\ SpdInstalled /\ [SpdNext]_spdVars
        => SpdInstalled'
  <2> SUFFICES ASSUME PolicyInv, SpdNamesUnique, SpdGiven, SpdInstalled, [SpdNext]_spdVars
               PROVE  SpdInstalled'
    OBVIOUS
  <2>0. /\ SpdTypeOK /\ SpdOpKnows /\ spd \in Seq(SpdNode) /\ Len(spd) \in Nat
        /\ \A i \in 1..Len(spd) : Policies(spd[i].cfg) \ InTransit(i) \subseteq kspd
    BY LenProperties DEF PolicyInv, SpdTypeOK, SpdInstalled
  <2>1. ASSUME NEW n \in SpdNames, NEW c \in SpdCfgsOf[n], AddSpdNode(n, c)
        PROVE  SpdInstalled'
    <3> DEFINE node == [name |-> n, cfg |-> c]
    <3>1. node \in SpdNode /\ node.name = n
      BY NamesAssumption DEF SpdNode
    <3>2. /\ Len(spd') = Len(spd) + 1
          /\ \A i \in 1..Len(spd) : spd'[i] = spd[i]
          /\ spd'[Len(spd) + 1] = node
          /\ spdOp = NoSpdOp /\ spdOp'.op = "add" /\ spdOp'.node = node /\ kspd' = kspd
      BY <2>0, <2>1, <3>1, AppendProperties DEF AddSpdNode
    <3>3. spdOp' # NoSpdOp
      BY <3>2 DEF NoSpdOp
    <3> HIDE DEF node
    <3>4. ASSUME NEW i \in 1..Len(spd')
          PROVE  Policies(spd'[i].cfg) \ InTransit(i)' \subseteq kspd'
      <4>1. CASE spd'[i] = node
        BY <3>2, <3>3, <4>1 DEF InTransit
      <4>2. CASE spd'[i] # node
        <5>1. i \in 1..Len(spd)
          BY <2>0, <3>2, <4>2
        <5>2. InTransit(i) = {}
          BY <3>2, TransitSteps
        <5>3. QED
          BY <2>0, <3>2, <5>1, <5>2
      <4>3. QED
        BY <4>1, <4>2
    <3>5. QED
      BY <3>4 DEF SpdInstalled
  <2>2. ASSUME NEW node, NEW g \in 1..Len(spd), NEW p \in Policies(node.cfg),
               kspd' = kspd \ {p}, spd' = spd,
               node.name \in SpdNames, node.cfg \in SpdCfgsOf[node.name],
               g # 0, get_spd_node(node.name) = g, spd[g] = node,
               spdOp # NoSpdOp => spdOp.node = node,
               Policies(node.cfg) \ InTransit(g)' \subseteq kspd'
        PROVE  SpdInstalled'
    <3>1. ASSUME NEW i \in 1..Len(spd), i # g
          PROVE  Policies(spd[i].cfg) \ InTransit(i)' \subseteq kspd'
      <4>1. spd[i].name # node.name
        BY <2>0, <2>2, <3>1, OtherNode
      <4>2. InTransit(i) = {}
        BY <2>2, <4>1, TransitSteps
      <4>3. p \notin Policies(spd[i].cfg)
        BY <2>2, <4>1 DEF OwnPolicies, SpdGiven
      <4>4. QED
        BY <2>0, <2>2, <4>2, <4>3
    <3>2. \A i \in 1..Len(spd) : Policies(spd[i].cfg) \ InTransit(i)' \subseteq kspd'
      BY <2>2, <3>1
    <3>3. QED
      BY <2>2, <3>2 DEF SpdInstalled
  <2>3. ASSUME NEW n \in SpdNames, PfDelPolicy(n)
        PROVE  SpdInstalled'
    <3>1. PICK g \in 1..Len(spd) : g = get_spd_node(n) /\ g # 0 /\ spd[g].name = n
      BY <2>0, <2>3, FoundSpdNode DEF PfDelPolicy
    <3>2. PICK node : node = spd[g]
      OBVIOUS
    <3>3. /\ spd' = spd /\ spdOp = NoSpdOp
          /\ kspd' = kspd \ {PolicyId(node.cfg)}
          /\ spdOp' = [op |-> IF Inbound(node) THEN "delForward" ELSE "del",
                       node |-> node]
      BY <2>3, <3>1, <3>2 DEF PfDelPolicy, pf_delpolicy
    <3>4. node.name = n /\ node.cfg \in SpdCfgsOf[n]
      BY <3>1, <3>2 DEF SpdGiven
    <3>5. Policies(node.cfg) \subseteq kspd
      <4>1. InTransit(g) = {}
        BY <3>3, TransitSteps
      <4>2. QED
        BY <2>0, <3>2, <4>1
    <3>6. PolicyId(node.cfg) \in Policies(node.cfg)
      BY DEF Policies
    <3>7. spdOp' # NoSpdOp /\ spdOp'.node = node /\ spdOp'.op \in {"delForward", "del"}
      BY <3>3 DEF NoSpdOp
    <3>8. PolicyId(node.cfg) \in InTransit(g)'
      BY <3>2, <3>3, <3>6, <3>7 DEF InTransit
    <3>9. Policies(node.cfg) \ InTransit(g)' \subseteq kspd'
      BY <3>3, <3>5, <3>8
    <3>10. QED
      BY <2>2, <3>1, <3>2, <3>3, <3>4, <3>6, <3>9
  <2>4. CASE PfDelForward
    <3>1. PICK node : node = spdOp.node
      OBVIOUS
    <3>2. /\ spdOp.op = "delForward" /\ spdOp # NoSpdOp /\ spd' = spd
          /\ kspd' = kspd \ {ForwardId(node.cfg)}
      BY <2>4, <3>1 DEF PfDelForward, pf_delpolicy, NoSpdOp
    <3>3. PICK g \in 1..Len(spd) : g = get_spd_node(node.name) /\ g # 0 /\ spd[g] = node
      BY <2>0, <3>1, <3>2, FoundSpdNode DEF SpdOpKnows
    <3>4. spdOp'.op = "del" /\ spdOp'.node = node
      BY <2>0, <2>4, <3>1, <3>2, SpdOpNode DEF PfDelForward
    <3>5. ForwardId(node.cfg) \in Policies(node.cfg)
      BY <2>0, <3>1, <3>2 DEF SpdOpKnows, Policies, Inbound
    <3>6. node.name \in SpdNames /\ node.cfg \in SpdCfgsOf[node.name]
      BY <3>1, <3>2 DEF SpdGiven
    <3>7. InTransit(g)' = Policies(node.cfg)
      <4>1. spdOp' # NoSpdOp
        BY <3>4 DEF NoSpdOp
      <4>2. QED
        BY <3>2, <3>3, <3>4, <4>1 DEF InTransit
    <3>8. QED
      BY <2>2, <3>1, <3>2, <3>3, <3>5, <3>6, <3>7
  <2>5. CASE PfAddPolicy \/ PfAddForward
    <3>1. PICK node : node = spdOp.node
      OBVIOUS
    <3>2. /\ spdOp.op \in {"add", "addForward"} /\ spdOp # NoSpdOp /\ spd' = spd
          /\ kspd \subseteq kspd'
          /\ spdOp.op = "add" => PolicyId(node.cfg) \in kspd'
          /\ spdOp.op = "addForward" => ForwardId(node.cfg) \in kspd'
      BY <2>5, <3>1 DEF PfAddPolicy, PfAddForward, pf_addpolicy, NoSpdOp
    <3>3. \/ spdOp.op = "add" /\ spdOp' = NoSpdOp /\ ~Inbound(node)
          \/ /\ spdOp.op = "add" /\ spdOp' # NoSpdOp
             /\ spdOp'.op = "addForward" /\ spdOp'.node = node
          \/ spdOp.op = "addForward" /\ spdOp' = NoSpdOp
      <4>1. CASE PfAddForward
        BY <4>1 DEF PfAddForward
      <4>2. CASE PfAddPolicy /\ ~Inbound(node)
        BY <3>1, <4>2 DEF PfAddPolicy
      <4>3. CASE PfAddPolicy /\ Inbound(node)
        <5>1. spdOp.op = "add" /\ spdOp' = [spdOp EXCEPT !.op = "addForward"]
          BY <3>1, <4>3 DEF PfAddPolicy
        <5>2. spdOp'.op = "addForward" /\ spdOp'.node = node
          BY <2>0, <3>1, <3>2, <5>1, SpdOpNode
        <5>3. spdOp' # NoSpdOp
          BY <5>2 DEF NoSpdOp
        <5>4. QED
          BY <5>1, <5>2, <5>3
      <4>4. QED
        BY <2>5, <4>1, <4>2, <4>3
    <3>4. ASSUME NEW i \in 1..Len(spd)
          PROVE  Policies(spd[i].cfg) \ InTransit(i)' \subseteq kspd'
      <4>1. CASE spd[i] # node
        BY <2>0, <3>1, <3>2, <4>1, TransitSteps
      <4>2. CASE spd[i] = node /\ spdOp.op = "addForward"
        BY <2>0, <3>1, <3>2, <4>2, TransitSteps
      <4>3. CASE spd[i] = node /\ ~Inbound(node) /\ spdOp.op = "add"
        BY <3>2, <4>3 DEF Policies, Inbound
      <4>4. CASE /\ spd[i] = node /\ spdOp.op = "add" /\ spdOp' # NoSpdOp
                 /\ spdOp'.op = "addForward" /\ spdOp'.node = node
        <5>1. InTransit(i)' = {ForwardId(node.cfg)}
          BY <3>2, <4>4 DEF InTransit
        <5>2. QED
          BY <3>2, <4>4, <5>1 DEF Policies
      <4>5. QED
        BY <3>3, <4>1, <4>2, <4>3, <4>4
    <3>5. QED
      BY <3>2, <3>4 DEF SpdInstalled
  <2>6. CASE DelSpdNode
    <3> DEFINE g == get_spd_node(spdOp.node.name)
    <3>1. /\ g \in 1..Len(spd) /\ g # 0
          /\ Len(spd') = Len(spd) - 1
          /\ \A j \in 1..Len(spd) - 1 :
               spd'[j] = IF j < g THEN spd[j] ELSE spd[j + 1]
          /\ spdOp' = NoSpdOp /\ kspd' = kspd
      BY <2>0, <2>6, FoundSpdNode, UnlinkedSpd DEF DelSpdNode
    <3>2. ASSUME NEW i \in 1..Len(spd), i # g
          PROVE  Policies(spd[i].cfg) \subseteq kspd
      <4>1. spd[i] # spdOp.node
        BY <2>0, <3>1, <3>2, OtherNode
      <4>2. QED
        BY <2>0, <4>1, TransitSteps
    <3> HIDE DEF g
    <3>3. \A j \in 1..Len(spd') : \E i \in 1..Len(spd) : i # g /\ spd'[j] = spd[i]
      <4> SUFFICES ASSUME NEW j \in 1..Len(spd')
                   PROVE  \E i \in 1..Len(spd) : i # g /\ spd'[j] = spd[i]
        OBVIOUS
      <4>1. CASE j < g
        BY SMTT(30), <2>0, <3>1, <4>1
      <4>2. CASE ~(j < g)
        <5>1. j + 1 \in 1..Len(spd) /\ j + 1 # g /\ spd'[j] = spd[j + 1]
          BY <2>0, <3>1, <4>2
        <5>2. QED
          BY <5>1
      <4>3. QED
        BY <4>1, <4>2
    <3>4. QED
      BY <3>1, <3>2, <3>3 DEF SpdInstalled
  <2>7. CASE SpdLost
    BY <2>7 DEF SpdLost, SpdInstalled
  <2>8. CASE UNCHANGED spdVars
    BY <2>0, <2>8 DEF spdVars, SpdInstalled, InTransit
  <2>9. QED
    BY <2>1, <2>3, <2>4, <2>5, <2>6, <2>7, <2>8 DEF SpdNext
<1>3. QED
  BY <1>1, <1>2, PolicyInvCorrect, SpdNamesCorrect, SpdGivenCorrect, PTL DEF SpdSpec

=============================================================================
