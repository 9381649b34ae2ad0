-------------------------------- MODULE Sad ---------------------------------
(***************************************************************************)
(* The agent's SAD: the list behind init_sad_node and the kernel's SAD     *)
(* that PF_KEY messages change.  addSAD_entry and removeSAD_entry take two *)
(* steps each, since the register thread and the kernel run between them:  *)
(* addSAD_entry links the node before it writes SADB_ADD, removeSAD_entry  *)
(* writes SADB_DELETE before it unlinks the node.  No reply is read, so a  *)
(* refused request and an honoured one look the same to the agent.         *)
(*                                                                         *)
(* Who calls the operations, and when, is left open here: see Agent.       *)
(***************************************************************************)
EXTENDS IpsecEntries

CONSTANTS
  ForeignIds   \* SAs other programs may install in the same kernel

ASSUME ForeignAssumption == ForeignIds \subseteq SaIds

VARIABLES
  sad,     \* the list, in link order
  sadOp,   \* the entry operation under way
  ksad,    \* the kernel's SAs, each by its identity
  aging,   \* the kernel's SAs whose soft lifetime is over
  strays   \* the kernel's SAs no operation of this run has installed

sadVars == <<sad, sadOp, ksad, aging, strays>>

NoSadOp == [op |-> "none"]

SadOps ==
  {NoSadOp} \cup [op : {"add"}, node : SadNode]
            \cup [op : {"del"}, node : SadNode]

SadTypeOK ==
  /\ sad \in Seq(SadNode)
  /\ sadOp \in SadOps
  /\ ksad \subseteq SaIds
  /\ aging \subseteq ksad
  /\ strays \subseteq ksad

SadInit ==
  /\ sad = << >>
  /\ sadOp = NoSadOp
  /\ ksad = {}
  /\ aging = {}
  /\ strays = {}

\* get_sad_node and get_sad_node_by_spi.
get_sad_node(n) == GetNode(sad, n)

get_sad_node_by_spi(s) == GetNodeBySpi(sad, s)

\* The kernel drops an SA.
KernelForgets(ids) ==
  /\ ksad' = ksad \ ids
  /\ aging' = aging \ ids
  /\ strays' = strays \ ids

-----------------------------------------------------------------------------
\* addSAD_entry up to add_sad_node: there is no check for an existing name.
AddSadNode(n, c) ==
  /\ sadOp = NoSadOp
  /\ Len(sad) < MaxNodes
  /\ sad' = Append(sad, [name |-> n, cfg |-> c])
  /\ sadOp' = [op |-> "add", node |-> [name |-> n, cfg |-> c]]
  /\ UNCHANGED <<ksad, aging, strays>>

\* pf_addsad and pf_getsad: the kernel answers EEXIST for a known identity,
\* may refuse any other, and the agent reads neither answer.
PfAddSad ==
  /\ sadOp.op = "add"
  /\ \/ ksad' = ksad \cup {AddId(sadOp.node.cfg)}
     \/ "reject" \in MayHappen /\ ksad' = ksad
  /\ sadOp' = NoSadOp
  /\ UNCHANGED <<sad, aging, strays>>

\* Mutant of PfDelSad: no SADB_DELETE is written.
PfDelSadSkipped(n) ==
  /\ sadOp = NoSadOp
  /\ get_sad_node(n) # 0
  /\ sadOp' = [op |-> "del", node |-> sad[get_sad_node(n)]]
  /\ UNCHANGED <<sad, ksad, aging, strays>>

\* removeSAD_entry up to pf_delsad.
PfDelSad(n) ==
  /\ sadOp = NoSadOp
  /\ get_sad_node(n) # 0
  /\ LET node == sad[get_sad_node(n)]
     IN  /\ KernelForgets({DelId(node.cfg)})
         /\ sadOp' = [op |-> "del", node |-> node]
  /\ UNCHANGED sad

\* The rest of removeSAD_entry.
DelSadNode ==
  /\ sadOp.op = "del"
  /\ get_sad_node(sadOp.node.name) # 0
  /\ sad' = DelNode(sad, sadOp.node.name)
  /\ sadOp' = NoSadOp
  /\ UNCHANGED <<ksad, aging, strays>>

\* removeSAD_entry's error path: nothing changes.
SadNotFound(n) ==
  /\ sadOp = NoSadOp
  /\ get_sad_node(n) = 0
  /\ UNCHANGED sadVars

\* The process ends; the kernel keeps its SAs.
SadLost ==
  /\ sad' = << >>
  /\ sadOp' = NoSadOp
  /\ strays' = ksad
  /\ UNCHANGED <<ksad, aging>>

-----------------------------------------------------------------------------
\* The kernel's own steps.
SoftExpire(k) ==
  /\ k \in ksad \ aging
  /\ aging' = aging \cup {k}
  /\ UNCHANGED <<sad, sadOp, ksad, strays>>

HardExpire(k) ==
  /\ k \in ksad
  /\ KernelForgets({k})
  /\ UNCHANGED <<sad, sadOp>>

\* Another program adds an SA.
ForeignAdd(k) ==
  /\ k \in ForeignIds \ ksad
  /\ ksad' = ksad \cup {k}
  /\ strays' = strays \cup {k}
  /\ UNCHANGED <<sad, sadOp, aging>>

SadNext ==
  \/ \E n \in SadNames : \/ \E c \in SadCfgsOf[n] : AddSadNode(n, c)
                         \/ PfDelSad(n)
  \/ PfAddSad
  \/ DelSadNode
  \/ SadLost
  \/ \E k \in SaIds : SoftExpire(k) \/ HardExpire(k) \/ ForeignAdd(k)

SadSpec == SadInit /\ [][SadNext]_sadVars

-----------------------------------------------------------------------------
(***************************************************************************)
(* Every SA in the kernel that this run of the agent installed has a node  *)
(* in the list, through every interleaving of the two-step operations with *)
(* the kernel's expirations: a node is what lets the agent find and delete *)
(* the SA again.                                                           *)
(***************************************************************************)
SaHasNode ==
  \A k \in ksad \ strays : \E i \in 1..Len(sad) : AddId(sad[i].cfg) = k

=============================================================================
