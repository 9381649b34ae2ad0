-------------------------------- MODULE Spd ---------------------------------
(***************************************************************************)
(* The agent's SPD: the list behind init_spd_node and the kernel's SPD.    *)
(* An inbound entry stands for two kernel policies, the inbound one and,   *)
(* on Linux, a forward one; addSPD_entry links the node and then adds      *)
(* them one by one, removeSPD_entry deletes them one by one and then       *)
(* unlinks the node.  Each message is a step: replies are not read.        *)
(***************************************************************************)
EXTENDS IpsecEntries

VARIABLES
  spd,       \* the list, in link order
  spdOp,     \* the entry operation under way and the step it is at
  kspd,      \* the kernel's policies, each by its identity
  spdStrays  \* the kernel's policies no operation of this run has installed

spdVars == <<spd, spdOp, kspd, spdStrays>>

NoSpdOp == [op |-> "none"]

SpdOps ==
  {NoSpdOp} \cup [op : {"add", "addForward", "delForward", "del"},
                  node : SpdNode]

SpdTypeOK ==
  /\ spd \in Seq(SpdNode)
  /\ spdOp \in SpdOps
  /\ kspd \subseteq PolicyIds
  /\ spdStrays \subseteq kspd

SpdInit ==
  /\ spd = << >>
  /\ spdOp = NoSpdOp
  /\ kspd = {}
  /\ spdStrays = {}

get_spd_node(n) == GetNode(spd, n)

\* Mutant of Inbound: tests for the direction no configured entry has.
InboundMistaken(node) == node.cfg.policy_dir = "forward"

\* policy_dir of a node decides whether a forward policy follows.
Inbound(node) == node.cfg.policy_dir = "inbound"

\* pf_addpolicy's SPDADD: EEXIST for a known identity, refused for any
\* other if the kernel so decides; no reply is read.
pf_addpolicy(id) ==
  /\ \/ kspd' = kspd \cup {id}
     \/ "reject" \in MayHappen /\ kspd' = kspd
  /\ UNCHANGED spdStrays

\* pf_delpolicy's SPDDELETE: ESRCH for an unknown identity, not read either.
pf_delpolicy(id) ==
  /\ kspd' = kspd \ {id}
  /\ spdStrays' = spdStrays \ {id}

-----------------------------------------------------------------------------
\* addSPD_entry for a name that has a node: SR_ERR_OK and nothing changes.
SpdExists(n) ==
  /\ spdOp = NoSpdOp
  /\ get_spd_node(n) # 0
  /\ UNCHANGED spdVars

\* Mutant of AddSpdNode: the name is not looked up first.
AddSpdNodeUnchecked(n, c) ==
  /\ spdOp = NoSpdOp
  /\ Len(spd) < MaxNodes
  /\ spd' = Append(spd, [name |-> n, cfg |-> c])
  /\ spdOp' = [op |-> "add", node |-> [name |-> n, cfg |-> c]]
  /\ UNCHANGED <<kspd, spdStrays>>

\* addSPD_entry up to add_spd_node.
AddSpdNode(n, c) ==
  /\ spdOp = NoSpdOp
  /\ get_spd_node(n) = 0
  /\ Len(spd) < MaxNodes
  /\ spd' = Append(spd, [name |-> n, cfg |-> c])
  /\ spdOp' = [op |-> "add", node |-> [name |-> n, cfg |-> c]]
  /\ UNCHANGED <<kspd, spdStrays>>

\* addSPD_entry's first pf_addpolicy.
PfAddPolicy ==
  /\ spdOp.op = "add"
  /\ pf_addpolicy(PolicyId(spdOp.node.cfg))
  /\ spdOp' = IF Inbound(spdOp.node)
                THEN [spdOp EXCEPT !.op = "addForward"] ELSE NoSpdOp
  /\ UNCHANGED spd

\* addSPD_entry's second pf_addpolicy, with policy_dir set to forward.
PfAddForward ==
  /\ spdOp.op = "addForward"
  /\ pf_addpolicy(ForwardId(spdOp.node.cfg))
  /\ spdOp' = NoSpdOp
  /\ UNCHANGED spd

\* Mutant of PfDelPolicy: the forward policy is not deleted.
PfDelPolicyOnly(n) ==
  /\ spdOp = NoSpdOp
  /\ get_spd_node(n) # 0
  /\ pf_delpolicy(PolicyId(spd[get_spd_node(n)].cfg))
  /\ spdOp' = [op |-> "del", node |-> spd[get_spd_node(n)]]
  /\ UNCHANGED spd

\* removeSPD_entry up to its first pf_delpolicy.
PfDelPolicy(n) ==
  /\ spdOp = NoSpdOp
  /\ get_spd_node(n) # 0
  /\ LET node == spd[get_spd_node(n)]
     IN  /\ pf_delpolicy(PolicyId(node.cfg))
         /\ spdOp' = [op |-> IF Inbound(node) THEN "delForward" ELSE "del",
                      node |-> node]
  /\ UNCHANGED spd

\* removeSPD_entry's second pf_delpolicy.
PfDelForward ==
  /\ spdOp.op = "delForward"
  /\ pf_delpolicy(ForwardId(spdOp.node.cfg))
  /\ spdOp' = [spdOp EXCEPT !.op = "del"]
  /\ UNCHANGED spd

\* The rest of removeSPD_entry.
DelSpdNode ==
  /\ spdOp.op = "del"
  /\ get_spd_node(spdOp.node.name) # 0
  /\ spd' = DelNode(spd, spdOp.node.name)
  /\ spdOp' = NoSpdOp
  /\ UNCHANGED <<kspd, spdStrays>>

\* removeSPD_entry's error path.
SpdNotFound(n) ==
  /\ spdOp = NoSpdOp
  /\ get_spd_node(n) = 0
  /\ UNCHANGED spdVars

\* The process ends; the kernel keeps its policies.
SpdLost ==
  /\ spd' = << >>
  /\ spdOp' = NoSpdOp
  /\ spdStrays' = kspd
  /\ UNCHANGED kspd

SpdNext ==
  \/ \E n \in SpdNames : \/ \E c \in SpdCfgsOf[n] : AddSpdNode(n, c)
                         \/ PfDelPolicy(n)
  \/ PfAddPolicy
  \/ PfAddForward
  \/ PfDelForward
  \/ DelSpdNode
  \/ SpdLost

SpdSpec == SpdInit /\ [][SpdNext]_spdVars

-----------------------------------------------------------------------------
(***************************************************************************)
(* No two nodes of the SPD list have the same name: the check at the head  *)
(* of addSPD_entry is enough, whatever the callers do and however often    *)
(* the process is restarted.                                               *)
(***************************************************************************)
SpdNamesUnique ==
  \A i, j \in 1..Len(spd) : spd[i].name = spd[j].name => i = j

\* The policies of node i that the operation under way has yet to add or
\* has deleted already.
InTransit(i) ==
  IF spdOp = NoSpdOp \/ spdOp.node # spd[i] THEN {}
  ELSE CASE spdOp.op = "addForward" -> {ForwardId(spd[i].cfg)}
         [] spdOp.op = "delForward" -> {PolicyId(spd[i].cfg)}
         [] OTHER -> Policies(spd[i].cfg)

(***************************************************************************)
(* Every node of the SPD list has all its policies in the kernel, the      *)
(* forward one of an inbound entry included, except for those the          *)
(* operation under way has not added yet or has deleted already.           *)
(***************************************************************************)
SpdInstalled ==
  \A i \in 1..Len(spd) : Policies(spd[i].cfg) \ InTransit(i) \subseteq kspd

(***************************************************************************)
(* Every policy this run of the agent has put in the kernel belongs to a   *)
(* node of the list: removeSPD_entry never unlinks a node while one of its *)
(* policies is still installed.                                            *)
(***************************************************************************)
PolicyHasNode ==
  \A p \in kspd \ spdStrays : \E i \in 1..Len(spd) : p \in Policies(spd[i].cfg)

=============================================================================
