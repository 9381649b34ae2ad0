---------------------------- MODULE IpsecEntries ----------------------------
(***************************************************************************)
(* The data the agent keeps: SAD entries and SPD entries as they are       *)
(* configured, the nodes of the agent's two lists, and the identity under  *)
(* which the kernel knows an SA or a policy.                               *)
(*                                                                         *)
(* Of the thirty-odd fields of sad_entry_node and spd_entry_node the       *)
(* modules keep those that decide what a step does: an entry's name (the   *)
(* key of both lists), the SPI, the mode and the addresses of an SA, and   *)
(* the direction and the traffic selector of a policy.                     *)
(***************************************************************************)
EXTENDS Integers, Sequences, FiniteSets, SequencesExt

CONSTANTS
  SadNames,    \* names of SAD entries (the YANG key of sad-entry)
  SpdNames,    \* names of SPD entries (the YANG key of spd-entry)
  Addrs,       \* addresses
  Spis,        \* SPIs in use, a subset of the unsigned SPI range
  Selectors,   \* traffic selectors of policies
  SadCfgsOf,   \* SadCfgsOf[n]: the configurations a SAD entry n may be given
  SpdCfgsOf,   \* SpdCfgsOf[n]: the configurations an SPD entry n may be given
  SpiHalf,     \* half the unsigned SPI range: 2^31 in the program
  ULongMod,    \* size of unsigned long: 2^64 in the program
  ABSENT,      \* no entry under this name
  MaxNodes,    \* bound: nodes in either list
  MayHappen    \* what the environment may do to the agent

(***************************************************************************)
(* What the environment may do besides serving the agent:                  *)
(*   reject   the kernel refuses an SADB_ADD or SADB_X_SPDADD              *)
(*   notif    lyd_new_path or sr_event_notif_send_tree fails               *)
(*   request  sr_connect, sr_session_start or sr_apply_changes fails       *)
(*   drop     the receive queue of the registered socket is full           *)
(*   early    an SA expires before the socket is registered                *)
(*   noise    messages other than SADB_EXPIRE reach the registered socket  *)
(*   stop     the process is stopped                                       *)
(*   late     sysrepo gives a callback up before it has returned            *)
(***************************************************************************)
Perturbations ==
  {"reject", "notif", "request", "drop", "early", "noise", "stop", "late"}

Modes == {"transport", "tunnel"}

Dirs == {"inbound", "outbound", "forward"}

\* Fields of sad_entry_node that the readers of a node use.
SadCfg == [spi : Spis, ipsec_mode : Modes,
           remote_subnet : Addrs, tunnel_remote : Addrs]

\* Fields of spd_entry_node that the readers of a node use.
SpdCfg == [policy_dir : Dirs \ {"forward"}, selector : Selectors]

ASSUME NamesAssumption ==
  /\ ABSENT \notin SadCfg
  /\ ABSENT \notin SpdCfg
  /\ SadCfgsOf \in [SadNames -> SUBSET SadCfg]
  /\ SpdCfgsOf \in [SpdNames -> SUBSET SpdCfg]
  /\ ABSENT \notin SadNames
  /\ MayHappen \subseteq Perturbations

ASSUME WidthAssumption ==
  /\ SpiHalf \in Nat \ {0}
  /\ ULongMod \in Nat
  /\ ULongMod >= 4 * SpiHalf
  /\ Spis \subseteq 0 .. 2 * SpiHalf - 1
  /\ MaxNodes \in Nat

SadNode == [name : SadNames, cfg : SadCfg]

SpdNode == [name : SpdNames, cfg : SpdCfg]

SaIds == Addrs \X Spis

PolicyIds == Dirs \X Selectors

-----------------------------------------------------------------------------
(***************************************************************************)
(* The kernel finds an SA by its destination address and SPI.  pf_addsad   *)
(* names the tunnel end point of a tunnel-mode SA and the remote subnet of *)
(* a transport-mode one; pf_delsad always names the remote subnet.         *)
(***************************************************************************)
AddId(c) ==
  <<IF c.ipsec_mode = "tunnel" THEN c.tunnel_remote ELSE c.remote_subnet,
    c.spi>>

DelId(c) == <<c.remote_subnet, c.spi>>

\* The kernel finds a policy by its direction and selector.
PolicyId(c) == <<c.policy_dir, c.selector>>

\* What addSPD_entry installs besides the policy of an inbound entry.
ForwardId(c) == <<"forward", c.selector>>

\* Every policy an SPD entry stands for.
Policies(c) ==
  {PolicyId(c)} \cup (IF c.policy_dir = "inbound" THEN {ForwardId(c)} ELSE {})

(***************************************************************************)
(* pf_sadb_esp_register_run holds the SPI of an EXPIRE message in an int   *)
(* and hands it on as an unsigned long, which extends its sign.            *)
(***************************************************************************)
\* Mutant of AsInt: an int of half the width.
AsShort(u) == IF u < SpiHalf \div 2 THEN u ELSE u - SpiHalf

AsInt(u) == IF u < SpiHalf THEN u ELSE u - 2 * SpiHalf

AsULong(i) == IF i < 0 THEN i + ULongMod ELSE i

EventSpi(u) == AsULong(AsInt(u))

-----------------------------------------------------------------------------
\* The first node of a list under a name, 0 for NULL (get_sad_node and
\* get_spd_node: the two functions are the same walk).
GetNode(list, n) == SelectInSeq(list, LAMBDA e : e.name = n)

\* The first node with an SPI, 0 for NULL.
GetNodeBySpi(list, s) == SelectInSeq(list, LAMBDA e : e.cfg.spi = s)

\* del_sad_node and del_spd_node: unlink the first node under a name.
DelNode(list, n) == RemoveAt(list, GetNode(list, n))

\* The names in a list.
NamesIn(list) == {list[i].name : i \in 1..Len(list)}

=============================================================================
