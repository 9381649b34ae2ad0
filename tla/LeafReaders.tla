---------------------------- MODULE LeafReaders -----------------------------
(***************************************************************************)
(* How readSPD_entry and readSAD_entry bring the leaves of an entry into   *)
(* the fields of its node, and what pf_addsad makes of the node's          *)
(* lifetimes.  A reader has a branch for the last name of a path; where    *)
(* several containers have a leaf of that name, the branch looks for the   *)
(* container's name anywhere in the path, the name of the entry included.  *)
(*                                                                         *)
(* A value is represented by the leaf it is configured for and a number,   *)
(* so that a value in another field shows.  The number is 0 but for        *)
(* lifetimes and protocols.  An entry has at most one range of local and   *)
(* one of remote ports.  ChangeFeed has which records a reader takes; here *)
(* they are those of its entry.                                            *)
(***************************************************************************)
EXTENDS Integers, Sequences, FiniteSets, SequencesExt

CONSTANTS
  Half,       \* half the range of 32 bits: 2^31 in the program
  ULongMod,   \* the size of unsigned long: 2^64 in the program
  Amounts,    \* lifetimes to configure
  Protocols,  \* inner protocols to configure, 256 for "any"
  Pointers,   \* the low 16 bits of addresses that malloc returns
  NamedAs,    \* containers' names that an entry's name may contain
  MaxOmitted  \* bound: leaves left out

ASSUME ReadersAssumption ==
  /\ Half \in Nat \ {0} /\ ULongMod \in Nat /\ ULongMod >= 4 * Half
  /\ Amounts \subseteq 0 .. ULongMod - 1
  /\ Protocols \subseteq 0..256
  /\ Pointers \subseteq 0..65535
  /\ MaxOmitted \in Nat

VARIABLES
  list,   \* whose reader it is: "spd" or "sad"
  named,  \* the containers' names in the name of the entry
  entry,  \* the entry: a sequence of values
  at,     \* the index of the value to be read next
  node,   \* node[f]: the value in field f, or Unset
  msg     \* the lifetimes of the SADB_ADD message, or NoMsg

vars == <<list, named, entry, at, node, msg>>

Units == {"time", "bytes", "packets", "idle"}

-----------------------------------------------------------------------------
(* The schema.  Containers that no branch looks for are left out of a path.  *)

Leaves(container, names) ==
  [i \in 1..Len(names) |-> [in |-> container, name |-> names[i]]]

Selector ==
  Leaves("traffic-selector", <<"local-prefix", "remote-prefix", "inner-protocol">>)
    \o Leaves("local-ports", <<"start", "end">>) \o Leaves("remote-ports", <<"start", "end">>)

Tunnel == Leaves("tunnel", <<"local", "remote", "df-bit", "bypass-dscp">>)

LifetimeLeaves(container) == Leaves(container, <<"time", "bytes", "packets", "idle">>)

SpdLeaves ==
  Leaves("spd-entry", <<"direction", "reqid", "anti-replay-window-size">>)
    \o Selector
    \o Leaves("spd-entry", <<"action", "pfp-flag", "ext-seq-num", "seq-overflow",
                             "stateful-frag-check", "mode", "protocol-parameters",
                             "integrity", "tfc-pad">>)
    \o Tunnel

SadLeaves ==
  Leaves("sad-entry", <<"reqid", "spi", "ext-seq-num", "seq-overflow",
                        "anti-replay-window-size">>)
    \o Selector
    \o Leaves("sad-entry", <<"protocol-parameters", "mode">>)
    \o Leaves("encryption", <<"encryption-algorithm", "key", "iv">>)
    \o Leaves("integrity", <<"integrity-algorithm", "key">>)
    \o LifetimeLeaves("sa-lifetime-hard")
    \o LifetimeLeaves("sa-lifetime-soft")
    \o Leaves("sa-lifetime-soft", <<"action">>)
    \o Tunnel

LeavesOf(l) == IF l = "spd" THEN SpdLeaves ELSE SadLeaves

\* The leaves that an entry may be without; of ports both ends.
Optional == Units \cup {"key", "start"}

-----------------------------------------------------------------------------
(* The readers' branches for the leaves of the schema *)

\* A branch that looks at nothing but the leaf's name.  A field is a tuple: its
\* name in the node, or the unit and kind of a lifetime.
Branch(leaf, f) == [leaf |-> leaf, inside |-> "", field |-> <<f>>]

BranchIn(leaf, container, f) == [leaf |-> leaf, inside |-> container, field |-> f]

SelectorBranches ==
  {Branch("local-prefix", "local_subnet"), Branch("remote-prefix", "remote_subnet"),
   Branch("inner-protocol", "inner_protocol"),
   BranchIn("start", "local-ports", <<"srcport">>), BranchIn("start", "remote-ports", <<"dstport">>)}

TunnelBranches ==
  {Branch("local", "tunnel_local"), Branch("remote", "tunnel_remote"),
   Branch("df-bit", "df_bit"), Branch("bypass-dscp", "bypass_dscp")}

CommonBranches ==
  {Branch("reqid", "req_id"), Branch("anti-replay-window", "anti_replay_window"),
   Branch("ext-seq-num", "ext_seq_num"), Branch("seq-overflow", "seq_overflow"),
   Branch("mode", "ipsec_mode"), Branch("protocol-parameters", "protocol_parameters")}

SpdBranches ==
  {Branch("direction", "policy_dir"), Branch("action", "action"),
   Branch("pfp-flag", "pfp_flag"), Branch("stateful-frag-check", "stateful_frag_check"),
   Branch("integrity", "integrity_alg"), Branch("tfc-pad", "tfc_pad")}

EspBranches ==
  {Branch("spi", "spi"),
   Branch("encryption-algorithm", "encryption_alg"), Branch("iv", "encryption_iv"),
   Branch("integrity-algorithm", "integrity_alg"),
   BranchIn("key", "encryption", <<"encryption_key">>),
   BranchIn("key", "integrity", <<"integrity_key">>)}

LifetimeBranches ==
  {BranchIn(u, "sa-lifetime-soft", <<u, "soft">>) : u \in Units}
    \cup {BranchIn(u, "sa-lifetime-hard", <<u, "hard">>) : u \in Units}

Branches(l) ==
  UNION {SelectorBranches, TunnelBranches, CommonBranches,
         IF l = "spd" THEN SpdBranches ELSE EspBranches \cup LifetimeBranches}

-----------------------------------------------------------------------------
(* Reading *)

\* Mutant of Writes: a branch does not look for its container.
WritesByName(l, r) == {b.field : b \in {c \in Branches(l) : c.leaf = r.name}}

\* The fields that list l's reader puts leaf r into; it looks for the soft
\* lifetimes first.
Writes(l, r) ==
  LET path == {"", r.in} \cup named
  IN  {b.field : b \in {c \in Branches(l) :
         /\ c.leaf = r.name
         /\ c.inside \in path
         /\ c.inside = "sa-lifetime-hard" => "sa-lifetime-soft" \notin path}}

Fields(l) == {b.field : b \in Branches(l)}

\* int32_val, assigned to an unsigned long.
Long(n) ==
  LET low == n % (2 * Half)
  IN  IF low < Half THEN low ELSE low - 2 * Half + ULongMod

\* The protocol "any" is a string; the low half of its address is looked at
\* first and taken for the protocol unless it is too large.
Protocol(n) == IF n < 256 THEN {n} ELSE {IF a > 256 THEN 256 ELSE a : a \in Pointers}

\* What a branch may take value v for.
Taken(v) ==
  {[v EXCEPT !.is = n] :
     n \in IF v.of.name \in Units THEN {Long(v.is)}
           ELSE IF v.of.name = "inner-protocol" THEN Protocol(v.is)
           ELSE {v.is}}

\* What create_spd_node and create_sad_node have in a field: no leaf's value.
Unset == [of |-> [in |-> "", name |-> ""], is |-> 0]

NoMsg == << >>

\* An entry of list l: its leaves in the order of the schema but those omitted.
Entry(l, omitted, protocol, amount) ==
  LET there(r) == r \notin omitted /\ [r EXCEPT !.name = "start"] \notin omitted
      number(r) == IF r.name \in Units THEN amount
                   ELSE IF r.name = "inner-protocol" THEN protocol ELSE 0
      leaves == SelectSeq(LeavesOf(l), there)
  IN  [i \in 1..Len(leaves) |-> [of |-> leaves[i], is |-> number(leaves[i])]]

Omissible(l) == {r \in ToSet(LeavesOf(l)) : r.name \in Optional}

Entries(l) ==
  {Entry(l, omitted, protocol, amount) :
     omitted \in {o \in SUBSET Omissible(l) : Cardinality(o) <= MaxOmitted},
     protocol \in Protocols, amount \in Amounts}

Init ==
  /\ list \in {"spd", "sad"}
  /\ named \in SUBSET NamedAs
  /\ entry \in Entries(list)
  /\ at = 1
  /\ node = [f \in Fields(list) |-> Unset]
  /\ msg = NoMsg

\* readSPD_entry, readSAD_entry: a record of the entry.
ReadLeaf ==
  /\ at <= Len(entry)
  /\ at' = at + 1
  /\ LET v == entry[at]
         fs == Writes(list, v.of)
     IN  \E t \in Taken(v) :
           node' = [f \in DOMAIN node |-> IF f \in fs THEN t ELSE node[f]]
  /\ UNCHANGED <<list, named, entry, msg>>

\* Mutant of Lifetime: bytes and packets are mistaken for each other.
LifetimeMistaken(s) ==
  [allocations |-> node[<<"bytes", s>>], bytes |-> node[<<"packets", s>>],
   usetime |-> node[<<"idle", s>>], addtime |-> node[<<"time", s>>]]

\* A lifetime extension of SADB_ADD.
Lifetime(s) ==
  [allocations |-> node[<<"packets", s>>], bytes |-> node[<<"bytes", s>>],
   usetime |-> node[<<"idle", s>>], addtime |-> node[<<"time", s>>]]

\* pf_addsad
pf_addsad ==
  /\ list = "sad"
  /\ at > Len(entry)
  /\ msg = NoMsg
  /\ msg' = [hard |-> Lifetime("hard"), soft |-> Lifetime("soft")]
  /\ UNCHANGED <<list, named, entry, at, node>>

Next == ReadLeaf \/ pf_addsad

Spec == Init /\ [][Next]_vars

-----------------------------------------------------------------------------
Read == at > Len(entry)

Configured == ToSet(entry)

\* The reader has a branch for the name of leaf r.
HasBranch(r) == \E b \in Branches(list) : b.leaf = r.name

(***************************************************************************)
(* A leaf that readSPD_entry or readSAD_entry has a branch for ends in a   *)
(* field as it is configured, and in one only: leaves of one name in       *)
(* several containers are told apart, and none overwrites another.         *)
(***************************************************************************)
OwnField ==
  Read => \A v \in Configured : HasBranch(v.of) =>
            \E f \in DOMAIN node : {g \in DOMAIN node : node[g] = v} = {f}

(***************************************************************************)
(* pf_addsad tells the kernel the lifetimes that are configured: the hard  *)
(* ones as hard, each in its unit, and none for a leaf that is left out.   *)
(***************************************************************************)
LifetimesTold ==
  msg # NoMsg =>
    \A c \in {"hard", "soft"}, m \in {<<"allocations", "packets">>, <<"bytes", "bytes">>,
                                      <<"usetime", "idle">>, <<"addtime", "time">>} :
      LET r == [in |-> IF c = "hard" THEN "sa-lifetime-hard" ELSE "sa-lifetime-soft",
                name |-> m[2]]
          given == {v \in Configured : v.of = r}
      IN  msg[c][m[1]] \in IF given = {} THEN {Unset} ELSE given

=============================================================================
