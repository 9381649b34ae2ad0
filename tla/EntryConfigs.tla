---------------------------- MODULE EntryConfigs ----------------------------
(***************************************************************************)
(* The entries of the two lists of ietf-i2nsf-ikeless.yang as sets of      *)
(* leaves, and the nodes the agent makes of them.  A leaf is represented   *)
(* by the entry it belongs to and its name, so that a node which took a    *)
(* leaf of another entry shows it.                                         *)
(*                                                                         *)
(* Three leaves stand for the thirty of an entry: one both lists have      *)
(* (reqid), one only its own list has (direction, spi) and one that need   *)
(* not be there (tunnel).                                                  *)
(***************************************************************************)
EXTENDS Integers, Sequences, FiniteSets, SequencesExt

CONSTANTS
  SpdNames,  \* names of SPD entries
  SadNames   \* names of SAD entries; the lists may share names

Lists == {"spd", "sad"}

Entries == ({"spd"} \X SpdNames) \cup ({"sad"} \X SadNames)

ListOf(e) == e[1]

NameOf(e) == e[2]

\* The leaves of an entry besides its key, in the order of the schema.
Body(l) ==
  IF l = "spd" THEN <<"direction", "reqid", "tunnel">> ELSE <<"reqid", "spi", "tunnel">>

Optional == {"tunnel"}

\* What an entry of list l may be configured with.
Configs(l) == {leaves \in SUBSET ToSet(Body(l)) : ToSet(Body(l)) \ Optional \subseteq leaves}

\* The leaves readSPD_entry or readSAD_entry has a branch for.
Known(l) == ToSet(Body(l))

\* No such entry: every entry has mandatory leaves.
Absent == {}

Running ==
  {conf \in [Entries -> {Absent} \cup UNION {Configs(l) : l \in Lists}] :
     \A e \in Entries : conf[e] \in Configs(ListOf(e)) \cup {Absent}}

Node == [entry : Entries, got : SUBSET (Entries \X UNION {Known(l) : l \in Lists})]

\* The node of entry e configured with a set of leaves.
NodeOf(e, leaves) ==
  [entry |-> e, got |-> {<<e, f>> : f \in leaves \cap Known(ListOf(e))}]

\* get_spd_node and get_sad_node: the first node under a name, 0 for NULL.
Find(list, n) == SelectInSeq(list, LAMBDA x : NameOf(x.entry) = n)

\* Entries that appear or disappear between two configurations.
Turned(old, new) == {e \in Entries : (old[e] = Absent) # (new[e] = Absent)}

NoNodes == [l \in Lists |-> << >>]

=============================================================================
