----------------------------- MODULE EntryWise ------------------------------
(***************************************************************************)
(* What the callbacks make of a commit, entry by entry: each entry that is *)
(* created or deleted is handled once, by the callback of its list, in an  *)
(* order nobody fixes, and a created one gets exactly its own leaves.      *)
(* A commit that moves an entry to the first place may instead end the     *)
(* process while a created entry is handled.                               *)
(* Agent has the changes handled this way (Datastore!ChangeNext).          *)
(* ChangeFeed, which has the records sysrepo hands out, is shown to        *)
(* implement it.                                                           *)
(***************************************************************************)
EXTENDS EntryConfigs

CONSTANT
  ToFirst  \* whether a commit may move an entry to the first place

VARIABLES
  running,  \* the running configuration
  wanted,   \* what it becomes if the commit under way succeeds
  todo,     \* the entries created or deleted that are not handled yet
  nodes     \* nodes[l]: list l of the agent, oldest node first

entryVars == <<running, wanted, todo, nodes>>

EntryInit ==
  /\ running = [e \in Entries |-> Absent]
  /\ wanted = running
  /\ todo = {}
  /\ nodes = NoNodes

NodeAt(e) == Find(nodes[ListOf(e)], NameOf(e))

\* A commit that creates, deletes or modifies entries.
Begin ==
  /\ todo = {}
  /\ wanted = running
  /\ wanted' \in Running
  /\ todo' = Turned(running, wanted')
  /\ UNCHANGED <<running, nodes>>

\* spd_entry_change_cb adds no second node under a name.
Create(e) ==
  /\ wanted[e] # Absent
  /\ todo' = todo \ {e}
  /\ nodes' = IF ListOf(e) = "spd" /\ NodeAt(e) # 0
                THEN nodes
                ELSE [nodes EXCEPT ![ListOf(e)] = Append(@, NodeOf(e, wanted[e]))]
  /\ UNCHANGED <<running, wanted>>

Delete(e) ==
  /\ wanted[e] = Absent
  /\ NodeAt(e) # 0
  /\ todo' = todo \ {e}
  /\ nodes' = [nodes EXCEPT ![ListOf(e)] = RemoveAt(@, NodeAt(e))]
  /\ UNCHANGED <<running, wanted>>

\* The node of an entry to be deleted is missing: the commit is undone, and
\* the entries handled before stay handled.
Fail(e) ==
  /\ wanted[e] = Absent
  /\ NodeAt(e) = 0
  /\ todo' = {}
  /\ wanted' = running
  /\ UNCHANGED <<running, nodes>>

\* The process dies over a created entry, and the commit is undone.
Die(e) ==
  /\ ToFirst
  /\ wanted[e] # Absent
  /\ todo' = {}
  /\ wanted' = running
  /\ nodes' = NoNodes
  /\ UNCHANGED running

Succeed ==
  /\ todo = {}
  /\ running' = wanted
  /\ UNCHANGED <<wanted, todo, nodes>>

\* A new process starts with empty lists.
Restart ==
  /\ todo = {}
  /\ wanted = running
  /\ nodes' = NoNodes
  /\ UNCHANGED <<running, wanted, todo>>

EntryNext ==
  \/ Begin
  \/ \E e \in todo : Create(e) \/ Delete(e) \/ Fail(e) \/ Die(e)
  \/ Succeed
  \/ Restart

EntrySpec == EntryInit /\ [][EntryNext]_entryVars

=============================================================================
