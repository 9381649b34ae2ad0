------------------------------ MODULE NodeList ------------------------------
(***************************************************************************)
(* The linked lists behind init_sad_node and init_spd_node, pointer by     *)
(* pointer.  Both have the same functions (add_sad_node, get_sad_node,     *)
(* del_sad_node and their spd twins); they differ in two places:           *)
(*   - create_sad_node clears next, create_spd_node leaves in it whatever  *)
(*     the chunk held before;                                              *)
(*   - addSPD_entry looks for the name first, addSAD_entry does not.       *)
(*                                                                         *)
(* A chunk is a piece of heap of the size of a node.  A freed chunk keeps  *)
(* its contents and malloc may return it again.  Sad and Spd model the     *)
(* lists as sequences; list is that sequence, kept here as history, and    *)
(* Represents says that the pointers implement it.                         *)
(*                                                                         *)
(* The operations run in the callbacks, one at a time.  The register       *)
(* thread walks the SAD list beside them without a lock                    *)
(* (get_sad_node_by_spi); what it looks for is called a name here too.  A  *)
(* load or store of a pointer is a step.                                   *)
(***************************************************************************)
EXTENDS Integers, Sequences, FiniteSets, SequencesExt

CONSTANTS
  Chunks,   \* the heap, a bound on the nodes allocated or leaked
  Names,    \* names of entries
  Sought,   \* those the register thread looks for
  NULL,
  Kinds,    \* which of the two lists to look at
  MaxSad,   \* bound: SAD entries configured at a time
  MaxSpd    \* bound: SPD entries configured at a time

ASSUME NullAssumption == NULL \notin Chunks \cup Names

ASSUME SoughtAssumption == Sought \subseteq Names

ASSUME EntriesAssumption == MaxSad \in Nat /\ MaxSpd \in Nat

ASSUME KindsAssumption == Kinds \subseteq {"sad", "spd"}

ASSUME HeapAssumption == IsFiniteSet(Chunks)

VARIABLES
  kind,   \* which list this is: "sad" or "spd"
  head,   \* init_sad_node or init_spd_node
  next,   \* next[c]: the field next of the node in chunk c
  name,   \* name[c]: its field name
  used,   \* chunks malloc has handed out and free has not got back
  op,     \* the function under way, with its local variables
  ret,    \* what the function that ended last was called for and returned
  rd,     \* the register thread's walk
  list    \* history: the chunks of the entries, oldest first

heapVars == <<next, name, used>>

\* Neither the thread's walk nor the choice of the list.
aside == <<kind, rd>>

vars == <<kind, head, heapVars, op, ret, rd, list>>

Pointers == Chunks \cup {NULL}

NoOp == [at |-> "idle", goal |-> "none", name |-> NULL, cur |-> NULL, prev |-> NULL]

(***************************************************************************)
(* The walk: what it looks for and where it is.  there and shaken are      *)
(* history: a node under the name has been in the list, and an inner node  *)
(* has been unlinked and freed, since the walk began.                      *)
(***************************************************************************)
NoWalk == [at |-> "idle", name |-> NULL, cur |-> NULL, there |-> FALSE, shaken |-> FALSE]

Returned(n, rc) == [name |-> n, rc |-> rc]

\* Bound: entries configured at a time.
MaxEntries == IF kind = "sad" THEN MaxSad ELSE MaxSpd

TypeOK ==
  /\ kind \in Kinds
  /\ head \in Pointers
  /\ next \in [Chunks -> Pointers]
  /\ name \in [Chunks -> Names \cup {NULL}]
  /\ used \subseteq Chunks
  /\ op \in [at : {"idle", "find", "create", "append", "unlink"},
             goal : {"none", "add", "remove"},
             name : Names \cup {NULL}, cur : Pointers, prev : Pointers]
  /\ op.at \in {"append", "unlink"} => op.cur # NULL
  /\ ret \in [name : Names \cup {NULL}, rc : {"ok", "failed"}]
  /\ rd \in [at : {"idle", "walk", "got"}, name : Names \cup {NULL},
             cur : Pointers, there : BOOLEAN, shaken : BOOLEAN]
  /\ list \in Seq(Chunks)

\* The chunks start zeroed, as the operating system hands them out.
Init ==
  /\ kind \in Kinds
  /\ head = NULL
  /\ next = [c \in Chunks |-> NULL]
  /\ name = [c \in Chunks |-> NULL]
  /\ used = {}
  /\ op = NoOp
  /\ ret = Returned(NULL, "ok")
  /\ rd = NoWalk
  /\ list = << >>

\* malloc and the assignments of create_sad_node or create_spd_node.
Create(c) ==
  /\ c \notin used
  /\ used' = used \cup {c}

\* Mutant of NextAfterCreate: no list clears next.
NextLeftAlone(c) == next

NextAfterCreate(c) == IF kind = "sad" THEN [next EXCEPT ![c] = NULL] ELSE next

-----------------------------------------------------------------------------
\* addSAD_entry, addSPD_entry
AddEntry(n) ==
  /\ op = NoOp
  /\ Len(list) < MaxEntries
  /\ op' = [at |-> IF kind = "spd" THEN "find" ELSE "create", goal |-> "add",
            name |-> n, cur |-> head, prev |-> NULL]
  /\ UNCHANGED <<head, heapVars, ret, list, aside>>

\* removeSAD_entry, removeSPD_entry
RemoveEntry(n) ==
  /\ op = NoOp
  /\ op' = [at |-> "find", goal |-> "remove",
            name |-> n, cur |-> head, prev |-> NULL]
  /\ UNCHANGED <<head, heapVars, ret, list, aside>>

\* get_sad_node, get_spd_node: one round of the loop.
FindStep ==
  /\ op.at = "find"
  /\ op.cur # NULL
  /\ name[op.cur] # op.name
  /\ op' = [op EXCEPT !.cur = next[op.cur]]
  /\ UNCHANGED <<head, heapVars, ret, list, aside>>

\* The name exists and is not added again: SR_ERR_OK.
FindExisting ==
  /\ op.at = "find"
  /\ op.goal = "add"
  /\ op.cur # NULL
  /\ name[op.cur] = op.name
  /\ op' = NoOp
  /\ ret' = Returned(op.name, "ok")
  /\ UNCHANGED <<head, heapVars, list, aside>>

\* The name exists: del_*_node begins, which allocates a node to start with.
FindForRemoval(c) ==
  /\ op.at = "find"
  /\ op.goal = "remove"
  /\ op.cur # NULL
  /\ name[op.cur] = op.name
  /\ Create(c)
  /\ next' = NextAfterCreate(c)
  /\ op' = [op EXCEPT !.at = "unlink", !.cur = head, !.prev = c]
  /\ UNCHANGED <<head, name, ret, list, aside>>

\* Mutant of FindNothing: an entry that is not there is unlinked all the same.
FindNothingUnlinks ==
  /\ op.at = "find"
  /\ op.cur = NULL
  /\ op' = [op EXCEPT !.at = IF op.goal = "add" THEN "create" ELSE "unlink"]
  /\ UNCHANGED <<head, heapVars, ret, list, aside>>

\* Mutant of FindNothing: removing an entry that is not there succeeds.
FindNothingAccepts ==
  /\ op.at = "find"
  /\ op.cur = NULL
  /\ IF op.goal = "add"
       THEN op' = [op EXCEPT !.at = "create"] /\ UNCHANGED ret
       ELSE op' = NoOp /\ ret' = Returned(op.name, "ok")
  /\ UNCHANGED <<head, heapVars, list, aside>>

\* NULL: the entry to remove is not there, or the one to add is new.
FindNothing ==
  /\ op.at = "find"
  /\ op.cur = NULL
  /\ IF op.goal = "add"
       THEN op' = [op EXCEPT !.at = "create"] /\ UNCHANGED ret
       ELSE op' = NoOp /\ ret' = Returned(op.name, "failed")
  /\ UNCHANGED <<head, heapVars, list, aside>>

\* create_*_node and add_*_node up to its loop.
CreateNode(c) ==
  /\ op.at = "create"
  /\ Create(c)
  /\ name' = [name EXCEPT ![c] = op.name]
  /\ IF head = NULL
       THEN /\ head' = c
            /\ next' = [next EXCEPT ![c] = NULL]
            /\ list' = Append(list, c)
            /\ op' = NoOp
            /\ ret' = Returned(op.name, "ok")
       ELSE /\ next' = NextAfterCreate(c)
            /\ op' = [op EXCEPT !.at = "append", !.cur = head, !.prev = c]
            /\ UNCHANGED <<head, ret, list>>
  /\ UNCHANGED aside

\* add_*_node: the loop looks for the last node ...
AppendStep ==
  /\ op.at = "append"
  /\ next[op.cur] # NULL
  /\ op' = [op EXCEPT !.cur = next[op.cur]]
  /\ UNCHANGED <<head, heapVars, ret, list, aside>>

\* ... and the new one is linked behind it.
AppendLink ==
  /\ op.at = "append"
  /\ next[op.cur] = NULL
  /\ next' = [next EXCEPT ![op.cur] = op.prev]
  /\ list' = Append(list, op.prev)
  /\ op' = NoOp
  /\ ret' = Returned(op.name, "ok")
  /\ UNCHANGED <<head, name, used, aside>>

\* Mutant of UnlinkStep: prev moves, cur does not.
UnlinkStepStuck ==
  /\ op.at = "unlink"
  /\ name[op.cur] # op.name
  /\ op' = [op EXCEPT !.prev = op.cur]
  /\ UNCHANGED <<head, heapVars, ret, list, aside>>

\* del_*_node: the loop.
UnlinkStep ==
  /\ op.at = "unlink"
  /\ name[op.cur] # op.name
  /\ op' = [op EXCEPT !.prev = op.cur, !.cur = next[op.cur]]
  /\ UNCHANGED <<head, heapVars, ret, list, aside>>

\* What the entry's removal means for the sequence: the first one goes.
Dropped(n) == RemoveAt(list, SelectInSeq(list, LAMBDA c : name[c] = n))

\* History of a walk under way when a node goes, and whether it was freed.
WalkAfterRemoval(freed) ==
  IF rd.at = "idle"
    THEN rd
    ELSE [rd EXCEPT !.shaken = @ \/ freed,
                    !.there = @ /\ \E c \in ToSet(list') : name[c] = rd.name]

\* Mutant of UnlinkHead: the head is freed like any other node.
UnlinkHeadFrees ==
  /\ op.at = "unlink"
  /\ name[op.cur] = op.name
  /\ op.cur = head
  /\ head' = next[head]
  /\ used' = used \ {op.cur}
  /\ list' = Dropped(op.name)
  /\ rd' = WalkAfterRemoval(FALSE)
  /\ op' = NoOp
  /\ ret' = Returned(op.name, "ok")
  /\ UNCHANGED <<kind, next, name>>

\* Mutant of UnlinkHead: next of the node is cleared on its way out.
UnlinkHeadClears ==
  /\ op.at = "unlink"
  /\ name[op.cur] = op.name
  /\ op.cur = head
  /\ head' = next[head]
  /\ next' = [next EXCEPT ![op.cur] = NULL]
  /\ used' = used \ {op.prev}
  /\ list' = Dropped(op.name)
  /\ rd' = WalkAfterRemoval(FALSE)
  /\ op' = NoOp
  /\ ret' = Returned(op.name, "ok")
  /\ UNCHANGED <<kind, name>>

\* del_*_node: the head is unlinked and never freed, the spare node is.
UnlinkHead ==
  /\ op.at = "unlink"
  /\ name[op.cur] = op.name
  /\ op.cur = head
  /\ head' = next[head]
  /\ used' = used \ {op.prev}
  /\ list' = Dropped(op.name)
  /\ rd' = WalkAfterRemoval(FALSE)
  /\ op' = NoOp
  /\ ret' = Returned(op.name, "ok")
  /\ UNCHANGED <<kind, next, name>>

\* del_*_node: an inner node is unlinked and freed, the spare node leaks.
UnlinkInner ==
  /\ op.at = "unlink"
  /\ name[op.cur] = op.name
  /\ op.cur # head
  /\ next' = [next EXCEPT ![op.prev] = next[op.cur]]
  /\ used' = used \ {op.cur}
  /\ list' = Dropped(op.name)
  /\ rd' = WalkAfterRemoval(TRUE)
  /\ op' = NoOp
  /\ ret' = Returned(op.name, "ok")
  /\ UNCHANGED <<kind, head, name>>

Work ==
  \/ FindStep \/ FindExisting \/ FindNothing
  \/ \E c \in Chunks : FindForRemoval(c) \/ CreateNode(c)
  \/ AppendStep \/ AppendLink
  \/ UnlinkStep \/ UnlinkHead \/ UnlinkInner

-----------------------------------------------------------------------------
(***************************************************************************)
(* The register thread: get_sad_node_by_spi and what its callers do with   *)
(* the node.  A chunk may be freed, and used again, under its feet.        *)
(***************************************************************************)
Listed(n) == \E c \in ToSet(list) : name[c] = n

WalkStart(n) ==
  /\ kind = "sad"
  /\ rd = NoWalk
  /\ rd' = [at |-> "walk", name |-> n, cur |-> head,
            there |-> Listed(n), shaken |-> FALSE]
  /\ UNCHANGED <<kind, head, heapVars, op, ret, list>>

\* One round of the loop.
WalkStep ==
  /\ rd.at = "walk"
  /\ rd.cur # NULL
  /\ name[rd.cur] # rd.name
  /\ rd' = [rd EXCEPT !.cur = next[rd.cur]]
  /\ UNCHANGED <<kind, head, heapVars, op, ret, list>>

\* The node is returned ...
WalkFinds ==
  /\ rd.at = "walk"
  /\ rd.cur # NULL
  /\ name[rd.cur] = rd.name
  /\ rd' = [rd EXCEPT !.at = "got"]
  /\ UNCHANGED <<kind, head, heapVars, op, ret, list>>

\* ... and the caller reads its name, or there was none.
WalkOver ==
  /\ rd.at = "got" \/ (rd.at = "walk" /\ rd.cur = NULL)
  /\ rd' = NoWalk
  /\ UNCHANGED <<kind, head, heapVars, op, ret, list>>

Walk == WalkStep \/ WalkFinds \/ WalkOver

Next ==
  \/ Work
  \/ Walk
  \/ \E n \in Names : AddEntry(n) \/ RemoveEntry(n)
  \/ \E n \in Sought : WalkStart(n)

Spec == Init /\ [][Next]_vars

FairSpec == Spec /\ WF_vars(Work) /\ WF_vars(Walk)

-----------------------------------------------------------------------------
(***************************************************************************)
(* The pointers implement the sequence: following next from the head gives *)
(* the entries' chunks in order, each once, none of them freed, and ends   *)
(* in NULL.  Every lookup, addition and removal of the agent walks this    *)
(* chain.                                                                  *)
(***************************************************************************)
Represents ==
  /\ head = IF list = << >> THEN NULL ELSE list[1]
  /\ \A i \in 1..Len(list) :
       /\ list[i] \in used
       /\ next[list[i]] = IF i = Len(list) THEN NULL ELSE list[i + 1]
  /\ \A i, j \in 1..Len(list) : list[i] = list[j] => i = j

(***************************************************************************)
(* The thread stands on a node del_sad_node has freed only when an inner   *)
(* node went during its walk: the head, which is never freed, can be       *)
(* removed under it.                                                       *)
(***************************************************************************)
ReaderOnLiveNode == rd.cur # NULL /\ ~rd.shaken => rd.cur \in used

(***************************************************************************)
(* The thread's walk finds what is in the list from its beginning to its   *)
(* end, whatever the callbacks add, and remove at the head, meanwhile.     *)
(***************************************************************************)
ReaderFinds == rd.at = "walk" /\ rd.cur = NULL /\ ~rd.shaken => ~rd.there

(***************************************************************************)
(* Every walk ends: a callback that looks up, appends or unlinks a node    *)
(* comes back, unless the heap is used up by the chunks earlier removals   *)
(* have leaked, and so does the thread, even over nodes that are freed and *)
(* used again.                                                             *)
(***************************************************************************)
WalksEnd ==
  /\ (op # NoOp) ~> (op = NoOp \/ used = Chunks)
  /\ (rd # NoWalk) ~> (rd = NoWalk)

\* The names on the way along next from a pointer, at most k of them.
NamesFrom[k \in 0..Cardinality(Chunks)] ==
  [c \in Pointers |->
     IF c = NULL \/ k = 0 THEN << >> ELSE <<name[c]>> \o NamesFrom[k - 1][next[c]]]

Abstract == INSTANCE EntryList WITH entries <- NamesFrom[Cardinality(Chunks)][head]

(***************************************************************************)
(* What is reached from the head behaves as the sequence of EntryList:     *)
(* every addition and removal takes effect in one step, the one that       *)
(* stores the pointer, and returns what that list returns.                 *)
(***************************************************************************)
ImplementsEntryList == Abstract!ListSpec

=============================================================================
