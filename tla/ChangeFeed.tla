----------------------------- MODULE ChangeFeed -----------------------------
(***************************************************************************)
(* The change records of a commit and the two callbacks that read them.    *)
(*                                                                         *)
(* sysrepo hands a callback the changes of a commit one record at a time:  *)
(* for an entry that is created or deleted the list instance, its key and  *)
(* its leaves, for one that is modified the leaves that change, for one    *)
(* that is moved the list instance.  The entries come in any order, those  *)
(* of a list together.  A callback is called when its own list changes,    *)
(* the one of the SPD first (priority 2 before 1), and its iterator "//."  *)
(* goes over all the changes of the module.                                *)
(*                                                                         *)
(* For a created key the callback calls addSPD_entry or addSAD_entry,      *)
(* whose reader takes the following records with the same iterator, until  *)
(* one whose path does not begin with the entry's: that record is gone     *)
(* when the callback's loop asks for the next one.                         *)
(*                                                                         *)
(* The path is that of the new value of a created record and of the old    *)
(* value of any other.  The lists are ordered by the user, and the old     *)
(* value of a moved entry is the entry that comes before it now: none if   *)
(* it has been moved to the first place.                                   *)
(*                                                                         *)
(* What addSPD_entry and the others say to the kernel is in Spd and Sad.   *)
(* The reader's first record cannot be missing: every entry has a leaf     *)
(* besides its key.                                                        *)
(***************************************************************************)
EXTENDS EntryConfigs

CONSTANTS
  MaxEdits,    \* bound: entries changed by one commit
  MaxCommits,  \* bound: commits
  Mixed,       \* whether a commit may change both lists
  ToFirst      \* whether a commit may move an entry to the first place

ASSUME FeedAssumption ==
  /\ MaxEdits \in Nat /\ MaxCommits \in Nat
  /\ Mixed \in BOOLEAN /\ ToFirst \in BOOLEAN

VARIABLES
  running,  \* the running configuration
  wanted,   \* what it becomes if the commit under way succeeds
  commits,  \* commits made
  changes,  \* the records of the commit under way
  cb,       \* the callback under way: that of "spd" or "sad", or "none"
  at,       \* its iterator: the index of the next record
  reading,  \* the node addSPD_entry or addSAD_entry is reading, or NoNode
  nodes     \* nodes[l]: list l of the agent, oldest node first

vars == <<running, wanted, commits, changes, cb, at, reading, nodes>>

\* The value NULL.
NoEntry == << >>

NoNode == [entry |-> NoEntry, got |-> {}]

Keys == {"entry", "name"}

\* A record of entry and one of its leaves; value is the entry in whose path
\* the value a reader looks at is.
Records ==
  [op : {"created", "deleted", "modified", "moved"}, entry : Entries,
   leaf : Keys \cup UNION {ToSet(Body(l)) : l \in Lists}, value : Entries \cup {NoEntry}]

TypeOK ==
  /\ running \in Running
  /\ wanted \in Running
  /\ commits \in 0..MaxCommits
  /\ changes \in Seq(Records)
  /\ cb \in Lists \cup {"none"}
  /\ at \in 1..(Len(changes) + 1)
  /\ reading \in Node \cup {NoNode}
  /\ nodes \in [Lists -> Seq(Node)]

Init ==
  /\ running = [e \in Entries |-> Absent]
  /\ wanted = running
  /\ commits = 0
  /\ changes = << >>
  /\ cb = "none"
  /\ at = 1
  /\ reading = NoNode
  /\ nodes = NoNodes

-----------------------------------------------------------------------------
\* The records of leaves fs of entry e, in the order of the schema.
LeafRecords(op, e, fs) ==
  LET body == Body(ListOf(e))
      RecordOf(f) ==
        IF f \in fs THEN <<[op |-> op, entry |-> e, leaf |-> f, value |-> e]>> ELSE << >>
  IN  FlattenSeq([i \in 1..Len(body) |-> RecordOf(body[i])])

EntryRecords(op, e, fs) ==
  <<[op |-> op, entry |-> e, leaf |-> "entry", value |-> e],
    [op |-> op, entry |-> e, leaf |-> "name", value |-> e]>> \o LeafRecords(op, e, fs)

\* The records for entry e; an entry that is to stay as it is has been edited
\* all the same: a leaf got another value, or the entry has been moved behind
\* entry after.
RecordsOf(old, new, e, edit, after) ==
  IF old = Absent THEN EntryRecords("created", e, new)
  ELSE IF new = Absent THEN EntryRecords("deleted", e, old)
  ELSE IF old # new THEN LeafRecords("created", e, new \ old)
                           \o LeafRecords("deleted", e, old \ new)
  ELSE IF edit = "value" THEN LeafRecords("modified", e, {"reqid"})
  ELSE <<[op |-> "moved", entry |-> e, leaf |-> "entry", value |-> after]>>

\* The entries of a list come together.
Together(order) ==
  \A i, j, k \in 1..Len(order) :
    i < j /\ j < k /\ ListOf(order[i]) = ListOf(order[k])
      => ListOf(order[j]) = ListOf(order[i])

\* The callback of list l has changes to be told of.
Concerns(l, recs) == \E i \in 1..Len(recs) : ListOf(recs[i].entry) = l

\* A commit that edits entries es, in this order, begins.
CommitBegins(new, order, edit, after) ==
  LET recs == FlattenSeq([i \in 1..Len(order) |->
                RecordsOf(running[order[i]], new[order[i]], order[i], edit, after)])
  IN  /\ commits' = commits + 1
      /\ wanted' = new
      /\ changes' = recs
      /\ cb' = IF Concerns("spd", recs) THEN "spd" ELSE "sad"
      /\ at' = 1
      /\ UNCHANGED <<running, reading, nodes>>

\* What the controller may make of entry e, which is there or gets there.
MayBecome(e) ==
  Configs(ListOf(e)) \cup (IF running[e] = Absent THEN {} ELSE {Absent})

\* The entries among es that stay as they are may be moved behind entry after.
MayFollow(new, es, after) ==
  IF after = NoEntry
    THEN ToFirst
    ELSE /\ new[after] # Absent
         /\ \A e \in es : new[e] = running[e] => after # e /\ ListOf(after) = ListOf(e)

\* The controller edits entries es.
Edit(es) ==
  /\ cb = "none"
  /\ commits < MaxCommits
  /\ Mixed \/ \A d, e \in es : ListOf(d) = ListOf(e)
  /\ \E conf \in [es -> UNION {MayBecome(e) : e \in es}],
        order \in SetToSeqs(es), edit \in {"value", "place"},
        after \in Entries \cup {NoEntry} :
       LET new == [e \in Entries |-> IF e \in es THEN conf[e] ELSE running[e]]
       IN  /\ \A e \in es : conf[e] \in MayBecome(e)
           /\ Together(order)
           /\ edit = "value" => after = NoEntry
           /\ edit = "place" => MayFollow(new, es, after)
           /\ CommitBegins(new, order, edit, after)

-----------------------------------------------------------------------------
More == cb # "none" /\ at <= Len(changes)

Looping == cb # "none" /\ reading = NoNode

\* new_entry: the record is that of a key.
new_entry(r) == r.leaf = "name"

\* Mutant of SameEntry: the path of the list is compared, not the entry's.
SameList(e, r) == ListOf(r.value) = ListOf(e)

\* strncmp with the entry's path, the keys included.
SameEntry(e, r) == r.value = e

\* The reader's value is NULL.
Null(r) == r.value = NoEntry

Exists(r) == cb = "spd" /\ Find(nodes[cb], NameOf(r.entry)) # 0

\* A record the callback's loop passes over; addSPD_entry returns at once for
\* a name that has a node.
Pass ==
  /\ Looping
  /\ More
  /\ LET r == changes[at]
     IN  \/ ~new_entry(r)
         \/ r.op \in {"modified", "moved"}
         \/ r.op = "created" /\ Exists(r)
  /\ at' = at + 1
  /\ UNCHANGED <<running, wanted, commits, changes, cb, reading, nodes>>

\* addSPD_entry, addSAD_entry: create_*_node.
StartReading ==
  /\ Looping
  /\ More
  /\ LET r == changes[at]
     IN  /\ r.op = "created"
         /\ new_entry(r)
         /\ ~Exists(r)
         /\ reading' = [entry |-> r.entry, got |-> {}]
  /\ at' = at + 1
  /\ UNCHANGED <<running, wanted, commits, changes, cb, nodes>>

\* readSPD_entry, readSAD_entry: a record in the entry's path, one of an entry
\* moved behind it included.
ReadLeaf ==
  /\ reading # NoNode
  /\ More
  /\ LET r == changes[at]
     IN  /\ ~Null(r)
         /\ SameEntry(reading.entry, r)
         /\ reading' = IF r.leaf \in Known(cb)
                         THEN [reading EXCEPT !.got = @ \cup {<<r.value, r.leaf>>}]
                         ELSE reading
  /\ at' = at + 1
  /\ UNCHANGED <<running, wanted, commits, changes, cb, nodes>>

\* The reader has taken a record of something else, or there is none, and the
\* node is linked.
Link ==
  /\ reading # NoNode
  /\ More => ~Null(changes[at]) /\ ~SameEntry(reading.entry, changes[at])
  /\ at' = IF More THEN at + 1 ELSE at
  /\ nodes' = [nodes EXCEPT ![cb] = Append(@, reading)]
  /\ reading' = NoNode
  /\ UNCHANGED <<running, wanted, commits, changes, cb>>

\* removeSPD_entry, removeSAD_entry
Unlink ==
  /\ Looping
  /\ More
  /\ LET r == changes[at]
         i == Find(nodes[cb], NameOf(r.entry))
     IN  /\ r.op = "deleted"
         /\ new_entry(r)
         /\ i # 0
         /\ nodes' = [nodes EXCEPT ![cb] = RemoveAt(@, i)]
  /\ at' = at + 1
  /\ UNCHANGED <<running, wanted, commits, changes, cb, reading>>

\* Mutant of Over: the iterator stays where it is.
OverKeepsPlace == cb' = "none" /\ at' = at /\ changes' = << >>

\* sr_free_change_iter, and the callback returns.
Over == cb' = "none" /\ at' = 1 /\ changes' = << >>

\* The node to be removed is missing: the callback fails, and sysrepo undoes
\* the commit in the datastore.
Missing ==
  /\ Looping
  /\ More
  /\ LET r == changes[at]
     IN  /\ r.op = "deleted"
         /\ new_entry(r)
         /\ Find(nodes[cb], NameOf(r.entry)) = 0
  /\ wanted' = running
  /\ Over
  /\ UNCHANGED <<running, commits, reading, nodes>>

\* The reader looks for the path of a value that is NULL.  The process ends,
\* sysrepo undoes the commit in the datastore, and another process subscribes.
Crash ==
  /\ reading # NoNode
  /\ More
  /\ Null(changes[at])
  /\ wanted' = running
  /\ Over
  /\ reading' = NoNode
  /\ nodes' = NoNodes
  /\ UNCHANGED <<running, commits>>

\* Mutant of Return: the callback asks for more.
ReturnStuck ==
  /\ Looping
  /\ ~More
  /\ at' = Len(changes) + 1
  /\ UNCHANGED <<running, wanted, commits, changes, cb, reading, nodes>>

\* SR_ERR_OK at the end of the changes: it is the other callback's turn, or
\* the commit has succeeded.
Return ==
  /\ Looping
  /\ ~More
  /\ IF cb = "spd" /\ Concerns("sad", changes)
       THEN cb' = "sad" /\ at' = 1 /\ UNCHANGED <<running, changes>>
       ELSE running' = wanted /\ Over
  /\ UNCHANGED <<wanted, commits, reading, nodes>>

\* The process ends and another one subscribes.
Restart ==
  /\ cb = "none"
  /\ nodes' = NoNodes
  /\ UNCHANGED <<running, wanted, commits, changes, cb, at, reading>>

Callback ==
  Pass \/ StartReading \/ ReadLeaf \/ Link \/ Unlink \/ Missing \/ Crash \/ Return

Next ==
  \/ \E es \in SUBSET Entries :
       /\ es # {} /\ IsFiniteSet(es) /\ Cardinality(es) <= MaxEdits
       /\ Edit(es)
  \/ Callback
  \/ Restart

Spec == Init /\ [][Next]_vars

FairSpec == Spec /\ WF_vars(Callback)

-----------------------------------------------------------------------------
(***************************************************************************)
(* Every commit comes to an end: the callbacks' loop and the readers in it *)
(* use up the records between them.                                        *)
(***************************************************************************)
CommitEnds == cb # "none" ~> cb = "none"

\* The entry's key is yet to be found, or its node to be linked.
Pending(e) ==
  IF cb = ListOf(e)
    THEN \/ reading.entry = e
         \/ \E i \in at..Len(changes) : changes[i].entry = e /\ changes[i].leaf = "name"
    ELSE cb = "spd"

Abstract == INSTANCE EntryWise
              WITH todo <- {e \in Turned(running, wanted) : Pending(e)}

(***************************************************************************)
(* Over commits that change one list, the callbacks handle every entry     *)
(* that is created or deleted exactly once and give a node the leaves of   *)
(* its entry, all of them and no others, although the readers take records *)
(* away from the loop they are called in.  Only a commit that moves an     *)
(* entry to the first place may end the process instead.                   *)
(***************************************************************************)
ImplementsEntryWise == Abstract!EntrySpec

(***************************************************************************)
(* The SPD list holds SPD entries.  The iterator goes over the changes of  *)
(* both lists, whichever callback runs it.                                 *)
(***************************************************************************)
SpdHoldsSpd == \A i \in 1..Len(nodes["spd"]) : ListOf(nodes["spd"][i].entry) = "spd"

=============================================================================
