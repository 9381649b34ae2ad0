--------------------------- MODULE NodeListProofs ---------------------------
(***************************************************************************)
(* The pointers of the SAD list implement a sequence, for any heap, any    *)
(* names and any number of entries, and those of an SPD list that never    *)
(* has more than two.  The register thread that walks beside the callbacks *)
(* stays on live nodes and finds what is in the list throughout, unless an *)
(* inner node is freed during its walk.                                    *)
(***************************************************************************)
EXTENDS NodeList, SequenceLemmas, FiniteSetTheorems

\* Chunk c is in the list.
InList(c) == \E i \in 1..Len(list) : list[i] = c

\* A new node that is not linked yet.
Loose(c) == c \in used /\ ~InList(c)

\* Where the loop of del_*_node is: at entry i, which or one behind it has
\* the name, and none before it has.
UnlinkAt(i) ==
  /\ op.cur = list[i]
  /\ \E j \in i..Len(list) : name[list[j]] = op.name
  /\ \A k \in 1..i - 1 : name[list[k]] # op.name
  /\ i = 1 => Loose(op.prev) /\ next[op.prev] = NULL
  /\ i # 1 => op.prev = list[i - 1]

\* What the functions know of the node they are at.
OpKnows ==
  /\ op.at = "find" => /\ op.cur # NULL => InList(op.cur)
                       /\ op.goal # "remove" => op.goal = "add" /\ kind = "spd"
  /\ op.at \in {"create", "append"} => op.goal = "add"
  /\ op.at = "append" => InList(op.cur) /\ Loose(op.prev) /\ next[op.prev] = NULL
  /\ op.at = "unlink" => \E i \in 1..Len(list) : UnlinkAt(i)

Ops ==
  [at : {"idle", "find", "create", "append", "unlink"},
   goal : {"none", "add", "remove"},
   name : Names \cup {NULL}, cur : Pointers, prev : Pointers]

HeapTypes ==
  /\ kind \in {"sad", "spd"}
  /\ next \in [Chunks -> Pointers]
  /\ name \in [Chunks -> Names \cup {NULL}]
  /\ used \subseteq Chunks
  /\ op \in Ops
  /\ list \in Seq(Chunks)

\* A bound on the SPD entries configured at a time, if that list is looked at.
TwoAtMost == "spd" \in Kinds => MaxSpd <= 2

(***************************************************************************)
(* create_spd_node leaves next as the chunk had it.  A chunk comes back to *)
(* malloc from an inner node that went or from a spare node: of two        *)
(* entries the inner one is the last, so its next was clear, and the spare *)
(* one's has never been set.                                               *)
(***************************************************************************)
FreeAreClear ==
  kind = "spd" =>
    /\ MaxSpd <= 2
    /\ Len(list) <= 2
    /\ op.goal = "add" => Len(list) <= 1
    /\ \A c \in Chunks \ used : next[c] = NULL

ListInv == HeapTypes /\ Represents /\ OpKnows /\ FreeAreClear

\* The list's length, its elements, and when it is empty.
LEMMA ListShape ==
  ASSUME list \in Seq(Chunks)
  PROVE  /\ Len(list) \in Nat
         /\ \A i \in 1..Len(list) : list[i] \in Chunks
         /\ list = << >> <=> Len(list) = 0
BY LenProperties, ElementOfSeq, EmptySeq

\* The entry behind a node of the list.
LEMMA Successor ==
  ASSUME ListInv, NEW i \in 1..Len(list), next[list[i]] # NULL
  PROVE  i + 1 \in 1..Len(list) /\ next[list[i]] = list[i + 1]
<1>1. Len(list) \in Nat
  BY ListShape DEF ListInv, HeapTypes
<1>2. i # Len(list) /\ next[list[i]] = list[i + 1]
  BY DEF ListInv, Represents
<1>3. QED
  BY <1>1, <1>2, StrictlyBelowTop

\* The next of the node that malloc returns is clear in either list.
LEMMA FreshIsClear ==
  ASSUME ListInv, NEW c \in Chunks, c \notin used
  PROVE  NextAfterCreate(c) = [next EXCEPT ![c] = NULL]
<1>1. CASE kind = "sad"
  BY <1>1 DEF NextAfterCreate
<1>2. CASE kind = "spd"
  <2>1. next[c] = NULL /\ next \in [Chunks -> Pointers]
    BY <1>2 DEF ListInv, FreeAreClear, HeapTypes
  <2>2. QED
    BY <1>2, <2>1 DEF NextAfterCreate
<1>3. QED
  BY <1>1, <1>2 DEF ListInv, HeapTypes

\* The head of a list with entries is the first of them.
LEMMA HeadOfList ==
  ASSUME ListInv
  PROVE  /\ head \in Pointers
         /\ head = NULL <=> Len(list) = 0
         /\ head # NULL => 1 \in 1..Len(list) /\ head = list[1] /\ InList(head)
<1>1. /\ Len(list) \in Nat
      /\ \A i \in 1..Len(list) : list[i] \in Chunks
      /\ list = << >> <=> Len(list) = 0
  BY ListShape DEF ListInv, HeapTypes
<1>2. head = IF Len(list) = 0 THEN NULL ELSE list[1]
  BY <1>1 DEF ListInv, Represents
<1>3. CASE Len(list) = 0
  BY <1>2, <1>3 DEF Pointers
<1>4. CASE Len(list) # 0
  <2>1. 1 \in 1..Len(list)
    BY <1>1, <1>4
  <2>2. head = list[1] /\ head \in Chunks /\ head # NULL
    BY <1>1, <1>2, <1>4, <2>1, NullAssumption
  <2>3. QED
    BY <1>4, <2>1, <2>2 DEF Pointers, InList
<1>5. QED
  BY <1>3, <1>4

\* The removal of an entry takes out of the sequence the node the loop is at.
LEMMA DroppedNode ==
  ASSUME ListInv, NEW i \in 1..Len(list), UnlinkAt(i), name[list[i]] = op.name
  PROVE  Dropped(op.name) = RemoveAt(list, i)
<1> DEFINE I == {k \in 1..Len(list) : name[list[k]] = op.name}
           g == SelectInSeq(list, LAMBDA c : name[c] = op.name)
<1>1. g = IF I # {} THEN Min(I) ELSE 0
  BY DEF SelectInSeq
<1>2. i \in I /\ I \subseteq 1..Len(list) /\ \A k \in I : ~(k \in 1..i - 1)
  BY DEF UnlinkAt
<1>3. Dropped(op.name) = RemoveAt(list, g)
  BY DEF Dropped
<1> HIDE DEF I, g
<1>4. g \in 0..Len(list) /\ (g = 0 <=> I = {}) /\ (g # 0 => g \in I /\ \A k \in I : g <= k)
  BY <1>1, <1>2, FirstIndex DEF ListInv, HeapTypes
<1>5. g \in I /\ g <= i
  BY <1>2, <1>4
<1>6. Len(list) \in Nat
  BY ListShape DEF ListInv, HeapTypes
<1>7. g = i
  BY <1>2, <1>5, <1>6
<1>8. QED
  BY <1>3, <1>7

\* A step that moves along the list or starts or ends a function.
LEMMA Unmoved ==
  ASSUME ListInv, UNCHANGED <<kind, head, heapVars, list>>, op' \in Ops,
         kind = "spd" /\ op'.goal = "add" => Len(list) <= 1
  PROVE  /\ HeapTypes' /\ Represents' /\ FreeAreClear'
         /\ \A c : (InList(c)' <=> InList(c)) /\ (Loose(c)' <=> Loose(c))
BY DEF ListInv, HeapTypes, Represents, FreeAreClear, heapVars, InList, Loose

\* Only an addition that is under way needs room for its entry.
LEMMA RoomKept ==
  ASSUME ListInv, op'.goal = "add" => op.goal = "add"
  PROVE  kind = "spd" /\ op'.goal = "add" => Len(list) <= 1
BY DEF ListInv, FreeAreClear

\* The steps of the search for an entry keep the list's invariant.
LEMMA FindSteps ==
  ASSUME ListInv, FindStep \/ FindExisting \/ FindNothing
  PROVE  ListInv'
<1>0. op \in Ops /\ NoOp \in Ops /\ next \in [Chunks -> Pointers] /\ op.at = "find"
  BY DEF ListInv, HeapTypes, Ops, NoOp, Pointers, FindStep, FindExisting, FindNothing
<1>1. /\ op.cur # NULL => InList(op.cur)
      /\ op.goal # "remove" => op.goal = "add" /\ kind = "spd"
  BY <1>0 DEF ListInv, OpKnows
<1>2. UNCHANGED <<kind, head, heapVars, list>>
  BY DEF FindStep, FindExisting, FindNothing, aside
<1>3. CASE FindStep
  <2>1. PICK i \in 1..Len(list) : list[i] = op.cur
    BY <1>1, <1>3 DEF FindStep, InList
  <2>2. op.cur \in Chunks /\ next[op.cur] \in Pointers
    BY <1>0, <1>3 DEF FindStep, Ops, Pointers
  <2>3. op' = [op EXCEPT !.cur = next[op.cur]]
    BY <1>3 DEF FindStep
  <2>4. op' \in Ops /\ op'.at = "find" /\ op'.goal = op.goal /\ op'.cur = next[op.cur]
    BY <1>0, <2>2, <2>3 DEF Ops
  <2>5. op'.cur # NULL => InList(op'.cur)
    <3> SUFFICES ASSUME next[list[i]] # NULL PROVE InList(next[list[i]])
      BY <2>1, <2>4
    <3> QED
      BY Successor DEF InList
  <2>6. OpKnows'
    BY <1>1, <1>2, <2>4, <2>5 DEF OpKnows, InList
  <2>7. QED
    BY <1>2, <2>4, <2>6, RoomKept, Unmoved DEF ListInv
<1>4. CASE op' = NoOp
  <2>1. OpKnows' /\ op'.goal # "add"
    BY <1>4 DEF OpKnows, NoOp
  <2>2. QED
    BY <1>0, <1>2, <1>4, <2>1, Unmoved DEF ListInv
<1>5. CASE FindNothing /\ op.goal = "add"
  <2>1. op' = [op EXCEPT !.at = "create"]
    BY <1>5 DEF FindNothing
  <2>2. op' \in Ops /\ op'.at = "create" /\ op'.goal = "add"
    BY <1>0, <1>5, <2>1 DEF Ops
  <2>3. OpKnows'
    BY <2>2 DEF OpKnows
  <2>4. QED
    BY <1>2, <1>5, <2>2, <2>3, RoomKept, Unmoved DEF ListInv
<1>6. QED
  BY <1>3, <1>4, <1>5 DEF FindExisting, FindNothing

\* A removal begins: the entry has been found, and a spare node is allocated.
LEMMA FindForRemovalStep ==
  ASSUME ListInv, NEW c \in Chunks, FindForRemoval(c)
  PROVE  ListInv'
<1>1. /\ op.at = "find" /\ op.cur # NULL /\ name[op.cur] = op.name
      /\ c \notin used /\ used' = used \cup {c}
      /\ next' = [next EXCEPT ![c] = NULL]
      /\ op' = [op EXCEPT !.at = "unlink", !.cur = head, !.prev = c]
      /\ UNCHANGED <<kind, head, name, list>>
  BY FreshIsClear DEF FindForRemoval, Create, aside
<1>2. PICK j \in 1..Len(list) : list[j] = op.cur
  BY <1>1 DEF ListInv, OpKnows, InList
<1>3. Len(list) \in Nat /\ 1 \in 1..Len(list) /\ head = list[1] /\ head \in Pointers
  <2>1. Len(list) # 0
    BY <1>2
  <2>2. QED
    BY <2>1, HeadOfList, ListShape DEF ListInv, HeapTypes
<1>4. HeapTypes'
  BY <1>1, <1>3 DEF ListInv, HeapTypes, Ops, Pointers
<1>5. ~InList(c)
  BY <1>1 DEF InList, ListInv, Represents
<1>6. Represents'
  <2>1. \A i \in 1..Len(list) : list[i] # c /\ list[i] \in Chunks
    BY <1>5, ListShape DEF InList, ListInv, HeapTypes
  <2>2. \A i \in 1..Len(list) : next'[list[i]] = next[list[i]] /\ list[i] \in used'
    BY <1>1, <2>1 DEF ListInv, HeapTypes, Represents
  <2>3. QED
    BY <1>1, <2>2 DEF ListInv, Represents
<1>7. /\ op'.at = "unlink" /\ op'.cur = list[1] /\ op'.prev = c /\ op'.name = op.name
      /\ op'.goal = op.goal
  BY <1>1, <1>3 DEF ListInv, HeapTypes, Ops
<1>8. UnlinkAt(1)'
  <2>1. Loose(c)' /\ next'[c] = NULL
    BY <1>1, <1>5 DEF Loose, InList, ListInv, HeapTypes
  <2>2. j \in 1..Len(list) /\ name[list[j]] = op.name
    BY <1>1, <1>2
  <2>3. QED
    BY <1>1, <1>3, <1>7, <2>1, <2>2 DEF UnlinkAt
<1>9. OpKnows'
  BY <1>1, <1>3, <1>7, <1>8 DEF OpKnows
<1>10. FreeAreClear'
  BY <1>1, <1>7 DEF FreeAreClear, ListInv, HeapTypes
<1>11. QED
  BY <1>4, <1>6, <1>9, <1>10 DEF ListInv

\* A sequence with one more element behind.
LEMMA Appended ==
  ASSUME list \in Seq(Chunks), NEW c \in Chunks, list' = Append(list, c)
  PROVE  /\ list' \in Seq(Chunks)
         /\ Len(list') = Len(list) + 1
         /\ \A i \in 1..Len(list) : list'[i] = list[i]
         /\ list'[Len(list) + 1] = c
BY AppendProperties

\* A node is created and becomes the head, or is still to be linked.
LEMMA CreateNodeStep ==
  ASSUME ListInv, NEW c \in Chunks, CreateNode(c)
  PROVE  ListInv'
<1>1. /\ op.at = "create"
      /\ c \notin used /\ used' = used \cup {c}
      /\ name' = [name EXCEPT ![c] = op.name]
      /\ next' = [next EXCEPT ![c] = NULL]
      /\ kind' = kind /\ op.goal = "add"
  BY FreshIsClear DEF CreateNode, Create, aside, ListInv, OpKnows
<1>2. ~InList(c) /\ Len(list) \in Nat
  BY <1>1, ListShape DEF InList, ListInv, HeapTypes, Represents
<1>3. /\ next' \in [Chunks -> Pointers] /\ next'[c] = NULL
      /\ name' \in [Chunks -> Names \cup {NULL}]
      /\ used' \subseteq Chunks
  BY <1>1 DEF ListInv, HeapTypes, Ops, Pointers
<1>4. CASE head = NULL
  <2>1. head' = c /\ list' = Append(list, c) /\ op' = NoOp /\ Len(list) = 0
    BY <1>4, HeadOfList DEF CreateNode
  <2>2. list' \in Seq(Chunks) /\ Len(list') = 1 /\ list'[1] = c
    BY <2>1, Appended DEF ListInv, HeapTypes
  <2>3. HeapTypes'
    BY <1>1, <1>3, <2>1, <2>2 DEF ListInv, HeapTypes, Ops, NoOp, Pointers
  <2>4. Represents'
    <3>1. list' # << >>
      BY <2>2
    <3>2. QED
      BY <1>1, <1>3, <2>1, <2>2, <3>1 DEF Represents
  <2>5. OpKnows'
    BY <2>1 DEF OpKnows, NoOp
  <2>6. FreeAreClear'
    BY <1>1, <2>1, <2>2 DEF FreeAreClear, NoOp, ListInv, HeapTypes
  <2>7. QED
    BY <2>3, <2>4, <2>5, <2>6 DEF ListInv
<1>5. CASE head # NULL
  <2>1. /\ op' = [op EXCEPT !.at = "append", !.cur = head, !.prev = c]
        /\ UNCHANGED <<head, list>>
    BY <1>5 DEF CreateNode
  <2>2. InList(head) /\ head \in Pointers
    BY <1>5, HeadOfList
  <2>3. HeapTypes'
    BY <1>1, <1>3, <2>1, <2>2 DEF ListInv, HeapTypes, Ops, Pointers
  <2>4. Represents'
    <3>1. \A i \in 1..Len(list) : list[i] # c /\ list[i] \in Chunks
      BY <1>2, ListShape DEF InList, ListInv, HeapTypes
    <3>2. \A i \in 1..Len(list) : next'[list[i]] = next[list[i]] /\ list[i] \in used'
      BY <1>1, <3>1 DEF ListInv, HeapTypes, Represents
    <3>3. QED
      BY <2>1, <3>2 DEF ListInv, Represents
  <2>5. op'.at = "append" /\ op'.cur = head /\ op'.prev = c /\ op'.goal = "add"
    BY <1>1, <2>1 DEF ListInv, HeapTypes, Ops
  <2>6. OpKnows'
    BY <1>1, <1>2, <1>3, <2>1, <2>2, <2>5 DEF OpKnows, Loose, InList
  <2>7. FreeAreClear'
    BY <1>1, <2>1, <2>5 DEF FreeAreClear, ListInv, HeapTypes
  <2>8. QED
    BY <2>3, <2>4, <2>6, <2>7 DEF ListInv
<1>6. QED
  BY <1>4, <1>5

\* The loop of add_*_node goes on.
LEMMA AppendStepStep ==
  ASSUME ListInv, AppendStep
  PROVE  ListInv'
<1>1. /\ op.at = "append" /\ next[op.cur] # NULL
      /\ op' = [op EXCEPT !.cur = next[op.cur]]
      /\ UNCHANGED <<kind, head, heapVars, list>>
  BY DEF AppendStep, aside
<1>2. InList(op.cur) /\ Loose(op.prev) /\ next[op.prev] = NULL /\ op.goal = "add"
  BY <1>1 DEF ListInv, OpKnows
<1>3. PICK i \in 1..Len(list) : list[i] = op.cur
  BY <1>2 DEF InList
<1>4. list[i] \in Chunks /\ next[list[i]] \in Pointers
  BY ListShape DEF ListInv, HeapTypes
<1>5. InList(next[op.cur])
  BY <1>1, <1>3, Successor DEF InList
<1>6. /\ op' \in Ops /\ op'.at = "append" /\ op'.cur = next[op.cur] /\ op'.prev = op.prev
      /\ op'.goal = op.goal
  BY <1>1, <1>3, <1>4 DEF ListInv, HeapTypes, Ops
<1>7. OpKnows'
  BY <1>1, <1>2, <1>5, <1>6 DEF OpKnows, Loose, InList, heapVars
<1>8. QED
  BY <1>1, <1>6, <1>7, RoomKept, Unmoved DEF ListInv

\* The new node is linked behind the last one.
LEMMA AppendLinkStep ==
  ASSUME ListInv, AppendLink
  PROVE  ListInv'
<1> DEFINE c == op.prev
           n == Len(list)
<1>1. /\ op.at = "append" /\ next[op.cur] = NULL
      /\ next' = [next EXCEPT ![op.cur] = c]
      /\ list' = Append(list, c)
      /\ op' = NoOp
      /\ UNCHANGED <<kind, head, name, used>>
  BY DEF AppendLink, aside
<1>2. InList(op.cur) /\ c \in used /\ ~InList(c) /\ next[c] = NULL /\ op.goal = "add"
  BY <1>1 DEF ListInv, OpKnows, Loose
<1>3. c \in Chunks /\ n \in Nat /\ \A i \in 1..n : list[i] \in Chunks
  BY <1>2, ListShape DEF ListInv, HeapTypes
<1>4. n \in 1..n /\ op.cur = list[n]
  <2>1. PICK i \in 1..n : list[i] = op.cur
    BY <1>2 DEF InList
  <2>2. i = n
    <3> SUFFICES ASSUME i # n PROVE FALSE
      OBVIOUS
    <3>1. i + 1 \in 1..n
      BY <1>3, StrictlyBelowTop
    <3>2. next[list[i]] = list[i + 1]
      BY DEF ListInv, Represents
    <3>3. QED
      BY <1>1, <1>3, <2>1, <3>1, <3>2, NullAssumption
  <2>3. QED
    BY <2>1, <2>2
<1>5. /\ list' \in Seq(Chunks) /\ Len(list') = n + 1
      /\ \A i \in 1..n : list'[i] = list[i]
      /\ list'[n + 1] = c
  BY <1>1, <1>3, Appended DEF ListInv, HeapTypes
<1>6. HeapTypes'
  BY <1>1, <1>3, <1>5 DEF ListInv, HeapTypes, Ops, NoOp, Pointers
<1>7. Represents'
  <2> HIDE DEF n, c
  <2>1. list' # << >> /\ head' = list'[1]
    <3>1. list' # << >>
      BY <1>3, <1>5
    <3>2. head = list[1] /\ 1 \in 1..n
      BY <1>3, <1>4, HeadOfList DEF n
    <3>3. QED
      BY <1>1, <1>5, <3>1, <3>2
  <2>2. ASSUME NEW i \in 1..n + 1
        PROVE  /\ list'[i] \in used'
               /\ next'[list'[i]] = IF i = n + 1 THEN NULL ELSE list'[i + 1]
    <3>0. next \in [Chunks -> Pointers] /\ op.cur \in Chunks /\ c # op.cur
      BY <1>2, <1>3, <1>4 DEF ListInv, HeapTypes
    <3>1. CASE i = n + 1
      BY <1>1, <1>2, <1>3, <1>5, <3>0, <3>1
    <3>2. CASE i = n
      <4>1. n # n + 1 /\ list'[i] = op.cur /\ list'[i + 1] = c
        BY <1>3, <1>4, <1>5, <3>2
      <4>2. op.cur \in used
        BY <1>4 DEF ListInv, Represents, n
      <4>3. QED
        BY <1>1, <3>0, <3>2, <4>1, <4>2
    <3>3. CASE i # n /\ i # n + 1
      <4>1. i \in 1..n /\ i + 1 \in 1..n
        BY <1>3, <3>3
      <4>2. list[i] \in used /\ next[list[i]] = list[i + 1] /\ list[i] # list[n]
        BY <1>4, <3>3, <4>1 DEF ListInv, Represents, n
      <4>3. QED
        BY <1>1, <1>3, <1>4, <1>5, <3>0, <3>3, <4>1, <4>2
    <3>4. QED
      BY <3>1, <3>2, <3>3
  <2>3. ASSUME NEW i \in 1..n + 1, NEW j \in 1..n + 1, list'[i] = list'[j]
        PROVE  i = j
    <3>1. \A k \in 1..n + 1 : k = n + 1 \/ k \in 1..n
      BY <1>3
    <3>2. \A k \in 1..n : list'[k] # c
      BY <1>2, <1>5 DEF InList, n
    <3>3. \A k, l \in 1..n : list[k] = list[l] => k = l
      BY DEF ListInv, Represents, n
    <3>4. QED
      BY <1>5, <2>3, <3>1, <3>2, <3>3
  <2>4. QED
    BY <1>5, <2>1, <2>2, <2>3 DEF Represents
<1>8. OpKnows'
  BY <1>1 DEF OpKnows, NoOp
<1>9. FreeAreClear'
  <2>1. op.cur \in used
    BY <1>4 DEF ListInv, Represents
  <2>2. \A d \in Chunks \ used' : next'[d] = next[d]
    BY <1>1, <2>1 DEF ListInv, HeapTypes
  <2>3. op'.goal # "add" /\ kind' = kind /\ used' = used
    BY <1>1 DEF NoOp
  <2>4. kind = "spd" => Len(list') <= 2
    BY <1>2, <1>3, <1>5 DEF ListInv, FreeAreClear
  <2>5. QED
    BY <2>2, <2>3, <2>4 DEF ListInv, FreeAreClear
<1>10. QED
  BY <1>6, <1>7, <1>8, <1>9 DEF ListInv

\* The loop of del_*_node goes on.
LEMMA UnlinkStepStep ==
  ASSUME ListInv, UnlinkStep
  PROVE  ListInv'
<1>1. /\ op.at = "unlink" /\ name[op.cur] # op.name
      /\ op' = [op EXCEPT !.prev = op.cur, !.cur = next[op.cur]]
      /\ UNCHANGED <<kind, head, heapVars, list>>
  BY DEF UnlinkStep, aside
<1>2. PICK i \in 1..Len(list) : UnlinkAt(i)
  BY <1>1 DEF ListInv, OpKnows
<1>3. /\ Len(list) \in Nat
      /\ \A k \in 1..Len(list) : list[k] \in Chunks
  BY ListShape DEF ListInv, HeapTypes
<1>4. PICK j \in i..Len(list) : name[list[j]] = op.name
  BY <1>2 DEF UnlinkAt
<1>5. op.cur = list[i] /\ i # j
  BY <1>1, <1>2, <1>4 DEF UnlinkAt
<1>6. /\ i # Len(list) /\ i + 1 \in 1..Len(list) /\ j \in i + 1..Len(list)
      /\ i + 1 # 1 /\ i + 1 - 1 = i
      /\ \A k \in 1..i : k = i \/ k \in 1..i - 1
  BY <1>3, <1>4, <1>5
<1>7. next[op.cur] = list[i + 1]
  BY <1>5, <1>6 DEF ListInv, Represents
<1>8. /\ op' \in Ops
      /\ op'.at = "unlink" /\ op'.name = op.name /\ op'.goal = op.goal
      /\ op'.cur = list[i + 1] /\ op'.prev = list[i]
  BY <1>1, <1>3, <1>5, <1>6, <1>7 DEF ListInv, HeapTypes, Ops, Pointers
<1>9. \A k \in 1..i : name[list[k]] # op.name
  BY <1>1, <1>2, <1>5, <1>6 DEF UnlinkAt
<1>10. UnlinkAt(i + 1)'
  BY <1>1, <1>4, <1>6, <1>8, <1>9 DEF UnlinkAt, heapVars
<1>11. OpKnows'
  BY <1>1, <1>6, <1>8, <1>10 DEF OpKnows
<1>12. QED
  BY <1>1, <1>8, <1>11, RoomKept, Unmoved DEF ListInv

\* The head is unlinked, and the spare node freed.
LEMMA UnlinkHeadStep ==
  ASSUME ListInv, UnlinkHead
  PROVE  /\ ListInv'
         /\ list' = RemoveAt(list, 1)
         /\ Loose(op.prev)
<1> DEFINE n == Len(list)
<1>1. /\ op.at = "unlink" /\ name[op.cur] = op.name /\ op.cur = head
      /\ head' = next[head]
      /\ used' = used \ {op.prev}
      /\ list' = Dropped(op.name)
      /\ op' = NoOp
      /\ UNCHANGED <<kind, next, name>>
  BY DEF UnlinkHead
<1>2. PICK i \in 1..n : UnlinkAt(i)
  BY <1>1 DEF ListInv, OpKnows
<1>3. n \in Nat /\ 1 \in 1..n /\ head = list[1]
  <2>1. n # 0
    BY <1>2
  <2>2. QED
    BY <2>1, HeadOfList, ListShape DEF ListInv, HeapTypes
<1>4. i = 1
  <2>1. list[i] = list[1]
    BY <1>1, <1>2, <1>3 DEF UnlinkAt
  <2>2. QED
    BY <1>3, <2>1 DEF ListInv, Represents
<1>5. /\ list' = RemoveAt(list, 1)
      /\ Loose(op.prev) /\ next[op.prev] = NULL
  BY <1>1, <1>2, <1>4, DroppedNode DEF UnlinkAt
<1>6. /\ list' \in Seq(Chunks) /\ Len(list') = n - 1
      /\ \A k \in 1..n - 1 : list'[k] = list[k + 1]
  <2>1. /\ list' \in Seq(Chunks) /\ Len(list') = n - 1
        /\ \A k \in 1..n - 1 : list'[k] = IF k < 1 THEN list[k] ELSE list[k + 1]
    BY <1>3, <1>5, RemoveAtShifts DEF ListInv, HeapTypes
  <2>2. \A k \in 1..n - 1 : ~(k < 1)
    BY <1>3
  <2>3. QED
    BY <2>1, <2>2
<1>7. HeapTypes'
  BY <1>1, <1>6 DEF ListInv, HeapTypes, Ops, NoOp, Pointers
<1>8. \A k \in 1..n - 1 : k \in 1..n /\ k + 1 \in 1..n /\ (k + 1 = n <=> k = n - 1) /\ k + 1 + 1 = (k + 1) + 1
  BY <1>3
<1>9. Represents'
  <2>0. list' = << >> <=> n = 1
    BY <1>3, <1>6, EmptySeq
  <2>1. head' = IF n = 1 THEN NULL ELSE list[2]
    <3>1. next[list[1]] = IF 1 = n THEN NULL ELSE list[1 + 1]
      BY <1>3 DEF ListInv, Represents
    <3>2. QED
      BY <1>1, <1>3, <3>1
  <2>2. n # 1 => 1 \in 1..n - 1
    BY <1>3
  <2>3. head' = IF list' = << >> THEN NULL ELSE list'[1]
    BY <1>6, <2>0, <2>1, <2>2
  <2>4. ASSUME NEW k \in 1..n - 1
        PROVE  /\ list'[k] \in used'
               /\ next'[list'[k]] = IF k = n - 1 THEN NULL ELSE list'[k + 1]
    <3>1. list'[k] = list[k + 1] /\ list[k + 1] \in used /\ list[k + 1] # op.prev
      BY <1>5, <1>6, <1>8 DEF Loose, InList, ListInv, Represents
    <3>2. next[list[k + 1]] = IF k + 1 = n THEN NULL ELSE list[k + 1 + 1]
      BY <1>8 DEF ListInv, Represents
    <3>3. k # n - 1 => k + 1 \in 1..n - 1
      BY <1>3
    <3>4. QED
      BY <1>1, <1>6, <1>8, <3>1, <3>2, <3>3
  <2>5. \A k, l \in 1..n - 1 : list'[k] = list'[l] => k = l
    <3>1. \A k, l \in 1..n - 1 : list[k + 1] = list[l + 1] => k + 1 = l + 1
      BY <1>8 DEF ListInv, Represents
    <3>2. \A k, l \in 1..n - 1 : k + 1 = l + 1 => k = l
      BY <1>3
    <3>3. QED
      BY <1>6, <3>1, <3>2
  <2>6. QED
    BY <1>6, <2>3, <2>4, <2>5 DEF Represents
<1>10. OpKnows'
  BY <1>1 DEF OpKnows, NoOp
<1>11. FreeAreClear'
  <2>1. \A c \in Chunks \ used' : c = op.prev \/ c \in Chunks \ used
    BY <1>1
  <2>2. op'.goal # "add" /\ UNCHANGED <<kind, next>>
    BY <1>1 DEF NoOp
  <2>3. kind = "spd" => Len(list') <= 2
    BY <1>3, <1>6 DEF ListInv, FreeAreClear
  <2>4. QED
    BY <1>5, <2>1, <2>2, <2>3 DEF ListInv, FreeAreClear
<1>12. QED
  BY <1>5, <1>7, <1>9, <1>10, <1>11 DEF ListInv

\* An inner node is unlinked and freed.
LEMMA UnlinkInnerStep ==
  ASSUME ListInv, UnlinkInner
  PROVE  ListInv'
<1> DEFINE n == Len(list)
<1>1. /\ op.at = "unlink" /\ name[op.cur] = op.name /\ op.cur # head
      /\ next' = [next EXCEPT ![op.prev] = next[op.cur]]
      /\ used' = used \ {op.cur}
      /\ list' = Dropped(op.name)
      /\ op' = NoOp
      /\ UNCHANGED <<kind, head, name>>
  BY DEF UnlinkInner
<1>2. PICK i \in 1..n : UnlinkAt(i)
  BY <1>1 DEF ListInv, OpKnows
<1>3. n \in Nat /\ 1 \in 1..n /\ head = list[1] /\ \A k \in 1..n : list[k] \in Chunks
  <2>1. n # 0
    BY <1>2
  <2>2. QED
    BY <2>1, HeadOfList, ListShape DEF ListInv, HeapTypes
<1>4. i # 1 /\ op.cur = list[i] /\ op.prev = list[i - 1]
  BY <1>1, <1>2, <1>3 DEF UnlinkAt
<1>5. list' = RemoveAt(list, i)
  BY <1>1, <1>2, <1>4, DroppedNode DEF UnlinkAt
<1>6. i - 1 \in 1..n - 1 /\ i - 1 \in 1..n /\ i - 1 < i /\ i - 1 + 1 = i /\ n - 1 \in Nat /\ n # 1
  BY <1>3, <1>4
<1>7. /\ list' \in Seq(Chunks) /\ Len(list') = n - 1
      /\ \A k \in 1..n - 1 : list'[k] = IF k < i THEN list[k] ELSE list[k + 1]
  BY <1>5, RemoveAtShifts DEF ListInv, HeapTypes
<1>8. next \in [Chunks -> Pointers] /\ list[i - 1] \in Chunks /\ list[i] \in Chunks /\ next[list[i]] \in Pointers
  BY <1>3, <1>6 DEF ListInv, HeapTypes
<1>9. HeapTypes'
  BY <1>1, <1>4, <1>7, <1>8 DEF ListInv, HeapTypes, Ops, NoOp, Pointers
<1>10. /\ \A k, l \in 1..n : list[k] = list[l] => k = l
       /\ \A k \in 1..n : /\ list[k] \in used
                          /\ next[list[k]] = IF k = n THEN NULL ELSE list[k + 1]
  BY DEF ListInv, Represents
<1>11. Represents'
  <2> HIDE DEF n
  <2>1. head' = IF list' = << >> THEN NULL ELSE list'[1]
    <3>1. 1 \in 1..n - 1 /\ 1 < i /\ n - 1 # 0
      BY <1>3, <1>4, <1>6
    <3>2. list' # << >>
      BY <1>7, <3>1, EmptySeq
    <3>3. QED
      BY <1>1, <1>3, <1>7, <3>1, <3>2
  <2>2. ASSUME NEW k \in 1..n - 1
        PROVE  /\ list'[k] \in used'
               /\ next'[list'[k]] = IF k = n - 1 THEN NULL ELSE list'[k + 1]
    <3>0. k \in 1..n /\ k + 1 \in 1..n /\ (k + 1 = n <=> k = n - 1) /\ (k # n - 1 => k + 1 \in 1..n - 1)
      BY <1>3
    <3>1. CASE k < i - 1
      <4>1. k < i /\ k + 1 < i /\ k # i /\ k # i - 1 /\ k # n - 1 /\ k # n
        BY <1>3, <1>6, <3>1
      <4>2. list'[k] = list[k] /\ list'[k + 1] = list[k + 1]
        BY <1>7, <3>0, <4>1
      <4>3. list[k] # list[i] /\ list[k] # list[i - 1]
        BY <1>6, <1>10, <3>0, <4>1
      <4>4. next'[list[k]] = list[k + 1] /\ list[k] \in used'
        BY <1>1, <1>3, <1>4, <1>8, <1>10, <3>0, <4>1, <4>3
      <4>5. QED
        BY <4>1, <4>2, <4>4
    <3>2. CASE k = i - 1
      <4>1. k < i /\ k + 1 = i /\ k # i
        BY <1>6, <3>2
      <4>2. list'[k] = list[k] /\ (k # n - 1 => list'[k + 1] = list[i + 1])
        <5>1. ~(k + 1 < i)
          BY <4>1
        <5>2. QED
          BY <1>7, <3>0, <4>1, <5>1
      <4>3. list[k] # list[i] /\ list[k] \in used
        BY <1>10, <3>0, <4>1
      <4>4. next'[list[k]] = next[list[i]]
        BY <1>1, <1>4, <1>8, <3>2
      <4>5. next[list[i]] = IF i = n THEN NULL ELSE list[i + 1]
        BY <1>10
      <4>6. i = n <=> k = n - 1
        BY <3>0, <4>1
      <4>7. QED
        BY <1>1, <1>4, <4>2, <4>3, <4>4, <4>5, <4>6
    <3>3. CASE ~(k < i - 1) /\ k # i - 1
      <4>1. ~(k < i) /\ ~(k + 1 < i) /\ k + 1 # i /\ k + 1 # i - 1
        BY <1>3, <1>6, <3>0, <3>3
      <4>2. list'[k] = list[k + 1] /\ (k # n - 1 => list'[k + 1] = list[k + 1 + 1])
        BY <1>7, <3>0, <4>1
      <4>3. list[k + 1] # list[i] /\ list[k + 1] # list[i - 1]
        BY <1>6, <1>10, <3>0, <4>1
      <4>4. /\ next'[list[k + 1]] = IF k + 1 = n THEN NULL ELSE list[k + 1 + 1]
            /\ list[k + 1] \in used'
        BY <1>1, <1>3, <1>4, <1>8, <1>10, <3>0, <4>3
      <4>5. QED
        BY <3>0, <4>2, <4>4
    <3>4. QED
      BY <3>1, <3>2, <3>3
  <2>3. ASSUME NEW k \in 1..n - 1, NEW l \in 1..n - 1, list'[k] = list'[l]
        PROVE  k = l
    <3> DEFINE at(m) == IF m < i THEN m ELSE m + 1
    <3>1. at(k) \in 1..n /\ at(l) \in 1..n /\ (at(k) = at(l) => k = l)
      BY <1>3, <1>6
    <3>2. list'[k] = list[at(k)] /\ list'[l] = list[at(l)]
      BY <1>7
    <3> HIDE DEF at
    <3>3. QED
      BY <1>10, <2>3, <3>1, <3>2
  <2>4. QED
    BY <1>7, <2>1, <2>2, <2>3 DEF Represents
<1>12. OpKnows'
  BY <1>1 DEF OpKnows, NoOp
<1>13. FreeAreClear'
  <2> SUFFICES ASSUME kind = "spd" PROVE FreeAreClear'
    BY <1>1 DEF FreeAreClear
  <2>1. MaxSpd <= 2 /\ n <= 2 /\ \A c \in Chunks \ used : next[c] = NULL
    BY DEF ListInv, FreeAreClear
  <2>2. i = n /\ n - 1 <= 2
    BY <1>3, <1>4, <2>1
  <2>3. next[list[i]] = NULL /\ list[i - 1] \in used /\ list[i - 1] # list[i]
    <3>1. i - 1 # i
      BY <1>3
    <3>2. next[list[i]] = NULL
      BY <1>10, <2>2
    <3>3. QED
      BY <1>6, <1>10, <3>1, <3>2
  <2>4. ASSUME NEW c \in Chunks, c \notin used'
        PROVE  next'[c] = NULL
    BY <1>1, <1>4, <1>8, <2>1, <2>3, <2>4
  <2>5. op'.goal # "add"
    BY <1>1 DEF NoOp
  <2>6. QED
    BY <1>7, <2>1, <2>2, <2>4, <2>5 DEF FreeAreClear
<1>14. QED
  BY <1>9, <1>11, <1>12, <1>13 DEF ListInv

\* Steps that leave the heap, the list and the function under way alone.
LEMMA WalksAside ==
  ASSUME ListInv, UNCHANGED <<kind, head, heapVars, op, list>>
  PROVE  ListInv'
BY DEF ListInv, HeapTypes, Represents, OpKnows, FreeAreClear, UnlinkAt, Loose, InList,
       heapVars

\* A function is called.
LEMMA Calls ==
  ASSUME ListInv, NEW n \in Names, AddEntry(n) \/ RemoveEntry(n)
  PROVE  ListInv'
<1>1. head \in Pointers /\ (head # NULL => InList(head))
  BY HeadOfList
<1>2. CASE AddEntry(n)
  <2>1. /\ op' = [at |-> IF kind = "spd" THEN "find" ELSE "create", goal |-> "add",
                   name |-> n, cur |-> head, prev |-> NULL]
        /\ Len(list) < MaxEntries
        /\ UNCHANGED <<kind, head, heapVars, list>>
    BY <1>2 DEF AddEntry, aside
  <2>2. op' \in Ops /\ op'.goal = "add"
    BY <1>1, <2>1 DEF Ops, Pointers
  <2>3. OpKnows'
    BY <1>1, <2>1 DEF OpKnows, InList
  <2>4. kind = "spd" => Len(list) <= 1
    BY <2>1, ListShape, EntriesAssumption DEF MaxEntries, ListInv, HeapTypes, FreeAreClear
  <2>5. QED
    BY <2>1, <2>2, <2>3, <2>4, Unmoved DEF ListInv
<1>3. CASE RemoveEntry(n)
  <2>1. /\ op' = [at |-> "find", goal |-> "remove", name |-> n, cur |-> head, prev |-> NULL]
        /\ UNCHANGED <<kind, head, heapVars, list>>
    BY <1>3 DEF RemoveEntry, aside
  <2>2. op' \in Ops /\ op'.goal # "add"
    BY <1>1, <2>1 DEF Ops, Pointers
  <2>3. OpKnows'
    BY <1>1, <2>1 DEF OpKnows, InList
  <2>4. QED
    BY <2>1, <2>2, <2>3, Unmoved DEF ListInv
<1>4. QED
  BY <1>2, <1>3

\* An empty list has it.
LEMMA EmptyListStarts ==
  ASSUME kind = "sad" \/ MaxSpd <= 2, Init
  PROVE  ListInv
<1>1. list = << >> /\ list \in Seq(Chunks) /\ Len(list) = 0
  BY EmptySeq DEF Init
<1>2. HeapTypes
  BY <1>1, KindsAssumption DEF Init, HeapTypes, Ops, NoOp, Pointers
<1>3. Represents
  BY <1>1 DEF Init, Represents
<1>4. OpKnows
  BY DEF Init, OpKnows, NoOp
<1>5. FreeAreClear
  BY <1>1 DEF Init, FreeAreClear, NoOp
<1>6. QED
  BY <1>2, <1>3, <1>4, <1>5 DEF ListInv

\* And so it is at the start, whichever list is looked at.
LEMMA ListInvStarts ==
  ASSUME TwoAtMost, Init
  PROVE  ListInv
BY EmptyListStarts, KindsAssumption DEF Init, TwoAtMost

\* Every step of the list and of the thread keeps it.
LEMMA ListInvKept ==
  ASSUME ListInv, [Next]_vars
  PROVE  ListInv'
<1>1. CASE FindStep \/ FindExisting \/ FindNothing
  BY <1>1, FindSteps
<1>2. ASSUME NEW c \in Chunks, FindForRemoval(c) PROVE ListInv'
  BY <1>2, FindForRemovalStep
<1>3. ASSUME NEW c \in Chunks, CreateNode(c) PROVE ListInv'
  BY <1>3, CreateNodeStep
<1>4. CASE AppendStep
  BY <1>4, AppendStepStep
<1>5. CASE AppendLink
  BY <1>5, AppendLinkStep
<1>6. CASE UnlinkStep
  BY <1>6, UnlinkStepStep
<1>7. CASE UnlinkHead
  BY <1>7, UnlinkHeadStep
<1>8. CASE UnlinkInner
  BY <1>8, UnlinkInnerStep
<1>9. ASSUME NEW n \in Names, AddEntry(n) \/ RemoveEntry(n) PROVE ListInv'
  BY <1>9, Calls
<1>10. ASSUME NEW n \in Sought, WalkStart(n) PROVE ListInv'
  BY <1>10, WalksAside DEF WalkStart
<1>11. CASE Walk
  BY <1>11, WalksAside DEF Walk, WalkStep, WalkFinds, WalkOver
<1>12. CASE UNCHANGED vars
  BY <1>12, WalksAside DEF vars
<1>13. QED
  BY <1>1, <1>2, <1>3, <1>4, <1>5, <1>6, <1>7, <1>8, <1>9, <1>10, <1>11, <1>12
     DEF Next, Work

(***************************************************************************)
(* The pointers of a list implement the sequence of its entries: of the    *)
(* SAD list for every heap, every set of names and any number of entries,  *)
(* of the SPD list as long as it has no more than two, whatever node       *)
(* malloc hands out and whoever walks the list meanwhile.                  *)
(***************************************************************************)
THEOREM RepresentsCorrect ==
  ASSUME TwoAtMost
  PROVE  Spec => []Represents
<1>1. Init => ListInv
  BY ListInvStarts
<1>2. ListInv /\ [Next]_vars => ListInv'
  BY ListInvKept
<1>3. ListInv => Represents
  BY DEF ListInv
<1>4. QED
  BY <1>1, <1>2, <1>3, PTL DEF Spec

-----------------------------------------------------------------------------
(***************************************************************************)
(* The register thread.  S are chunks it can be on and stay on: live, with *)
(* every entry's among them, and closed under next.  A node that is no     *)
(* longer in the list may be one of them, for the head is never freed; the *)
(* spare node of a removal and a new node that is not linked yet may not.  *)
(***************************************************************************)
Ground(S) ==
  /\ S \subseteq used
  /\ \A i \in 1..Len(list) : list[i] \in S
  /\ \A c \in S : next[c] \in S \cup {NULL}
  /\ op.at \in {"append", "unlink"} /\ op.prev \in S => InList(op.prev)

Walks ==
  [at : {"idle", "walk", "got"}, name : Names \cup {NULL},
   cur : Pointers, there : BOOLEAN, shaken : BOOLEAN]

OnGround == \E S \in SUBSET Chunks : rd.cur \in S /\ Ground(S)

WalkInv ==
  /\ rd \in Walks
  /\ rd.at = "idle" => rd.cur = NULL
  /\ rd.cur # NULL /\ ~rd.shaken => OnGround

\* What the callbacks do leaves the thread a ground, unless an inner node is
\* freed.
LEMMA GroundKept ==
  ASSUME ListInv, Work \/ \E n \in Names : AddEntry(n) \/ RemoveEntry(n), ~UnlinkInner,
         NEW S \in SUBSET Chunks, Ground(S)
  PROVE  \E T \in SUBSET Chunks : S \subseteq T /\ Ground(T)'
<1>1. CASE \/ FindStep \/ FindExisting \/ FindNothing
           \/ \E n \in Names : AddEntry(n) \/ RemoveEntry(n)
  <2>1. op'.at \in {"idle", "find", "create"} /\ UNCHANGED <<heapVars, list>>
    BY <1>1 DEF FindStep, FindExisting, FindNothing, AddEntry, RemoveEntry, NoOp, aside,
                ListInv, HeapTypes, Ops
  <2>2. Ground(S)'
    BY <2>1 DEF Ground, heapVars
  <2>3. QED
    BY <2>2
<1>2. ASSUME NEW c \in Chunks, FindForRemoval(c)
      PROVE  Ground(S)'
  <2>1. /\ c \notin used /\ used' = used \cup {c}
        /\ next' = [next EXCEPT ![c] = NULL]
        /\ op'.prev = c /\ list' = list
    BY <1>2, FreshIsClear DEF FindForRemoval, Create, aside, ListInv, HeapTypes, Ops
  <2>2. c \notin S /\ \A s \in S : next'[s] = next[s]
    BY <2>1 DEF Ground, ListInv, HeapTypes
  <2>3. QED
    BY <2>1, <2>2 DEF Ground
<1>3. ASSUME NEW c \in Chunks, CreateNode(c)
      PROVE  \E T \in SUBSET Chunks : S \subseteq T /\ Ground(T)'
  <2>1. /\ c \notin used /\ used' = used \cup {c}
        /\ next' = [next EXCEPT ![c] = NULL]
    BY <1>3, FreshIsClear DEF CreateNode, Create
  <2>2. c \notin S /\ next'[c] = NULL /\ \A s \in S : next'[s] = next[s]
    BY <2>1 DEF Ground, ListInv, HeapTypes
  <2>3. CASE head = NULL
    <3>1. list' = Append(list, c) /\ op' = NoOp /\ Len(list) = 0
      BY <1>3, <2>3, HeadOfList DEF CreateNode
    <3>2. Len(list') = 1 /\ list'[1] = c
      BY <3>1, Appended DEF ListInv, HeapTypes
    <3>3. Ground(S \cup {c})'
      BY <2>1, <2>2, <3>1, <3>2 DEF Ground, NoOp
    <3>4. QED
      BY <3>3
  <2>4. CASE head # NULL
    <3>1. op'.prev = c /\ list' = list
      BY <1>3, <2>4 DEF CreateNode, ListInv, HeapTypes, Ops
    <3>2. Ground(S)'
      BY <2>1, <2>2, <3>1 DEF Ground
    <3>3. QED
      BY <3>2
  <2>5. QED
    BY <2>3, <2>4
<1>4. CASE AppendStep
  <2>1. op.at = "append" /\ op'.prev = op.prev /\ UNCHANGED <<heapVars, list>>
    BY <1>4 DEF AppendStep, aside, ListInv, HeapTypes, Ops
  <2>2. Ground(S)'
    BY <2>1 DEF Ground, heapVars, InList
  <2>3. QED
    BY <2>2
<1>5. CASE AppendLink
  <2>0. PICK c \in Chunks : c = op.prev
    BY <1>5 DEF AppendLink, ListInv, HeapTypes, OpKnows, Loose
  <2>1. /\ next' = [next EXCEPT ![op.cur] = c]
        /\ list' = Append(list, c)
        /\ op' = NoOp /\ used' = used
        /\ InList(op.cur) /\ c \in used /\ ~InList(c) /\ next[c] = NULL
    BY <1>5, <2>0 DEF AppendLink, aside, ListInv, OpKnows, Loose
  <2>2. op.cur # c /\ next \in [Chunks -> Pointers]
    BY <2>1 DEF ListInv, HeapTypes
  <2>3. /\ Len(list') = Len(list) + 1 /\ list'[Len(list) + 1] = c
        /\ \A i \in 1..Len(list) : list'[i] = list[i]
    BY <2>1, <2>2, Appended DEF ListInv, HeapTypes
  <2>4. \A i \in 1..Len(list') : list'[i] \in S \cup {c}
    <3>1. Len(list) \in Nat
      BY ListShape DEF ListInv, HeapTypes
    <3>2. \A i \in 1..Len(list') : i \in 1..Len(list) \/ i = Len(list) + 1
      BY <2>3, <3>1
    <3>3. QED
      BY <2>3, <3>2 DEF Ground
  <2>5. \A s \in S \cup {c} : next'[s] \in S \cup {c} \cup {NULL}
    BY <2>1, <2>2 DEF Ground
  <2>6. Ground(S \cup {c})'
    BY <2>1, <2>4, <2>5 DEF Ground, NoOp
  <2>7. QED
    BY <2>2, <2>6
<1>6. CASE UnlinkStep
  <2>1. op.at = "unlink" /\ op'.prev = op.cur /\ UNCHANGED <<heapVars, list>>
    BY <1>6 DEF UnlinkStep, aside, ListInv, HeapTypes, Ops
  <2>2. InList(op.cur)
    BY <2>1 DEF ListInv, OpKnows, UnlinkAt, InList
  <2>3. Ground(S)'
    BY <2>1, <2>2 DEF Ground, heapVars, InList
  <2>4. QED
    BY <2>3
<1>7. CASE UnlinkHead
  <2>1. op.at = "unlink" /\ used' = used \ {op.prev} /\ next' = next /\ op' = NoOp
    BY <1>7 DEF UnlinkHead
  <2>2. op.prev \notin S
    BY <1>7, <2>1, UnlinkHeadStep DEF Ground, Loose
  <2>3. \A i \in 1..Len(list') : list'[i] \in S
    <3>1. 1 \in 1..Len(list) /\ list' = RemoveAt(list, 1) /\ Len(list) \in Nat
      <4>1. PICK i \in 1..Len(list) : UnlinkAt(i)
        BY <2>1 DEF ListInv, OpKnows
      <4>2. QED
        BY <1>7, <4>1, ListShape, UnlinkHeadStep DEF ListInv, HeapTypes
    <3>2. /\ Len(list') = Len(list) - 1
          /\ \A k \in 1..Len(list) - 1 :
               list'[k] = IF k < 1 THEN list[k] ELSE list[k + 1]
      BY <3>1, RemoveAtShifts DEF ListInv, HeapTypes
    <3>3. \A k \in 1..Len(list) - 1 : k \in 1..Len(list) /\ k + 1 \in 1..Len(list)
      BY <3>1
    <3>4. QED
      BY <3>2, <3>3 DEF Ground
  <2>4. Ground(S)'
    BY <2>1, <2>2, <2>3 DEF Ground, NoOp
  <2>5. QED
    BY <2>4
<1>8. QED
  BY <1>1, <1>2, <1>3, <1>4, <1>5, <1>6, <1>7 DEF Work

\* The nodes in the list are a ground to begin a walk on.
LEMMA ListIsGround ==
  ASSUME ListInv, head # NULL
  PROVE  \E S \in SUBSET Chunks : head \in S /\ Ground(S)
<1> DEFINE S == {list[i] : i \in 1..Len(list)}
<1>1. S \in SUBSET Chunks /\ head \in S
  BY HeadOfList, ListShape DEF ListInv, HeapTypes
<1>2. \A c \in S : c \in used /\ next[c] \in S \cup {NULL}
  <2> SUFFICES ASSUME NEW i \in 1..Len(list)
               PROVE  list[i] \in used /\ next[list[i]] \in S \cup {NULL}
    OBVIOUS
  <2>1. list[i] \in used
    BY DEF ListInv, Represents
  <2>2. QED
    BY <2>1, Successor
<1>3. Ground(S)
  BY <1>2 DEF Ground, InList
<1>4. QED
  BY <1>1, <1>3

\* Before its first walk the thread holds no node.
LEMMA WalkInvStarts ==
  ASSUME Init
  PROVE  WalkInv
<1>1. rd = NoWalk
  BY DEF Init
<1>2. NoWalk \in Walks /\ NoWalk.cur = NULL
  BY DEF NoWalk, Walks, Pointers
<1>3. QED
  BY <1>1, <1>2 DEF WalkInv

\* The thread stays on a node from which only live nodes are reached.
LEMMA WalkInvKept ==
  ASSUME ListInv, WalkInv, [Next]_vars
  PROVE  WalkInv'
<1>1. CASE ~UnlinkInner /\ (Work \/ \E n \in Names : AddEntry(n) \/ RemoveEntry(n))
  <2>1. /\ rd' \in Walks /\ rd'.at = rd.at /\ rd'.cur = rd.cur
        /\ rd'.shaken = rd.shaken
    <3>1. CASE UnlinkHead
      <4>1. rd' = WalkAfterRemoval(FALSE)
        BY <3>1 DEF UnlinkHead
      <4>2. QED
        BY <4>1 DEF WalkAfterRemoval, WalkInv, Walks
    <3>2. CASE ~UnlinkHead
      <4>1. rd' = rd
        BY <1>1, <3>2 DEF Work, FindStep, FindExisting, FindNothing, FindForRemoval,
             CreateNode, AppendStep, AppendLink, UnlinkStep, AddEntry, RemoveEntry, aside
      <4>2. QED
        BY <4>1 DEF WalkInv
    <3>3. QED
      BY <3>1, <3>2
  <2>2. OnGround => OnGround'
    <3> SUFFICES ASSUME NEW S \in SUBSET Chunks, rd.cur \in S, Ground(S)
                 PROVE  OnGround'
      BY DEF OnGround
    <3>1. PICK T \in SUBSET Chunks : S \subseteq T /\ Ground(T)'
      BY <1>1, GroundKept
    <3>2. QED
      BY <2>1, <3>1 DEF OnGround
  <2>3. QED
    BY <2>1, <2>2 DEF WalkInv
<1>2. CASE UnlinkInner
  <2>1. rd' = WalkAfterRemoval(TRUE)
    BY <1>2 DEF UnlinkInner
  <2>2. CASE rd.at = "idle"
    BY <2>1, <2>2 DEF WalkAfterRemoval, WalkInv
  <2>3. CASE rd.at # "idle"
    <3>1. rd' \in Walks /\ rd'.at = rd.at /\ rd'.shaken
      BY <2>1, <2>3 DEF WalkAfterRemoval, WalkInv, Walks
    <3>2. QED
      BY <2>3, <3>1 DEF WalkInv
  <2>4. QED
    BY <2>2, <2>3
<1>3. ASSUME NEW n \in Sought, WalkStart(n)
      PROVE  WalkInv'
  <2>1. /\ rd' \in Walks /\ rd'.at = "walk" /\ rd'.cur = head
        /\ UNCHANGED <<heapVars, op, list>>
    BY <1>3, HeadOfList, SoughtAssumption DEF WalkStart, Walks, Listed
  <2>2. head # NULL => OnGround'
    <3> SUFFICES ASSUME head # NULL PROVE OnGround'
      OBVIOUS
    <3>1. PICK S \in SUBSET Chunks : head \in S /\ Ground(S)
      BY ListIsGround
    <3>2. Ground(S)'
      BY <2>1, <3>1 DEF Ground, InList, heapVars
    <3>3. QED
      BY <2>1, <3>1, <3>2 DEF OnGround
  <2>3. QED
    BY <2>1, <2>2 DEF WalkInv
<1>4. CASE WalkStep
  <2>1. /\ rd.at = "walk" /\ rd.cur # NULL /\ rd' = [rd EXCEPT !.cur = next[rd.cur]]
        /\ UNCHANGED <<heapVars, op, list>>
    BY <1>4 DEF WalkStep
  <2>2. next[rd.cur] \in Pointers
    BY <2>1 DEF WalkInv, Walks, Pointers, ListInv, HeapTypes
  <2>3. /\ rd' \in Walks /\ rd'.at = "walk" /\ rd'.cur = next[rd.cur]
        /\ rd'.shaken = rd.shaken
    BY <2>1, <2>2 DEF WalkInv, Walks
  <2>4. rd'.cur # NULL /\ ~rd'.shaken => OnGround'
    <3> SUFFICES ASSUME next[rd.cur] # NULL, ~rd.shaken PROVE OnGround'
      BY <2>3
    <3>1. PICK S \in SUBSET Chunks : rd.cur \in S /\ Ground(S)
      BY <2>1 DEF WalkInv, OnGround
    <3>2. Ground(S)'
      BY <2>1, <3>1 DEF Ground, InList, heapVars
    <3>3. rd'.cur \in S
      BY <2>3, <3>1 DEF Ground
    <3>4. QED
      BY <3>2, <3>3 DEF OnGround
  <2>5. QED
    BY <2>3, <2>4 DEF WalkInv
<1>5. CASE WalkFinds
  <2>1. rd.at = "walk" /\ rd' = [rd EXCEPT !.at = "got"] /\ UNCHANGED <<heapVars, op, list>>
    BY <1>5 DEF WalkFinds
  <2>2. rd' \in Walks /\ rd'.at = "got" /\ rd'.cur = rd.cur /\ rd'.shaken = rd.shaken
    BY <2>1 DEF WalkInv, Walks
  <2>3. OnGround => OnGround'
    BY <2>1, <2>2 DEF OnGround, Ground, InList, heapVars
  <2>4. QED
    BY <2>2, <2>3 DEF WalkInv
<1>6. CASE WalkOver
  <2>1. rd' = NoWalk
    BY <1>6 DEF WalkOver
  <2>2. QED
    BY <2>1 DEF NoWalk, WalkInv, Walks, Pointers
<1>7. CASE UNCHANGED vars
  BY <1>7 DEF vars, WalkInv, OnGround, Ground, InList, heapVars
<1>8. QED
  BY <1>1, <1>2, <1>3, <1>4, <1>5, <1>6, <1>7 DEF Next, Walk, Work

(***************************************************************************)
(* The thread that walks the SAD list without a lock is never on a node    *)
(* that has been freed, as long as no inner node goes during its walk:     *)
(* for every heap, any entries and any removals of the head.               *)
(***************************************************************************)
THEOREM ReaderOnLiveNodeCorrect ==
  ASSUME TwoAtMost
  PROVE  Spec => []ReaderOnLiveNode
<1>1. Init => ListInv /\ WalkInv
  BY ListInvStarts, WalkInvStarts
<1>2. ListInv /\ WalkInv /\ [Next]_vars => (ListInv /\ WalkInv)'
  BY ListInvKept, WalkInvKept
<1>3. ListInv /\ WalkInv => ReaderOnLiveNode
  BY DEF WalkInv, OnGround, Ground, ReaderOnLiveNode
<1>4. QED
  BY <1>1, <1>2, <1>3, PTL DEF Spec

-----------------------------------------------------------------------------
(***************************************************************************)
(* What the walk finds.  S is a trail if it holds the node the thread is   *)
(* at and everything behind it; the walk will get to a listed node of the  *)
(* name if there is one on every trail.                                    *)
(***************************************************************************)
FollowsNext(S) == \A c \in S \ {NULL} : next[c] \in S

Meets(S) == \E i \in 1..Len(list) : list[i] \in S /\ name[list[i]] = rd.name

FindInv ==
  rd.at = "walk" /\ rd.there /\ ~rd.shaken =>
    \A S \in SUBSET Pointers : rd.cur \in S /\ FollowsNext(S) => Meets(S)

\* All entries are behind the head.
LEMMA HeadLeadsToAll ==
  ASSUME ListInv, NEW S \in SUBSET Pointers, FollowsNext(S), head \in S
  PROVE  \A i \in 1..Len(list) : list[i] \in S
<1> DEFINE D == {i \in 1..Len(list) : list[i] \notin S}
<1>1. Len(list) \in Nat /\ \A i \in 1..Len(list) : list[i] \in Chunks
  BY ListShape DEF ListInv, HeapTypes
<1>2. SUFFICES ASSUME D # {} PROVE FALSE
  OBVIOUS
<1>3. PICK k \in D : \A i \in D : k <= i
  <2>1. D \subseteq Nat
    BY <1>1
  <2>2. QED
    BY <1>2, <2>1, MinIsLeast
<1>4. k # 1
  <2>1. 1 \in 1..Len(list) => list[1] = head
    BY <1>1, HeadOfList
  <2>2. QED
    BY <1>3, <2>1
<1>5. /\ k - 1 \in 1..Len(list) /\ k - 1 # Len(list) /\ k - 1 + 1 = k
      /\ ~(k <= k - 1)
  BY <1>1, <1>3, <1>4
<1>6. list[k - 1] \in S /\ list[k - 1] # NULL
  BY <1>1, <1>3, <1>5, NullAssumption
<1>7. next[list[k - 1]] = list[k]
  BY <1>5 DEF ListInv, Represents
<1>8. QED
  BY <1>3, <1>6, <1>7 DEF FollowsNext

\* malloc hands out a chunk, and nothing the thread can get to changes.
LEMMA FreshNode ==
  ASSUME ListInv, WalkInv, FindInv, rd' = rd,
         NEW c \in Chunks, c \notin used, next' = [next EXCEPT ![c] = NULL],
         \A i \in 1..Len(list) :
           i \in 1..Len(list') /\ list'[i] = list[i] /\ name'[list[i]] = name[list[i]]
  PROVE  FindInv'
<1> SUFFICES ASSUME rd.at = "walk", rd.there, ~rd.shaken,
                    NEW S \in SUBSET Pointers, rd.cur \in S, FollowsNext(S)'
             PROVE  Meets(S)'
  BY DEF FindInv
<1>1. PICK T \in SUBSET Pointers : rd.cur \in T /\ FollowsNext(T) /\ T \subseteq S \cup {NULL}
  <2>1. CASE rd.cur = NULL
    BY <2>1 DEF Pointers, FollowsNext
  <2>2. CASE rd.cur # NULL
    <3>1. PICK G \in SUBSET Chunks : rd.cur \in G /\ Ground(G)
      BY <2>2 DEF WalkInv, OnGround
    <3>2. \A d \in G : next[d] \in G \cup {NULL} /\ next'[d] = next[d]
      BY <3>1 DEF Ground, ListInv, HeapTypes
    <3>3. FollowsNext((S \cap G) \cup {NULL})
      BY <3>2 DEF FollowsNext
    <3>4. QED
      BY <3>1, <3>3 DEF Pointers
  <2>3. QED
    BY <2>1, <2>2
<1>2. PICK i \in 1..Len(list) : list[i] \in T /\ name[list[i]] = rd.name
  BY <1>1 DEF FindInv, Meets
<1>3. list[i] \in S
  <2>1. list[i] \in Chunks
    BY ListShape DEF ListInv, HeapTypes
  <2>2. QED
    BY <1>1, <1>2, <2>1, NullAssumption
<1>4. QED
  BY <1>2, <1>3 DEF Meets

\* An entry that stays is still ahead of the walk.
LEMMA FindInvKept ==
  ASSUME ListInv, WalkInv, FindInv, [Next]_vars
  PROVE  FindInv'
<1>1. ASSUME UNCHANGED <<next, name, list, rd>>
      PROVE  FindInv'
  BY <1>1 DEF FindInv, FollowsNext, Meets
<1>2. CASE \/ FindStep \/ FindExisting \/ FindNothing \/ AppendStep \/ UnlinkStep
           \/ \E n \in Names : AddEntry(n) \/ RemoveEntry(n)
           \/ UNCHANGED vars
  BY <1>1, <1>2 DEF FindStep, FindExisting, FindNothing, AppendStep, UnlinkStep,
     AddEntry, RemoveEntry, aside, heapVars, vars
<1>3. ASSUME NEW c \in Chunks, FindForRemoval(c) PROVE FindInv'
  <2>1. /\ c \notin used /\ next' = [next EXCEPT ![c] = NULL]
        /\ UNCHANGED <<name, list, rd>>
    BY <1>3, FreshIsClear DEF FindForRemoval, Create, aside
  <2>2. QED
    BY <2>1, FreshNode
<1>4. ASSUME NEW c \in Chunks, CreateNode(c) PROVE FindInv'
  <2>1. /\ c \notin used /\ next' = [next EXCEPT ![c] = NULL]
        /\ name' = [name EXCEPT ![c] = op.name]
        /\ rd' = rd
        /\ list' = list \/ list' = Append(list, c)
    BY <1>4, FreshIsClear DEF CreateNode, Create, aside
  <2>2. \A i \in 1..Len(list) : name'[list[i]] = name[list[i]]
    BY <2>1, ListShape DEF ListInv, HeapTypes, Represents
  <2>3. \A i \in 1..Len(list) : i \in 1..Len(list') /\ list'[i] = list[i]
    <3>1. CASE list' = list
      BY <3>1
    <3>2. CASE list' = Append(list, c)
      BY <3>2, Appended, ListShape DEF ListInv, HeapTypes
    <3>3. QED
      BY <2>1, <3>1, <3>2
  <2>4. QED
    BY <2>1, <2>2, <2>3, FreshNode
<1>5. CASE AppendLink
  <2>1. /\ next' = [next EXCEPT ![op.cur] = op.prev] /\ next[op.cur] = NULL
        /\ list' = Append(list, op.prev) /\ op.prev \in Chunks
        /\ UNCHANGED <<name, rd>>
    BY <1>5 DEF AppendLink, aside, ListInv, HeapTypes, OpKnows, Loose
  <2>2. \A i \in 1..Len(list) : i \in 1..Len(list') /\ list'[i] = list[i] /\ list[i] \in Chunks
    BY <2>1, Appended, ListShape DEF ListInv, HeapTypes
  <2> SUFFICES ASSUME rd.at = "walk", rd.there, ~rd.shaken,
                      NEW S \in SUBSET Pointers, rd.cur \in S, FollowsNext(S)'
               PROVE  Meets(S)'
    BY <2>1 DEF FindInv
  <2>3. FollowsNext(S \cup {NULL})
    <3> SUFFICES ASSUME NEW d \in S \ {NULL} PROVE next[d] \in S \cup {NULL}
      BY DEF FollowsNext
    <3>1. d \in Chunks /\ next'[d] \in S
      BY DEF FollowsNext, Pointers
    <3>2. QED
      BY <2>1, <3>1 DEF ListInv, HeapTypes
  <2>4. PICK i \in 1..Len(list) : list[i] \in S \cup {NULL} /\ name[list[i]] = rd.name
    BY <2>3 DEF FindInv, Meets, Pointers
  <2>5. QED
    BY <2>1, <2>2, <2>4, NullAssumption DEF Meets
<1>6. CASE UnlinkHead
  <2>1. /\ rd' = WalkAfterRemoval(FALSE) /\ UNCHANGED <<next, name>>
        /\ list' = RemoveAt(list, 1)
    BY <1>6, UnlinkHeadStep DEF UnlinkHead
  <2> SUFFICES ASSUME rd'.at = "walk", rd'.there, ~rd'.shaken,
                      NEW S \in SUBSET Pointers, rd'.cur \in S, FollowsNext(S)
               PROVE  Meets(S)'
    BY <2>1 DEF FindInv, FollowsNext
  <2>2. /\ rd.at = "walk" /\ rd.there /\ ~rd.shaken /\ rd'.cur = rd.cur /\ rd'.name = rd.name
        /\ \E c \in ToSet(list') : name[c] = rd.name
    BY <2>1 DEF WalkAfterRemoval, WalkInv, Walks
  <2>3. PICK i \in 1..Len(list) : list[i] \in S /\ name[list[i]] = rd.name
    BY <2>2 DEF FindInv, Meets
  <2>4. 1 \in 1..Len(list) /\ Len(list) \in Nat
    BY <2>3, ListShape DEF ListInv, HeapTypes
  <2>5. /\ Len(list') = Len(list) - 1
        /\ \A k \in 1..Len(list) - 1 : list'[k] = list[k + 1]
    <3>1. /\ Len(list') = Len(list) - 1
          /\ \A k \in 1..Len(list) - 1 :
               list'[k] = IF k < 1 THEN list[k] ELSE list[k + 1]
      BY <2>1, <2>4, RemoveAtShifts DEF ListInv, HeapTypes
    <3>2. \A k \in 1..Len(list) - 1 : ~(k < 1)
      BY <2>4
    <3>3. QED
      BY <3>1, <3>2
  <2>6. CASE i # 1
    <3>1. i - 1 \in 1..Len(list) - 1 /\ i - 1 + 1 = i
      BY <2>4, <2>6
    <3>2. list'[i - 1] = list[i] /\ i - 1 \in 1..Len(list')
      BY <2>5, <3>1
    <3>3. QED
      BY <2>1, <2>2, <2>3, <3>2 DEF Meets
  <2>7. CASE i = 1
    <3>1. head \in S
      BY <2>3, <2>4, <2>7, HeadOfList
    <3>2. \A k \in 1..Len(list) : list[k] \in S
      BY <3>1, HeadLeadsToAll
    <3>3. PICK k \in 1..Len(list') : name[list'[k]] = rd.name
      BY <2>2 DEF ToSet
    <3>4. k + 1 \in 1..Len(list)
      BY <2>4, <2>5
    <3>5. list'[k] \in S
      BY <2>5, <3>2, <3>4
    <3>6. QED
      BY <2>1, <2>2, <3>3, <3>5 DEF Meets
  <2>8. QED
    BY <2>6, <2>7
<1>7. CASE UnlinkInner
  <2>1. rd' = WalkAfterRemoval(TRUE)
    BY <1>7 DEF UnlinkInner
  <2>2. rd'.at = "idle" \/ rd'.shaken
    BY <2>1 DEF WalkAfterRemoval, WalkInv, Walks
  <2>3. QED
    BY <2>2 DEF FindInv
<1>8. ASSUME NEW n \in Sought, WalkStart(n) PROVE FindInv'
  <2>1. /\ rd' = [at |-> "walk", name |-> n, cur |-> head,
                  there |-> Listed(n), shaken |-> FALSE]
        /\ UNCHANGED <<next, name, list>>
    BY <1>8 DEF WalkStart, heapVars
  <2> SUFFICES ASSUME Listed(n), NEW S \in SUBSET Pointers, head \in S, FollowsNext(S)
               PROVE  Meets(S)'
    BY <2>1 DEF FindInv, FollowsNext
  <2>2. PICK i \in 1..Len(list) : name[list[i]] = n
    BY DEF Listed, ToSet
  <2>3. list[i] \in S
    BY HeadLeadsToAll
  <2>4. QED
    BY <2>1, <2>2, <2>3 DEF Meets
<1>9. CASE WalkStep
  <2>1. /\ rd.cur # NULL /\ name[rd.cur] # rd.name
        /\ rd' = [rd EXCEPT !.cur = next[rd.cur]]
        /\ UNCHANGED <<next, name, list>>
    BY <1>9 DEF WalkStep, heapVars
  <2>2. /\ rd'.at = rd.at /\ rd'.there = rd.there /\ rd'.shaken = rd.shaken
        /\ rd'.name = rd.name /\ rd'.cur = next[rd.cur] /\ rd.cur \in Pointers
    BY <2>1 DEF WalkInv, Walks
  <2> SUFFICES ASSUME rd.at = "walk", rd.there, ~rd.shaken,
                      NEW S \in SUBSET Pointers, next[rd.cur] \in S, FollowsNext(S)
               PROVE  Meets(S)'
    BY <2>1, <2>2 DEF FindInv, FollowsNext
  <2>3. FollowsNext(S \cup {rd.cur})
    BY DEF FollowsNext
  <2>4. PICK i \in 1..Len(list) : list[i] \in S \cup {rd.cur} /\ name[list[i]] = rd.name
    BY <2>2, <2>3 DEF FindInv, Meets
  <2>5. QED
    BY <2>1, <2>2, <2>4 DEF Meets
<1>10. CASE WalkFinds \/ WalkOver
  <2>1. rd'.at # "walk"
    BY <1>10 DEF WalkFinds, WalkOver, NoWalk, WalkInv, Walks
  <2>2. QED
    BY <2>1 DEF FindInv
<1>11. QED
  BY <1>2, <1>3, <1>4, <1>5, <1>6, <1>7, <1>8, <1>9, <1>10 DEF Next, Work, Walk

(***************************************************************************)
(* The thread's walk finds the entry it looks for when that entry is in    *)
(* the list throughout and no inner node goes meanwhile, whatever is added *)
(* behind it and whichever heads go, the one it stands on among them.      *)
(***************************************************************************)
THEOREM ReaderFindsCorrect ==
  ASSUME TwoAtMost
  PROVE  Spec => []ReaderFinds
<1> DEFINE Inv == ListInv /\ WalkInv /\ FindInv
<1>1. Init => Inv
  <2>1. Init => rd = NoWalk
    BY DEF Init
  <2>2. Init => FindInv
    BY <2>1 DEF NoWalk, FindInv
  <2>3. QED
    BY <2>2, ListInvStarts, WalkInvStarts
<1>2. Inv /\ [Next]_vars => Inv'
  BY ListInvKept, WalkInvKept, FindInvKept
<1>3. Inv => ReaderFinds
  <2> SUFFICES ASSUME ListInv, FindInv, rd.at = "walk", rd.cur = NULL, ~rd.shaken, rd.there
               PROVE  FALSE
    BY DEF ReaderFinds
  <2>1. Meets({NULL})
    BY DEF FindInv, FollowsNext, Pointers
  <2>2. QED
    BY <2>1, ListShape, NullAssumption DEF Meets, ListInv, HeapTypes
<1>4. QED
  BY <1>1, <1>2, <1>3, PTL DEF Spec

-----------------------------------------------------------------------------
(* The functions of a list implement EntryList, with the names of list as its entries *)

\* The names of the entries, in the order of the list.
EntryNames == [i \in 1..Len(list) |-> name[list[i]]]

Sequence == INSTANCE EntryList WITH entries <- EntryNames

\* No entry has the name.
NoneNamed(n) == \A k \in 1..Len(list) : name[list[k]] # n

(***************************************************************************)
(* What the functions know of names: get_*_node has passed no entry of the *)
(* name, what addSPD_entry goes on to create has a name no entry has, and  *)
(* the new node that is not linked yet has that name.                      *)
(***************************************************************************)
NamesKnown ==
  /\ op.at # "idle" => op.name \in Names
  /\ op.at = "append" => name[op.prev] = op.name
  /\ kind = "spd" /\ op.at \in {"create", "append"} => NoneNamed(op.name)
  /\ op.at = "find" =>
       /\ op.cur = NULL => NoneNamed(op.name)
       /\ op.cur # NULL => \E i \in 1..Len(list) :
                             /\ op.cur = list[i]
                             /\ \A k \in 1..i - 1 : name[list[k]] # op.name

SeqInv == ListInv /\ NamesKnown

\* What a list l of chunks with the names nm amounts to.
LEMMA NamesShape ==
  ASSUME NEW l \in Seq(Chunks), NEW nm \in [Chunks -> Names \cup {NULL}],
         NEW e, e = [i \in 1..Len(l) |-> nm[l[i]]]
  PROVE  /\ e \in Seq(Names \cup {NULL})
         /\ Len(e) = Len(l)
         /\ \A i \in 1..Len(l) : e[i] = nm[l[i]]
<1>1. Len(l) \in Nat /\ \A i \in 1..Len(l) : l[i] \in Chunks
  BY LenProperties, ElementOfSeq
<1>2. \A i \in 1..Len(l) : nm[l[i]] \in Names \cup {NULL}
  BY <1>1
<1>3. e \in Seq(Names \cup {NULL})
  BY <1>1, <1>2, IsASeq
<1>4. Len(e) = Len(l)
  BY <1>1, <1>3, LenProperties
<1>5. QED
  BY <1>3, <1>4

\* What the search has passed has other names.
LEMMA NamesKnownKept ==
  ASSUME SeqInv, [Next]_vars
  PROVE  NamesKnown'
<1>0. op \in Ops /\ list \in Seq(Chunks) /\ kind \in {"sad", "spd"}
  BY DEF SeqInv, ListInv, HeapTypes
<1>1. ASSUME op'.at = "unlink", op'.name \in Names
      PROVE  NamesKnown'
  BY <1>1 DEF NamesKnown
<1>2. ASSUME op' = NoOp
      PROVE  NamesKnown'
  BY <1>2 DEF NamesKnown, NoOp
<1>3. CASE FindStep
  <2>1. /\ op.at = "find" /\ op.cur # NULL /\ name[op.cur] # op.name
        /\ op' = [op EXCEPT !.cur = next[op.cur]]
        /\ UNCHANGED <<name, list>>
    BY <1>3 DEF FindStep, heapVars
  <2>2. op'.at = "find" /\ op'.cur = next[op.cur] /\ op'.name = op.name /\ op.name \in Names
    BY <1>0, <2>1 DEF Ops, SeqInv, NamesKnown
  <2>3. PICK i \in 1..Len(list) : /\ op.cur = list[i]
                                  /\ \A k \in 1..i - 1 : name[list[k]] # op.name
    BY <2>1 DEF SeqInv, NamesKnown
  <2>4. Len(list) \in Nat /\ \A k \in 1..Len(list) : list[k] \in Chunks
    BY <1>0, ListShape
  <2>5. \A k \in 1..i : name[list[k]] # op.name
    <3>1. \A k \in 1..i : k = i \/ k \in 1..i - 1
      BY <2>4
    <3>2. QED
      BY <2>1, <2>3, <3>1
  <2>6. CASE next[list[i]] = NULL
    <3>1. i = Len(list)
      <4> SUFFICES ASSUME i # Len(list) PROVE FALSE
        OBVIOUS
      <4>1. i + 1 \in 1..Len(list) /\ next[list[i]] = list[i + 1]
        BY <2>4, StrictlyBelowTop DEF SeqInv, ListInv, Represents
      <4>2. QED
        BY <2>4, <2>6, <4>1, NullAssumption
    <3>2. QED
      BY <2>1, <2>2, <2>3, <2>5, <2>6, <3>1 DEF NamesKnown, NoneNamed
  <2>7. CASE next[list[i]] # NULL
    <3>1. i + 1 \in 1..Len(list) /\ next[list[i]] = list[i + 1] /\ i + 1 - 1 = i
      BY <2>4, <2>7, Successor DEF SeqInv
    <3>2. \E j \in 1..Len(list) : /\ op'.cur = list[j]
                                  /\ \A k \in 1..j - 1 : name[list[k]] # op.name
      BY <2>2, <2>3, <2>5, <3>1
    <3>3. QED
      BY <2>1, <2>2, <2>3, <2>7, <3>2 DEF NamesKnown
  <2>8. QED
    BY <2>6, <2>7
<1>4. CASE FindExisting \/ FindNothing
  <2>1. CASE FindNothing /\ op.goal = "add"
    <3>1. /\ op.at = "find" /\ op.cur = NULL /\ op' = [op EXCEPT !.at = "create"]
          /\ UNCHANGED <<name, list>>
      BY <2>1 DEF FindNothing, heapVars
    <3>2. op'.at = "create" /\ op'.name = op.name /\ op.name \in Names /\ NoneNamed(op.name)
      BY <1>0, <3>1 DEF Ops, SeqInv, NamesKnown
    <3>3. QED
      BY <3>1, <3>2 DEF NamesKnown, NoneNamed
  <2>2. QED
    BY <1>2, <1>4, <2>1 DEF FindExisting, FindNothing
<1>5. ASSUME NEW c \in Chunks, FindForRemoval(c) PROVE NamesKnown'
  BY <1>0, <1>1, <1>5 DEF FindForRemoval, Ops, SeqInv, NamesKnown
<1>6. ASSUME NEW c \in Chunks, CreateNode(c) PROVE NamesKnown'
  <2>1. op.name \in Names /\ name' = [name EXCEPT ![c] = op.name]
    BY <1>6 DEF CreateNode, SeqInv, NamesKnown
  <2>2. CASE head = NULL
    BY <1>2, <1>6, <2>2 DEF CreateNode
  <2>3. CASE head # NULL
    <3>1. op'.at = "append" /\ op'.prev = c /\ op'.name = op.name
      BY <1>0, <1>6, <2>3 DEF CreateNode, Ops
    <3>2. name'[c] = op.name
      BY <2>1 DEF SeqInv, ListInv, HeapTypes
    <3>3. kind' = "spd" => NoneNamed(op.name)'
      <4> SUFFICES ASSUME kind = "spd", NEW k \in 1..Len(list)
                   PROVE  name'[list[k]] # op.name
        <5>1. UNCHANGED <<kind, list>>
          BY <1>6, <2>3 DEF CreateNode, aside
        <5>2. QED
          BY <1>0, <3>1, <5>1 DEF NoneNamed
      <4>1. list[k] # c /\ list[k] \in Chunks
        BY <1>0, <1>6, ListShape DEF CreateNode, Create, SeqInv, ListInv, Represents
      <4>2. name[list[k]] # op.name
        BY <1>6 DEF CreateNode, SeqInv, NamesKnown, NoneNamed
      <4>3. QED
        BY <2>1, <4>1, <4>2 DEF SeqInv, ListInv, HeapTypes
    <3>4. QED
      BY <2>1, <3>1, <3>2, <3>3 DEF NamesKnown
  <2>4. QED
    BY <2>2, <2>3
<1>7. CASE AppendStep
  <2>1. /\ op'.at = "append" /\ op'.prev = op.prev /\ op'.name = op.name /\ op.at = "append"
        /\ UNCHANGED <<kind, name, list>>
    BY <1>0, <1>7 DEF AppendStep, Ops, heapVars, aside
  <2>2. QED
    BY <2>1 DEF SeqInv, NamesKnown, NoneNamed
<1>8. CASE UnlinkStep
  BY <1>0, <1>1, <1>8 DEF UnlinkStep, Ops, SeqInv, NamesKnown
<1>9. CASE AppendLink \/ UnlinkHead \/ UnlinkInner
  BY <1>2, <1>9 DEF AppendLink, UnlinkHead, UnlinkInner
<1>10. ASSUME NEW n \in Names, op'.at = "find", op'.name = n, op'.cur = head,
              UNCHANGED <<name, list>>
       PROVE  NamesKnown'
  <2>1. /\ head = NULL <=> Len(list) = 0
        /\ head # NULL => 1 \in 1..Len(list) /\ head = list[1]
        /\ 1..1 - 1 = {} /\ 1..0 = {}
    BY HeadOfList DEF SeqInv
  <2>2. QED
    BY <1>10, <2>1 DEF NamesKnown, NoneNamed
<1>11. ASSUME NEW n \in Names, AddEntry(n) \/ RemoveEntry(n) PROVE NamesKnown'
  <2>1. CASE kind = "sad" /\ AddEntry(n)
    <3>1. op'.at = "create" /\ op'.name = n /\ kind' # "spd"
      BY <2>1 DEF AddEntry, aside
    <3>2. QED
      BY <3>1 DEF NamesKnown
  <2>2. CASE kind = "spd" \/ RemoveEntry(n)
    BY <1>0, <1>10, <1>11, <2>2 DEF AddEntry, RemoveEntry, heapVars
  <2>3. QED
    BY <1>0, <1>11, <2>1, <2>2
<1>12. CASE Walk \/ (\E n \in Sought : WalkStart(n)) \/ UNCHANGED vars
  <2>1. UNCHANGED <<kind, name, op, list>>
    BY <1>12 DEF Walk, WalkStep, WalkFinds, WalkOver, WalkStart, vars, heapVars
  <2>2. QED
    BY <2>1 DEF SeqInv, NamesKnown, NoneNamed
<1>13. QED
  BY <1>3, <1>4, <1>5, <1>6, <1>7, <1>8, <1>9, <1>11, <1>12 DEF Next, Work

\* Steps that are none of the sequence's.
LEMMA Stutters ==
  ASSUME SeqInv, UNCHANGED <<kind, list, ret>>,
         \A i \in 1..Len(list) : name'[list[i]] = name[list[i]]
  PROVE  UNCHANGED Sequence!listVars
BY DEF Sequence!listVars, EntryNames

\* A node is linked behind the others.
LEMMA AppendAddsName ==
  ASSUME SeqInv, SeqInv', op.name \in Names, kind' = kind,
         op.at \in {"create", "append"},
         NEW c \in Chunks, list' = Append(list, c), name'[c] = op.name,
         \A i \in 1..Len(list) : name'[list[i]] = name[list[i]],
         ret' = Returned(op.name, "ok")
  PROVE  Sequence!AddName(op.name)
<1>0. list \in Seq(Chunks) /\ name \in [Chunks -> Names \cup {NULL}] /\ Len(list) \in Nat
  BY ListShape DEF SeqInv, ListInv, HeapTypes
<1>1. /\ EntryNames \in Seq(Names \cup {NULL}) /\ Len(EntryNames) = Len(list)
      /\ \A i \in 1..Len(list) : EntryNames[i] = name[list[i]]
  BY <1>0, NamesShape DEF EntryNames
<1>2. /\ list' \in Seq(Chunks) /\ Len(list') = Len(list) + 1
      /\ \A i \in 1..Len(list) : list'[i] = list[i]
      /\ list'[Len(list) + 1] = c
  BY <1>0, Appended
<1>3. /\ EntryNames' \in Seq(Names \cup {NULL}) /\ Len(EntryNames') = Len(list')
      /\ \A i \in 1..Len(list') : EntryNames'[i] = name'[list'[i]]
  <2>1. name' \in [Chunks -> Names \cup {NULL}]
    BY DEF SeqInv, ListInv, HeapTypes
  <2>2. QED
    BY <1>2, <2>1, NamesShape DEF EntryNames
<1> DEFINE s == Append(EntryNames, op.name)
<1>4. /\ s \in Seq(Names \cup {NULL}) /\ Len(s) = Len(list) + 1
      /\ \A i \in 1..Len(list) : s[i] = EntryNames[i]
      /\ s[Len(list) + 1] = op.name
  BY <1>1, AppendProperties
<1> HIDE DEF s
<1>5. \A i \in 1..Len(list) + 1 : EntryNames'[i] = s[i]
  <2> SUFFICES ASSUME NEW i \in 1..Len(list) + 1
               PROVE  EntryNames'[i] = s[i]
    OBVIOUS
  <2>1. EntryNames'[i] = name'[list'[i]]
    BY <1>2, <1>3
  <2>2. CASE i \in 1..Len(list)
    <3>1. list'[i] = list[i] /\ s[i] = EntryNames[i] /\ EntryNames[i] = name[list[i]]
      BY <1>1, <1>2, <1>4, <2>2
    <3>2. name'[list[i]] = name[list[i]]
      BY <2>2
    <3>3. QED
      BY <2>1, <3>1, <3>2
  <2>3. CASE i = Len(list) + 1
    <3>1. list'[i] = c /\ s[i] = op.name
      BY <1>2, <1>4, <2>3
    <3>2. QED
      BY <2>1, <3>1
  <2>4. QED
    BY <1>0, <2>2, <2>3
<1>6. EntryNames' = s
  BY <1>2, <1>3, <1>4, <1>5, SeqEqual
<1>7. kind = "spd" => op.name \notin Sequence!ToSet(EntryNames)
  BY <1>1 DEF Sequence!ToSet, SeqInv, NamesKnown, NoneNamed
<1>8. QED
  BY <1>6, <1>7 DEF Sequence!AddName, Sequence!Returned, Returned, s

\* A node is unlinked: it was the first under its name.
LEMMA UnlinkRemovesName ==
  ASSUME SeqInv, SeqInv', UnlinkHead \/ UnlinkInner
  PROVE  Sequence!RemoveName(op.name)
<1>1. /\ op.at = "unlink" /\ name[op.cur] = op.name
      /\ list' = Dropped(op.name) /\ ret' = Returned(op.name, "ok")
      /\ UNCHANGED <<kind, name>>
  BY DEF UnlinkHead, UnlinkInner
<1>2. PICK i \in 1..Len(list) : UnlinkAt(i)
  BY <1>1 DEF SeqInv, ListInv, OpKnows
<1>3. name[list[i]] = op.name /\ \A k \in 1..i - 1 : name[list[k]] # op.name
  BY <1>1, <1>2 DEF UnlinkAt
<1>4. list' = RemoveAt(list, i)
  BY <1>1, <1>2, <1>3, DroppedNode DEF SeqInv
<1>5. list \in Seq(Chunks) /\ name \in [Chunks -> Names \cup {NULL}] /\ Len(list) \in Nat
  BY ListShape DEF SeqInv, ListInv, HeapTypes
<1>6. /\ EntryNames \in Seq(Names \cup {NULL}) /\ Len(EntryNames) = Len(list)
      /\ \A k \in 1..Len(list) : EntryNames[k] = name[list[k]]
  BY <1>5, NamesShape DEF EntryNames
<1>7. RemoveFirst(EntryNames, op.name) = RemoveAt(EntryNames, i)
  <2> DEFINE I == {k \in 1..Len(EntryNames) : EntryNames[k] = op.name}
             g == SelectInSeq(EntryNames, LAMBDA v : v = op.name)
  <2>1. g = IF I # {} THEN Min(I) ELSE 0
    BY DEF SelectInSeq
  <2>2. i \in I /\ I \subseteq 1..Len(EntryNames) /\ \A k \in I : ~(k \in 1..i - 1)
    BY <1>3, <1>5, <1>6
  <2>3. RemoveFirst(EntryNames, op.name) = RemoveAt(EntryNames, g)
    BY <2>2 DEF RemoveFirst
  <2> HIDE DEF I, g
  <2>4. g \in 0..Len(EntryNames) /\ (g = 0 <=> I = {}) /\ (g # 0 => g \in I /\ \A k \in I : g <= k)
    BY <1>6, <2>1, <2>2, FirstIndex
  <2>5. g \in I /\ g <= i
    BY <2>2, <2>4
  <2>6. g = i
    BY <1>5, <1>6, <2>2, <2>5
  <2>7. QED
    BY <2>3, <2>6
<1> DEFINE s == RemoveAt(EntryNames, i)
<1>8. /\ s \in Seq(Names \cup {NULL}) /\ Len(s) = Len(list) - 1
      /\ \A k \in 1..Len(list) - 1 :
           s[k] = IF k < i THEN EntryNames[k] ELSE EntryNames[k + 1]
  BY <1>6, RemoveAtShifts
<1> HIDE DEF s
<1>9. /\ list' \in Seq(Chunks) /\ Len(list') = Len(list) - 1
      /\ \A k \in 1..Len(list) - 1 : list'[k] = IF k < i THEN list[k] ELSE list[k + 1]
  BY <1>4, <1>5, RemoveAtShifts
<1>10. /\ EntryNames' \in Seq(Names \cup {NULL}) /\ Len(EntryNames') = Len(list')
       /\ \A k \in 1..Len(list') : EntryNames'[k] = name[list'[k]]
  <2>1. name' \in [Chunks -> Names \cup {NULL}]
    BY DEF SeqInv, ListInv, HeapTypes
  <2>2. QED
    BY <1>1, <1>9, <2>1, NamesShape DEF EntryNames
<1>11. \A k \in 1..Len(list) - 1 : EntryNames'[k] = s[k]
  <2>1. \A k \in 1..Len(list) - 1 : k \in 1..Len(list) /\ k + 1 \in 1..Len(list)
    BY <1>5
  <2>2. QED
    BY <1>6, <1>8, <1>9, <1>10, <2>1
<1>12. EntryNames' = s
  BY <1>8, <1>9, <1>10, <1>11, SeqEqual
<1>13. op.name \in Sequence!ToSet(EntryNames)
  BY <1>3, <1>6 DEF Sequence!ToSet
<1>14. Sequence!RemoveFirst(EntryNames, op.name) = RemoveFirst(EntryNames, op.name)
  BY DEF Sequence!RemoveFirst, RemoveFirst, Sequence!RemoveAt, RemoveAt,
         Sequence!SelectInSeq, SelectInSeq, Sequence!Min, Min
<1>15. QED
  BY <1>1, <1>7, <1>12, <1>13, <1>14 DEF Sequence!RemoveName, Sequence!Returned, Returned, s

\* Every step is a step of the sequence or leaves it alone.
LEMMA NextRefines ==
  ASSUME SeqInv, SeqInv', [Next]_vars
  PROVE  [Sequence!ListNext]_Sequence!listVars
<1>0. /\ list \in Seq(Chunks) /\ name \in [Chunks -> Names \cup {NULL}]
      /\ \A i \in 1..Len(list) : list[i] \in Chunks /\ list[i] \in used
  BY ListShape DEF SeqInv, ListInv, HeapTypes, Represents
<1>1. CASE \/ FindStep \/ AppendStep \/ UnlinkStep \/ Walk
           \/ \E c \in Chunks : FindForRemoval(c)
           \/ \E n \in Names : AddEntry(n) \/ RemoveEntry(n)
           \/ \E n \in Sought : WalkStart(n)
           \/ UNCHANGED vars
  <2>1. UNCHANGED <<kind, name, list, ret>>
    BY <1>1 DEF FindStep, AppendStep, UnlinkStep, FindForRemoval, AddEntry, RemoveEntry,
       Walk, WalkStep, WalkFinds, WalkOver, WalkStart, aside, heapVars, vars
  <2>2. QED
    BY <2>1, Stutters
<1>2. CASE FindExisting \/ FindNothing
  <2>1. /\ op.at = "find" /\ op.name \in Names /\ UNCHANGED <<kind, name, list>>
        /\ op.goal # "remove" => kind = "spd"
    BY <1>2 DEF SeqInv, ListInv, OpKnows, NamesKnown, FindExisting, FindNothing, aside, heapVars
  <2>2. /\ Len(EntryNames) = Len(list)
        /\ \A i \in 1..Len(list) : EntryNames[i] = name[list[i]]
    BY <1>0, NamesShape DEF EntryNames
  <2>3. UNCHANGED EntryNames
    BY <2>1 DEF EntryNames
  <2>4. CASE FindExisting
    <3>1. kind = "spd" /\ InList(op.cur) /\ name[op.cur] = op.name
      BY <2>1, <2>4 DEF FindExisting, SeqInv, ListInv, OpKnows
    <3>2. op.name \in Sequence!ToSet(EntryNames)
      BY <2>2, <3>1 DEF Sequence!ToSet, InList
    <3>3. ret' = Returned(op.name, "ok")
      BY <2>4 DEF FindExisting
    <3>4. Sequence!AddExisting(op.name)
      BY <2>1, <2>3, <3>1, <3>2, <3>3 DEF Sequence!AddExisting, Sequence!Returned, Returned
    <3>5. QED
      BY <2>1, <3>4 DEF Sequence!ListNext
  <2>5. CASE FindNothing /\ op.goal = "add"
    <3>1. UNCHANGED ret
      BY <2>5 DEF FindNothing
    <3>2. QED
      BY <2>1, <3>1, Stutters
  <2>6. CASE FindNothing /\ op.goal # "add"
    <3>1. op.cur = NULL /\ ret' = Returned(op.name, "failed")
      BY <2>6 DEF FindNothing
    <3>2. op.name \notin Sequence!ToSet(EntryNames)
      BY <2>1, <2>2, <3>1 DEF Sequence!ToSet, SeqInv, NamesKnown, NoneNamed
    <3>3. Sequence!RemoveMissing(op.name)
      BY <2>1, <2>3, <3>1, <3>2 DEF Sequence!RemoveMissing, Sequence!Returned, Returned
    <3>4. QED
      BY <2>1, <3>3 DEF Sequence!ListNext
  <2>7. QED
    BY <1>2, <2>4, <2>5, <2>6
<1>3. ASSUME NEW c \in Chunks, CreateNode(c)
      PROVE  [Sequence!ListNext]_Sequence!listVars
  <2>1. /\ op.at = "create" /\ c \notin used
        /\ name' = [name EXCEPT ![c] = op.name] /\ kind' = kind
    BY <1>3 DEF CreateNode, Create, aside
  <2>2. /\ name'[c] = op.name
        /\ \A i \in 1..Len(list) : name'[list[i]] = name[list[i]]
    BY <1>0, <2>1
  <2>3. CASE head = NULL
    <3>1. list' = Append(list, c) /\ ret' = Returned(op.name, "ok") /\ op.name \in Names
      BY <1>3, <2>1, <2>3 DEF CreateNode, SeqInv, NamesKnown
    <3>2. QED
      BY <2>1, <2>2, <3>1, AppendAddsName DEF Sequence!ListNext
  <2>4. CASE head # NULL
    BY <1>3, <2>1, <2>2, <2>4, Stutters DEF CreateNode
  <2>5. QED
    BY <2>3, <2>4
<1>4. CASE AppendLink
  <2>1. /\ op.at = "append" /\ op.prev \in Chunks /\ list' = Append(list, op.prev)
        /\ ret' = Returned(op.name, "ok") /\ UNCHANGED <<kind, name>>
    BY <1>4 DEF AppendLink, aside, SeqInv, ListInv, HeapTypes, OpKnows, Loose
  <2>2. op.name \in Names /\ name'[op.prev] = op.name
    BY <2>1 DEF SeqInv, NamesKnown
  <2>3. QED
    BY <2>1, <2>2, AppendAddsName DEF Sequence!ListNext
<1>5. CASE UnlinkHead \/ UnlinkInner
  <2>1. op.name \in Names
    BY <1>5 DEF UnlinkHead, UnlinkInner, SeqInv, NamesKnown
  <2>2. QED
    BY <1>5, <2>1, UnlinkRemovesName DEF Sequence!ListNext
<1>6. QED
  BY <1>1, <1>2, <1>3, <1>4, <1>5 DEF Next, Work

-----------------------------------------------------------------------------
(* What is read off the pointers are the names of the entries *)

\* Entry k of NamesFrom as it follows from the others, which are in g.
Reading(g, k) ==
  [c \in Pointers |->
     IF c = NULL \/ k = 0 THEN << >> ELSE <<name[c]>> \o g[k - 1][next[c]]]

\* The recursive function of NamesFrom exists.
LEMMA ReadingExists ==
  ASSUME NEW n \in Nat
  PROVE  \E g : g = [k \in 0..n |-> Reading(g, k)]
<1> DEFINE Fits(g, m) == g = [k \in 0..m |-> Reading(g, k)]
           S == {m \in 1..n + 1 : \E g : Fits(g, m - 1)}
<1>1. 1 \in S
  <2> DEFINE g == [k \in 0..0 |-> [c \in Pointers |-> << >>]]
  <2>1. \A k \in 0..0 : Reading(g, k) = [c \in Pointers |-> << >>]
    <3>1. \A k \in 0..0 : k = 0
      OBVIOUS
    <3>2. QED
      BY <3>1 DEF Reading
  <2>2. Fits(g, 0)
    BY <2>1
  <2>3. 1 \in 1..n + 1 /\ 1 - 1 = 0
    OBVIOUS
  <2> HIDE DEF g, Fits
  <2>4. QED
    BY <2>2, <2>3
<1>2. ASSUME NEW m \in 1..n + 1 - 1, m \in S
      PROVE  m + 1 \in S
  <2>1. PICK g : Fits(g, m - 1)
    BY <1>2
  <2> DEFINE h == [k \in 0..m |-> IF k = m THEN Reading(g, k) ELSE g[k]]
  <2>2. ASSUME NEW k \in 0..m
        PROVE  h[k] = Reading(h, k)
    <3>1. k # 0 => k - 1 \in 0..m /\ k - 1 # m
      OBVIOUS
    <3>2. k # 0 => h[k - 1] = g[k - 1]
      BY <3>1
    <3>3. Reading(h, k) = Reading(g, k)
      <4> HIDE DEF h
      <4> QED BY <3>2 DEF Reading
    <3>4. k # m => k \in 0..m - 1
      OBVIOUS
    <3>5. k # m => g[k] = Reading(g, k)
      BY <2>1, <3>4
    <3>6. h[k] = IF k = m THEN Reading(g, k) ELSE g[k]
      OBVIOUS
    <3> HIDE DEF h
    <3>7. QED
      BY <3>3, <3>5, <3>6
  <2>3. Fits(h, m)
    <3>1. h = [k \in 0..m |-> h[k]]
      OBVIOUS
    <3> HIDE DEF h
    <3>2. QED
      BY <2>2, <3>1
  <2>4. m + 1 \in 1..n + 1 /\ m + 1 - 1 = m
    OBVIOUS
  <2> HIDE DEF h, Fits
  <2>5. QED
    BY <2>3, <2>4
<1>3. n + 1 \in S
  <2>1. n + 1 \in Nat /\ n + 1 \in 1..n + 1
    OBVIOUS
  <2> HIDE DEF S
  <2>2. \A m \in 1..n + 1 : m \in S
    BY <1>1, <1>2, <2>1, UpToTop
  <2>3. QED
    BY <2>1, <2>2
<1>4. \E g : Fits(g, n)
  <2>1. n + 1 - 1 = n
    OBVIOUS
  <2> HIDE DEF Fits
  <2>2. QED
    BY <1>3, <2>1
<1>5. QED
  BY <1>4, Zenon

\* And so it is what it is defined to be.
LEMMA ReadingFits ==
  ASSUME NEW k \in 0..Cardinality(Chunks), Cardinality(Chunks) \in Nat
  PROVE  NamesFrom[k] = Reading(NamesFrom, k)
<1> DEFINE Fits(g) == g = [i \in 0..Cardinality(Chunks) |-> Reading(g, i)]
           f == CHOOSE g : Fits(g)
<1>1. NamesFrom = f
  BY DEF NamesFrom, Reading
<1>2. \E g : Fits(g)
  BY ReadingExists
<1>3. Fits(f)
  <2> HIDE DEF Fits
  <2> QED BY <1>2
<1> HIDE DEF f
<1>4. f[k] = Reading(f, k)
  BY <1>3
<1>5. QED
  BY <1>1, <1>4

\* One name before a sequence of names.
LEMMA NameBefore ==
  ASSUME NEW T, NEW x \in T, NEW m \in Nat, NEW z \in Seq(T), Len(z) = m
  PROVE  /\ <<x>> \o z \in Seq(T)
         /\ Len(<<x>> \o z) = m + 1
         /\ (<<x>> \o z)[1] = x
         /\ \A i \in 1..m : (<<x>> \o z)[i + 1] = z[i]
<1>1. <<x>> \in Seq(T) /\ Len(<<x>>) = 1 /\ <<x>>[1] = x
  OBVIOUS
<1> DEFINE s == <<x>>
<1> HIDE DEF s
<1>2. s \in Seq(T) /\ Len(s) = 1 /\ s[1] = x
  BY <1>1 DEF s
<1>3. /\ s \o z \in Seq(T) /\ Len(s \o z) = 1 + m
      /\ \A i \in 1..1 + m : (s \o z)[i] = IF i <= 1 THEN s[i] ELSE z[i - 1]
  <2>1. /\ s \o z \in Seq(T) /\ Len(s \o z) = Len(s) + Len(z)
        /\ \A i \in 1..Len(s) + Len(z) :
             (s \o z)[i] = IF i <= Len(s) THEN s[i] ELSE z[i - Len(s)]
    BY <1>2, ConcatProperties
  <2>2. QED
    BY <1>2, <2>1
<1>4. (s \o z)[1] = x
  <2>1. 1 \in 1..1 + m /\ 1 <= 1
    OBVIOUS
  <2>2. QED
    BY <1>2, <1>3, <2>1
<1>5. ASSUME NEW i \in 1..m
      PROVE  (s \o z)[i + 1] = z[i]
  <2>1. i + 1 \in 1..1 + m /\ ~(i + 1 <= 1) /\ i + 1 - 1 = i
    OBVIOUS
  <2>2. QED
    BY <1>3, <2>1
<1>6. 1 + m = m + 1
  OBVIOUS
<1>7. QED
  BY <1>3, <1>4, <1>5, <1>6 DEF s

\* There are no more entries than chunks.
LEMMA EntriesFitHeap ==
  ASSUME NEW l \in Seq(Chunks), \A i, j \in 1..Len(l) : l[i] = l[j] => i = j
  PROVE  Len(l) <= Cardinality(Chunks) /\ Cardinality(Chunks) \in Nat
<1>1. Len(l) \in Nat /\ l \in [1..Len(l) -> Chunks]
  BY LenProperties
<1>2. Cardinality(Chunks) \in Nat
  BY HeapAssumption, FS_CardinalityType
<1>3. IsFiniteSet(1..Len(l)) /\ Cardinality(1..Len(l)) = Len(l)
  BY <1>1, FS_Interval
<1>4. SUFFICES ASSUME Cardinality(Chunks) < Len(l) PROVE FALSE
  BY <1>1, <1>2
<1>5. \E i, j \in 1..Len(l) : i # j /\ l[i] = l[j]
  BY <1>1, <1>3, <1>4, HeapAssumption, FS_PigeonHole
<1>6. QED
  BY <1>5

\* Following next from the head gives the names of the entries.
LEMMA PointersGiveNames ==
  ASSUME ListInv
  PROVE  NamesFrom[Cardinality(Chunks)][head] = EntryNames
<1> DEFINE f == NamesFrom
           n == Cardinality(Chunks)
           N == Len(list)
           T == Names \cup {NULL}
<1>1. /\ N \in Nat /\ list \in Seq(Chunks)
      /\ \A i \in 1..N : list[i] \in Chunks /\ list[i] # NULL /\ name[list[i]] \in T
  BY ListShape, NullAssumption DEF ListInv, HeapTypes
<1>2. n \in Nat /\ N <= n
  BY <1>1, EntriesFitHeap DEF ListInv, Represents
<1>3. /\ EntryNames \in Seq(T) /\ Len(EntryNames) = N
      /\ \A i \in 1..N : EntryNames[i] = name[list[i]]
  BY NamesShape DEF EntryNames, ListInv, HeapTypes
<1>4. /\ head = IF N = 0 THEN NULL ELSE list[1]
      /\ \A i \in 1..N : next[list[i]] = IF i = N THEN NULL ELSE list[i + 1]
  BY ListShape DEF ListInv, HeapTypes, Represents
<1>5. ASSUME NEW k \in 0..n, NEW c \in Pointers
      PROVE  /\ c = NULL \/ k = 0 => f[k][c] = << >>
             /\ c # NULL /\ k # 0 => f[k][c] = <<name[c]>> \o f[k - 1][next[c]]
  <2>1. NamesFrom[k] = Reading(NamesFrom, k)
    BY <1>2, ReadingFits
  <2>2. QED
    BY <2>1 DEF Reading
<1> HIDE DEF f, n
<1>6. \A k \in 0..n : f[k][NULL] = << >>
  BY <1>5 DEF Pointers
<1>7. CASE N = 0
  <2>1. EntryNames = << >>
    BY <1>3, <1>7, EmptySeq
  <2>2. n \in 0..n
    BY <1>2
  <2>3. QED
    BY <1>4, <1>6, <1>7, <2>1, <2>2 DEF f, n
<1>8. CASE N # 0
  <2> DEFINE IsRest(m, z) == /\ z \in Seq(T) /\ Len(z) = m
                             /\ \A i \in 1..m : z[i] = EntryNames[N - m + i]
             S == {m \in 1..N : \A k \in m..n : IsRest(m, f[k][list[N - m + 1]])}
  <2>1. 1 \in S
    <3> SUFFICES ASSUME NEW k \in 1..n PROVE IsRest(1, f[k][list[N - 1 + 1]])
      <4>1. 1 \in 1..N
        BY <1>1, <1>8
      <4> HIDE DEF IsRest
      <4>2. QED
        BY <4>1
    <3>1. N - 1 + 1 = N /\ N \in 1..N /\ k \in 0..n /\ k - 1 \in 0..n /\ k # 0
      BY <1>1, <1>2, <1>8
    <3>2. f[k][list[N]] = <<name[list[N]]>> \o << >>
      <4>1. list[N] \in Pointers /\ list[N] # NULL /\ next[list[N]] = NULL
        BY <1>1, <1>4, <3>1 DEF Pointers
      <4>2. f[k][list[N]] = <<name[list[N]]>> \o f[k - 1][next[list[N]]]
        BY <1>5, <3>1, <4>1
      <4>3. QED
        BY <1>6, <3>1, <4>1, <4>2
    <3>3. << >> \in Seq(T) /\ Len(<< >>) = 0
      BY EmptySeq
    <3>4. /\ f[k][list[N]] \in Seq(T) /\ Len(f[k][list[N]]) = 0 + 1
          /\ f[k][list[N]][1] = name[list[N]]
      <4>1. name[list[N]] \in T /\ 0 \in Nat
        BY <1>1, <3>1
      <4> HIDE DEF T, N
      <4>2. QED
        BY <3>2, <3>3, <4>1, NameBefore
    <3>5. \A i \in 1..1 : i = 1 /\ N - 1 + i = N
      BY <1>1
    <3>6. EntryNames[N] = name[list[N]]
      BY <1>3, <3>1
    <3> HIDE DEF N, T
    <3>7. QED
      BY <3>1, <3>4, <3>5, <3>6
  <2>2. ASSUME NEW m \in 1..N - 1, m \in S
        PROVE  m + 1 \in S
    <3> SUFFICES ASSUME NEW k \in m + 1..n
                 PROVE  IsRest(m + 1, f[k][list[N - (m + 1) + 1]])
      <4>1. m + 1 \in 1..N
        BY <1>1
      <4> HIDE DEF IsRest, N
      <4>2. QED
        BY <4>1
    <3> DEFINE i == N - m
               z == f[k - 1][list[i + 1]]
    <3>1. /\ N - (m + 1) + 1 = i /\ i \in 1..N /\ i # N /\ i + 1 = N - m + 1
          /\ k \in 0..n /\ k # 0 /\ k - 1 \in m..n /\ k - 1 \in 0..n
      BY <1>1, <1>2
    <3>2. IsRest(m, z)
      BY <2>2, <3>1
    <3> HIDE DEF i
    <3>3. f[k][list[i]] = <<name[list[i]]>> \o z
      <4>1. list[i] \in Pointers /\ list[i] # NULL /\ next[list[i]] = list[i + 1]
        BY <1>1, <1>4, <3>1 DEF Pointers
      <4>2. f[k][list[i]] = <<name[list[i]]>> \o f[k - 1][next[list[i]]]
        BY <1>5, <3>1, <4>1
      <4>3. QED
        BY <4>1, <4>2
    <3> HIDE DEF z
    <3>4. /\ f[k][list[i]] \in Seq(T) /\ Len(f[k][list[i]]) = m + 1
          /\ f[k][list[i]][1] = name[list[i]]
          /\ \A j \in 1..m : f[k][list[i]][j + 1] = z[j]
      <4>1. m \in Nat /\ name[list[i]] \in T
        BY <1>1, <3>1
      <4> HIDE DEF T
      <4>2. QED
        BY <3>2, <3>3, <4>1, NameBefore
    <3>5. ASSUME NEW j \in 1..m + 1
          PROVE  f[k][list[i]][j] = EntryNames[N - (m + 1) + j]
      <4>1. CASE j = 1
        <5>1. N - (m + 1) + j = i
          BY <3>1, <4>1
        <5>2. QED
          BY <1>3, <3>1, <3>4, <4>1, <5>1
      <4>2. CASE j # 1
        <5>1. j - 1 \in 1..m /\ j - 1 + 1 = j /\ N - m + (j - 1) = N - (m + 1) + j
          BY <1>1, <4>2
        <5>2. f[k][list[i]][j - 1 + 1] = z[j - 1]
          BY <3>4, <5>1
        <5>3. z[j - 1] = EntryNames[N - m + (j - 1)]
          BY <3>2, <5>1
        <5>4. QED
          BY <5>1, <5>2, <5>3
      <4>3. QED
        BY <4>1, <4>2
    <3>6. QED
      BY <3>1, <3>4, <3>5
  <2>3. N \in S
    <3> HIDE DEF S
    <3>1. N \in 1..N
      BY <1>1, <1>8
    <3>2. QED
      BY <1>1, <1>8, <2>1, <2>2, <3>1, UpToTop
  <2>4. N \in 1..N /\ n \in N..n /\ N - N + 1 = 1 /\ \A i \in 1..N : N - N + i = i
    BY <1>1, <1>2, <1>8
  <2>5. IsRest(N, f[n][list[1]])
    <3>1. IsRest(N, f[n][list[N - N + 1]])
      BY <2>3, <2>4
    <3>2. QED
      BY <2>4, <3>1
  <2>6. f[n][list[1]] = EntryNames
    <3> HIDE DEF N, T
    <3>1. f[n][list[1]] \in Seq(T) /\ Len(f[n][list[1]]) = N
      BY <2>5
    <3>2. \A i \in 1..N : f[n][list[1]][i] = EntryNames[i]
      BY <2>4, <2>5
    <3>3. QED
      BY <1>3, <3>1, <3>2, SeqEqual
  <2>7. QED
    BY <1>4, <1>8, <2>6 DEF f, n
<1>9. QED
  BY <1>7, <1>8

\* So a step of the names is a step of what is read off the pointers.
LEMMA ReadStep ==
  ASSUME EntryNames = NamesFrom[Cardinality(Chunks)][head],
         (EntryNames = NamesFrom[Cardinality(Chunks)][head])',
         [Sequence!ListNext]_Sequence!listVars
  PROVE  [Abstract!ListNext]_Abstract!listVars
<1>1. CASE UNCHANGED Sequence!listVars
  BY <1>1 DEF Sequence!listVars, Abstract!listVars
<1>2. ASSUME NEW n \in Names, Sequence!AddName(n)
      PROVE  Abstract!AddName(n)
  BY <1>2 DEF Sequence!AddName, Sequence!Returned, Sequence!ToSet,
              Abstract!AddName, Abstract!Returned, Abstract!ToSet
<1>3. ASSUME NEW n \in Names, Sequence!AddExisting(n)
      PROVE  Abstract!AddExisting(n)
  BY <1>3 DEF Sequence!AddExisting, Sequence!Returned, Sequence!ToSet,
              Abstract!AddExisting, Abstract!Returned, Abstract!ToSet
<1>4. ASSUME NEW n \in Names, Sequence!RemoveName(n)
      PROVE  Abstract!RemoveName(n)
  <2>1. Sequence!RemoveFirst(EntryNames, n) = Abstract!RemoveFirst(EntryNames, n)
    BY DEF Sequence!RemoveFirst, Sequence!RemoveAt, Sequence!SelectInSeq, Sequence!Min,
           Abstract!RemoveFirst, Abstract!RemoveAt, Abstract!SelectInSeq, Abstract!Min
  <2>2. QED
    BY <1>4, <2>1 DEF Sequence!RemoveName, Sequence!Returned, Sequence!ToSet,
                      Abstract!RemoveName, Abstract!Returned, Abstract!ToSet
<1>5. ASSUME NEW n \in Names, Sequence!RemoveMissing(n)
      PROVE  Abstract!RemoveMissing(n)
  BY <1>5 DEF Sequence!RemoveMissing, Sequence!Returned, Sequence!ToSet,
              Abstract!RemoveMissing, Abstract!Returned, Abstract!ToSet
<1>6. QED
  BY <1>1, <1>2, <1>3, <1>4, <1>5 DEF Sequence!ListNext, Abstract!ListNext

(***************************************************************************)
(* The lists implement the sequence of names their callers rely on, the    *)
(* SPD list with up to two entries, the SAD list with any number, for      *)
(* every heap and every set of names: additions go behind the others, in   *)
(* the SPD only under a name that is not there, a removal takes the first  *)
(* entry of the name, and one that is not there is reported missing and is *)
(* missing at that moment.                                                 *)
(***************************************************************************)
THEOREM ImplementsEntryListCorrect ==
  ASSUME TwoAtMost
  PROVE  Spec => ImplementsEntryList
<1> DEFINE Reads == EntryNames = NamesFrom[Cardinality(Chunks)][head]
<1>1. Init => SeqInv
  <2>1. Init => NamesKnown
    BY DEF Init, NamesKnown, NoOp
  <2>2. QED
    BY <2>1, ListInvStarts DEF SeqInv
<1>2. SeqInv /\ [Next]_vars => SeqInv'
  BY ListInvKept, NamesKnownKept DEF SeqInv
<1>3. SeqInv => Reads
  BY PointersGiveNames DEF SeqInv
<1>4. Init /\ Reads => Abstract!ListInit
  <2> SUFFICES ASSUME Init, Reads PROVE Abstract!ListInit
    OBVIOUS
  <2>1. EntryNames = << >>
    BY DEF Init, EntryNames
  <2>2. QED
    BY <2>1, KindsAssumption
    DEF Init, Abstract!ListInit, Abstract!Nothing, Abstract!Returned, Returned
<1>5. SeqInv /\ SeqInv' /\ [Next]_vars => [Sequence!ListNext]_Sequence!listVars
  BY NextRefines
<1>6. Reads /\ Reads' /\ [Sequence!ListNext]_Sequence!listVars
        => [Abstract!ListNext]_Abstract!listVars
  BY ReadStep
<1> HIDE DEF Reads
<1>7. QED
  BY <1>1, <1>2, <1>3, <1>4, <1>5, <1>6, PTL DEF Spec, ImplementsEntryList, Abstract!ListSpec

-----------------------------------------------------------------------------
(***************************************************************************)
(* Types, of both lists.  The loops of add_*_node and del_*_node follow    *)
(* next without a look at NULL.  In the SPD list next may hold anything,   *)
(* but the search before a removal has gone the same way.                  *)
(***************************************************************************)
Closed(S) == \A c \in S : next[c] \in S \cup {NULL}

\* Whatever is reached from the head, the search is in it; and whatever is
\* reached from where the removal is, the name is in it.
PathKnows ==
  /\ op.at = "find" =>
       \A S \in SUBSET Chunks :
         Closed(S) /\ head \in S \cup {NULL} => op.cur \in S \cup {NULL}
  /\ op.at = "append" => op.prev \in Chunks
  /\ op.at = "unlink" =>
       \A S \in SUBSET Chunks :
         Closed(S) /\ op.cur \in S => \E c \in S : name[c] = op.name

PathInv ==
  /\ TypeOK
  /\ kind = "sad" => ListInv
  /\ kind = "spd" => PathKnows

\* A name taken out of the list leaves a list.
LEMMA DroppedType ==
  ASSUME list \in Seq(Chunks), NEW n
  PROVE  Dropped(n) \in Seq(Chunks)
<1> DEFINE I == {k \in 1..Len(list) : name[list[k]] = n}
           g == SelectInSeq(list, LAMBDA c : name[c] = n)
<1>1. g = IF I # {} THEN Min(I) ELSE 0
  BY DEF SelectInSeq
<1>2. I \subseteq 1..Len(list)
  OBVIOUS
<1>3. Dropped(n) = RemoveAt(list, g)
  BY DEF Dropped
<1> HIDE DEF I, g
<1>4. g \in 0..Len(list) /\ Len(list) \in Nat
  BY <1>1, <1>2, FirstIndex, ListShape
<1>5. CASE g = 0
  BY <1>3, <1>5, RemoveAtNowhere
<1>6. CASE g # 0
  BY <1>3, <1>4, <1>6, RemoveAtShifts
<1>7. QED
  BY <1>5, <1>6

\* A loop under way keeps what it knows of its path.
LEMMA PathKnowsKept ==
  ASSUME PathInv, kind = "spd", [Next]_vars
  PROVE  PathKnows'
<1>0. /\ PathKnows /\ op.cur \in Pointers /\ next \in [Chunks -> Pointers]
      /\ head \in Pointers /\ op.at \in {"append", "unlink"} => op.cur # NULL
      /\ op.at \in {"idle", "find", "create", "append", "unlink"}
  BY DEF PathInv, TypeOK
<1>1. CASE op'.at \in {"idle", "create"}
  BY <1>1 DEF PathKnows
<1>2. CASE UNCHANGED <<head, next, name, op>>
  BY <1>0, <1>2 DEF PathKnows, Closed
<1>3. ASSUME NEW n \in Names, AddEntry(n) \/ RemoveEntry(n)
      PROVE  PathKnows'
  <2>1. /\ op'.at \in {"idle", "find", "create"} /\ op'.cur = head /\ head' = head
    BY <1>3 DEF AddEntry, RemoveEntry
  <2>2. QED
    BY <2>1 DEF PathKnows
<1>4. CASE FindStep
  <2>1. /\ op.at = "find" /\ op.cur # NULL
        /\ op'.at = "find" /\ op'.cur = next[op.cur] /\ head' = head /\ next' = next
    BY <1>4 DEF FindStep, heapVars, PathInv, TypeOK
  <2>2. ASSUME NEW S \in SUBSET Chunks, Closed(S), head \in S \cup {NULL}
        PROVE  next[op.cur] \in S \cup {NULL}
    BY <1>0, <2>1, <2>2 DEF PathKnows, Closed
  <2>3. QED
    BY <2>1, <2>2 DEF PathKnows, Closed
<1>5. ASSUME NEW c \in Chunks, FindForRemoval(c)
      PROVE  PathKnows'
  <2>1. /\ op.at = "find" /\ op.cur # NULL /\ name[op.cur] = op.name
        /\ op'.at = "unlink" /\ op'.cur = head /\ op'.name = op.name
        /\ next' = next /\ name' = name
    BY <1>5 DEF FindForRemoval, NextAfterCreate, PathInv, TypeOK
  <2>2. ASSUME NEW S \in SUBSET Chunks, Closed(S), head \in S
        PROVE  op.cur \in S
    BY <1>0, <2>1, <2>2 DEF PathKnows
  <2>3. QED
    BY <2>1, <2>2 DEF PathKnows, Closed
<1>6. ASSUME NEW c \in Chunks, CreateNode(c)
      PROVE  PathKnows'
  <2>1. op' = NoOp \/ (op'.at = "append" /\ op'.prev = c)
    BY <1>6 DEF CreateNode, PathInv, TypeOK
  <2>2. QED
    BY <2>1 DEF PathKnows, NoOp
<1>7. CASE AppendStep
  <2>1. op.at = "append" /\ op'.at = "append" /\ op'.prev = op.prev
    BY <1>7 DEF AppendStep, PathInv, TypeOK
  <2>2. QED
    BY <1>0, <2>1 DEF PathKnows
<1>8. CASE UnlinkStep
  <2>1. /\ op.at = "unlink" /\ op.cur \in Chunks /\ name[op.cur] # op.name
        /\ op'.at = "unlink" /\ op'.cur = next[op.cur] /\ op'.name = op.name
        /\ next' = next /\ name' = name
    BY <1>0, <1>8 DEF UnlinkStep, heapVars, PathInv, TypeOK, Pointers
  <2>2. ASSUME NEW S \in SUBSET Chunks, Closed(S), next[op.cur] \in S
        PROVE  \E c \in S : name[c] = op.name
    <3>1. Closed(S \cup {op.cur}) /\ S \cup {op.cur} \in SUBSET Chunks
      BY <2>1, <2>2 DEF Closed
    <3>2. PICK c \in S \cup {op.cur} : name[c] = op.name
      BY <1>0, <2>1, <3>1 DEF PathKnows
    <3>3. QED
      BY <2>1, <3>2
  <2>3. QED
    BY <2>1, <2>2 DEF PathKnows, Closed
<1>9. CASE FindExisting \/ FindNothing \/ AppendLink \/ UnlinkHead \/ UnlinkInner
  <2>1. CASE FindNothing
    <3>1. op' = NoOp \/ op'.at = "create"
      BY <2>1 DEF FindNothing, PathInv, TypeOK
    <3>2. QED
      BY <1>1, <3>1 DEF NoOp
  <2>2. CASE FindExisting \/ AppendLink \/ UnlinkHead \/ UnlinkInner
    <3>1. op' = NoOp
      BY <2>2 DEF FindExisting, AppendLink, UnlinkHead, UnlinkInner
    <3>2. QED
      BY <1>1, <3>1 DEF NoOp
  <2>3. QED
    BY <1>9, <2>1, <2>2
<1>10. QED
  BY <1>2, <1>3, <1>4, <1>5, <1>6, <1>7, <1>8, <1>9
  DEF Next, Work, Walk, WalkStep, WalkFinds, WalkOver, WalkStart, heapVars, vars

\* A removal is never past the end of what it follows.
LEMMA LoopOnNode ==
  ASSUME PathInv, op.at = "unlink", name[op.cur] # op.name
  PROVE  next[op.cur] # NULL
<1>1. op.cur \in Chunks /\ kind \in {"sad", "spd"}
  BY KindsAssumption DEF PathInv, TypeOK, Pointers
<1>2. CASE kind = "sad"
  <2>1. ListInv
    BY <1>2 DEF PathInv
  <2>2. PICK i \in 1..Len(list) : UnlinkAt(i)
    BY <2>1 DEF ListInv, OpKnows
  <2>3. PICK j \in i..Len(list) : name[list[j]] = op.name
    BY <2>2 DEF UnlinkAt
  <2>4. /\ op.cur = list[i] /\ Len(list) \in Nat
        /\ \A k \in 1..Len(list) : list[k] \in Chunks
    BY <2>1, <2>2, ListShape DEF UnlinkAt, ListInv, HeapTypes
  <2>5. i # Len(list) /\ i + 1 \in 1..Len(list)
    BY <2>3, <2>4
  <2>6. next[list[i]] = list[i + 1]
    BY <2>1, <2>5 DEF ListInv, Represents
  <2>7. QED
    BY <2>4, <2>5, <2>6, NullAssumption
<1>3. CASE kind = "spd"
  <2> SUFFICES ASSUME next[op.cur] = NULL PROVE FALSE
    OBVIOUS
  <2>1. Closed({op.cur}) /\ {op.cur} \in SUBSET Chunks
    BY <1>1 DEF Closed
  <2>2. \E c \in {op.cur} : name[c] = op.name
    BY <1>3, <2>1 DEF PathInv, PathKnows
  <2>3. QED
    BY <2>2
<1>4. QED
  BY <1>1, <1>2, <1>3

\* The thread's walk keeps its types.
LEMMA WalkTypes ==
  ASSUME TypeOK, [Next]_vars
  PROVE  rd' \in Walks
<1>0. rd \in Walks /\ head \in Pointers /\ next \in [Chunks -> Pointers]
  BY DEF TypeOK, Walks
<1>1. ASSUME NEW freed \in BOOLEAN, rd' = WalkAfterRemoval(freed)
      PROVE  rd' \in Walks
  BY <1>0, <1>1 DEF WalkAfterRemoval, Walks
<1>2. CASE UnlinkHead \/ UnlinkInner
  BY <1>1, <1>2 DEF UnlinkHead, UnlinkInner
<1>3. ASSUME NEW n \in Sought, WalkStart(n)
      PROVE  rd' \in Walks
  BY <1>0, <1>3, SoughtAssumption DEF WalkStart, Walks, Listed
<1>4. CASE WalkStep
  <2>1. rd' = [rd EXCEPT !.cur = next[rd.cur]] /\ next[rd.cur] \in Pointers
    BY <1>0, <1>4 DEF WalkStep, Walks, Pointers
  <2>2. QED
    BY <1>0, <2>1 DEF Walks
<1>5. CASE WalkFinds
  BY <1>0, <1>5 DEF WalkFinds, Walks
<1>6. CASE WalkOver
  BY <1>6 DEF WalkOver, NoWalk, Walks, Pointers
<1>7. CASE UNCHANGED rd
  BY <1>0, <1>7
<1>8. QED
  BY <1>2, <1>3, <1>4, <1>5, <1>6, <1>7
  DEF Next, Work, Walk, FindStep, FindExisting, FindNothing, FindForRemoval, CreateNode,
      AppendStep, AppendLink, UnlinkStep, AddEntry, RemoveEntry, aside, vars

\* So do the list and the function under way.
LEMMA ListTypes ==
  ASSUME PathInv, Work \/ \E n \in Names : AddEntry(n) \/ RemoveEntry(n)
  PROVE  /\ head' \in Pointers
         /\ next' \in [Chunks -> Pointers]
         /\ name' \in [Chunks -> Names \cup {NULL}]
         /\ used' \subseteq Chunks
         /\ op' \in Ops
         /\ op'.at \in {"append", "unlink"} => op'.cur # NULL
         /\ ret' \in [name : Names \cup {NULL}, rc : {"ok", "failed"}]
         /\ list' \in Seq(Chunks)
<1>0. /\ head \in Pointers /\ next \in [Chunks -> Pointers]
      /\ name \in [Chunks -> Names \cup {NULL}] /\ used \subseteq Chunks
      /\ op \in Ops /\ list \in Seq(Chunks)
      /\ op.at \in {"append", "unlink"} => op.cur \in Chunks
      /\ ret \in [name : Names \cup {NULL}, rc : {"ok", "failed"}]
      /\ kind \in {"sad", "spd"}
  BY KindsAssumption DEF PathInv, TypeOK, Ops, Pointers
<1>1. NoOp \in Ops /\ NoOp.at = "idle"
  BY DEF NoOp, Ops, Pointers
<1>2. /\ Returned(op.name, "ok") \in [name : Names \cup {NULL}, rc : {"ok", "failed"}]
      /\ Returned(op.name, "failed") \in [name : Names \cup {NULL}, rc : {"ok", "failed"}]
  BY <1>0 DEF Returned, Ops
<1>3. ASSUME NEW n \in Names, AddEntry(n) \/ RemoveEntry(n)
      PROVE  op' \in Ops /\ op'.at \in {"find", "create"}
  BY <1>0, <1>3 DEF AddEntry, RemoveEntry, Ops, Pointers
<1>4. ASSUME NEW c \in Chunks
      PROVE  NextAfterCreate(c) \in [Chunks -> Pointers]
  BY <1>0 DEF NextAfterCreate, Pointers
<1>5. CASE \E n \in Names : AddEntry(n) \/ RemoveEntry(n)
  BY <1>0, <1>3, <1>5 DEF AddEntry, RemoveEntry, heapVars
<1>6. CASE FindStep
  <2>1. next[op.cur] \in Pointers
    BY <1>0, <1>6 DEF FindStep, Ops, Pointers
  <2>2. op' \in Ops /\ op'.at = "find"
    BY <1>0, <1>6, <2>1 DEF FindStep, Ops
  <2>3. QED
    BY <1>0, <1>6, <2>2 DEF FindStep, heapVars
<1>7. CASE FindExisting
  BY <1>0, <1>1, <1>2, <1>7 DEF FindExisting, heapVars
<1>8. CASE FindNothing
  <2>1. op' \in Ops /\ op'.at \in {"idle", "create"}
    BY <1>0, <1>1, <1>8 DEF FindNothing, Ops
  <2>2. QED
    BY <1>0, <1>2, <1>8, <2>1 DEF FindNothing, heapVars
<1>9. ASSUME NEW c \in Chunks, FindForRemoval(c)
      PROVE  op' \in Ops /\ op'.at = "unlink" /\ op'.cur # NULL
  <2>1. /\ op.at = "find" /\ op.cur # NULL /\ name[op.cur] = op.name
        /\ op' = [op EXCEPT !.at = "unlink", !.cur = head, !.prev = c]
    BY <1>9 DEF FindForRemoval
  <2>2. op' \in Ops /\ op'.at = "unlink" /\ op'.cur = head
    BY <1>0, <2>1 DEF Ops, Pointers
  <2>3. CASE kind = "sad"
    <3>1. InList(op.cur) /\ ListInv
      BY <2>1, <2>3 DEF PathInv, ListInv, OpKnows
    <3>2. Len(list) # 0
      BY <3>1, ListShape DEF InList, ListInv, HeapTypes
    <3>3. QED
      BY <2>2, <3>1, <3>2, HeadOfList
  <2>4. CASE kind = "spd"
    <3>1. Closed({})
      BY DEF Closed
    <3>2. head = NULL => op.cur \in {} \cup {NULL}
      BY <2>1, <2>4, <3>1 DEF PathInv, PathKnows
    <3>3. QED
      BY <2>1, <2>2, <3>2
  <2>5. QED
    BY <1>0, <2>3, <2>4
<1>10. CASE \E c \in Chunks : FindForRemoval(c)
  <2>1. PICK c \in Chunks : FindForRemoval(c)
    BY <1>10
  <2>2. /\ used' = used \cup {c} /\ next' = NextAfterCreate(c)
        /\ UNCHANGED <<head, name, ret, list>>
    BY <2>1 DEF FindForRemoval, Create
  <2>3. next' \in [Chunks -> Pointers] /\ used' \subseteq Chunks
    BY <1>0, <1>4, <2>2
  <2>4. op' \in Ops /\ op'.at = "unlink" /\ op'.cur # NULL
    BY <1>9, <2>1
  <2>5. QED
    BY <1>0, <2>2, <2>3, <2>4
<1>11. ASSUME NEW c \in Chunks, CreateNode(c), head = NULL
       PROVE  /\ head' = c /\ next' \in [Chunks -> Pointers] /\ op' = NoOp
              /\ ret' = Returned(op.name, "ok") /\ list' \in Seq(Chunks)
  <2>1. list' = Append(list, c) /\ next' = [next EXCEPT ![c] = NULL]
    BY <1>11 DEF CreateNode
  <2>2. list' \in Seq(Chunks)
    BY <1>0, <2>1, Appended
  <2>3. QED
    BY <1>0, <1>11, <2>1, <2>2 DEF CreateNode, Pointers
<1>12. ASSUME NEW c \in Chunks, CreateNode(c), head # NULL
       PROVE  /\ next' \in [Chunks -> Pointers] /\ UNCHANGED <<head, ret, list>>
              /\ op' \in Ops /\ op'.cur # NULL
  <2>1. /\ op' = [op EXCEPT !.at = "append", !.cur = head, !.prev = c]
        /\ next' = NextAfterCreate(c) /\ UNCHANGED <<head, ret, list>>
    BY <1>12 DEF CreateNode
  <2>2. op' \in Ops /\ op'.cur = head
    BY <1>0, <2>1 DEF Ops, Pointers
  <2>3. QED
    BY <1>4, <1>12, <2>1, <2>2
<1>13. CASE \E c \in Chunks : CreateNode(c)
  <2> SUFFICES ASSUME NEW c \in Chunks, CreateNode(c)
               PROVE  /\ head' \in Pointers
                      /\ next' \in [Chunks -> Pointers]
                      /\ name' \in [Chunks -> Names \cup {NULL}]
                      /\ used' \subseteq Chunks
                      /\ op' \in Ops
                      /\ op'.at \in {"append", "unlink"} => op'.cur # NULL
                      /\ ret' \in [name : Names \cup {NULL}, rc : {"ok", "failed"}]
                      /\ list' \in Seq(Chunks)
    BY <1>13
  <2>1. name' \in [Chunks -> Names \cup {NULL}] /\ used' \subseteq Chunks
    BY <1>0 DEF CreateNode, Create, Ops
  <2>2. CASE head = NULL
    BY <1>1, <1>2, <1>11, <2>1, <2>2 DEF Pointers
  <2>3. CASE head # NULL
    BY <1>0, <1>12, <2>1, <2>3
  <2>4. QED
    BY <2>2, <2>3
<1>14. CASE AppendStep
  <2>1. next[op.cur] \in Pointers /\ next[op.cur] # NULL
    BY <1>0, <1>14 DEF AppendStep
  <2>2. op' \in Ops /\ op'.cur = next[op.cur]
    BY <1>0, <1>14, <2>1 DEF AppendStep, Ops
  <2>3. QED
    BY <1>0, <1>14, <2>1, <2>2 DEF AppendStep, heapVars
<1>15. CASE AppendLink
  <2>1. op.at = "append" /\ op.prev \in Chunks
    <3>1. CASE kind = "sad"
      BY <1>0, <1>15, <3>1 DEF AppendLink, PathInv, ListInv, OpKnows, Loose
    <3>2. CASE kind = "spd"
      BY <1>15, <3>2 DEF AppendLink, PathInv, PathKnows
    <3>3. QED
      BY <1>0, <3>1, <3>2
  <2>2. list' = Append(list, op.prev) /\ next' = [next EXCEPT ![op.cur] = op.prev]
    BY <1>15 DEF AppendLink
  <2>3. list' \in Seq(Chunks) /\ next' \in [Chunks -> Pointers]
    BY <1>0, <2>1, <2>2, Appended DEF Pointers
  <2>4. QED
    BY <1>0, <1>1, <1>2, <1>15, <2>3 DEF AppendLink
<1>16. CASE UnlinkStep
  <2>1. /\ op.at = "unlink" /\ op.cur \in Chunks /\ name[op.cur] # op.name
        /\ op' = [op EXCEPT !.prev = op.cur, !.cur = next[op.cur]]
    BY <1>0, <1>16 DEF UnlinkStep
  <2>2. next[op.cur] \in Pointers /\ next[op.cur] # NULL
    BY <1>0, <2>1, LoopOnNode
  <2>3. op' \in Ops /\ op'.cur = next[op.cur]
    BY <1>0, <2>1, <2>2 DEF Ops, Pointers
  <2>4. QED
    BY <1>0, <1>16, <2>2, <2>3 DEF UnlinkStep, heapVars
<1>17. CASE UnlinkHead
  <2>1. list' \in Seq(Chunks) /\ next[head] \in Pointers /\ head' = next[head]
    BY <1>0, <1>17, DroppedType DEF UnlinkHead
  <2>2. QED
    BY <1>0, <1>1, <1>2, <1>17, <2>1 DEF UnlinkHead
<1>18. CASE UnlinkInner
  <2>1. /\ list' \in Seq(Chunks) /\ next[op.cur] \in Pointers
        /\ next' = [next EXCEPT ![op.prev] = next[op.cur]]
    BY <1>0, <1>18, DroppedType DEF UnlinkInner
  <2>2. next' \in [Chunks -> Pointers]
    BY <1>0, <2>1
  <2>3. QED
    BY <1>0, <1>1, <1>2, <1>18, <2>1, <2>2 DEF UnlinkInner
<1>19. QED
  BY <1>5, <1>6, <1>7, <1>8, <1>10, <1>13, <1>14, <1>15, <1>16, <1>17, <1>18 DEF Work

(***************************************************************************)
(* Types hold of both lists, and with them that no function follows a null *)
(* pointer: add_*_node has a head to start at, and del_*_node, which never *)
(* looks for NULL, comes to the node its caller has found, even where next *)
(* of an SPD node is garbage.                                              *)
(***************************************************************************)
THEOREM NodeListTypeCorrect == Spec => []TypeOK
<1>1. Init => PathInv
  <2> SUFFICES ASSUME Init PROVE PathInv
    OBVIOUS
  <2>1. list \in Seq(Chunks)
    BY EmptySeq DEF Init
  <2>2. TypeOK
    BY <2>1 DEF Init, TypeOK, NoOp, NoWalk, Returned, Pointers
  <2>3. PathKnows
    BY DEF Init, PathKnows, NoOp
  <2>4. QED
    BY <2>2, <2>3, EmptyListStarts DEF PathInv
<1>2. PathInv /\ [Next]_vars => PathInv'
  <2> SUFFICES ASSUME PathInv, [Next]_vars PROVE PathInv'
    OBVIOUS
  <2>1. kind' = kind
    BY DEF Next, Work, Walk, FindStep, FindExisting, FindNothing, FindForRemoval, CreateNode,
           AppendStep, AppendLink, UnlinkStep, UnlinkHead, UnlinkInner, AddEntry,
           RemoveEntry, WalkStart, WalkStep, WalkFinds, WalkOver, aside, vars
  <2>2. kind = "sad" => ListInv'
    BY ListInvKept DEF PathInv
  <2>3. kind = "spd" => PathKnows'
    BY PathKnowsKept
  <2>4. rd' \in Walks
    BY WalkTypes DEF PathInv
  <2>5. CASE Work \/ \E n \in Names : AddEntry(n) \/ RemoveEntry(n)
    BY <2>1, <2>2, <2>3, <2>4, <2>5, ListTypes DEF PathInv, TypeOK, Ops, Walks
  <2>6. CASE UNCHANGED <<kind, head, heapVars, op, ret, list>>
    BY <2>1, <2>2, <2>3, <2>4, <2>6 DEF PathInv, TypeOK, Walks, heapVars
  <2>7. QED
    BY <2>5, <2>6 DEF Next, Walk, WalkStart, WalkStep, WalkFinds, WalkOver, vars
<1>3. QED
  BY <1>1, <1>2, PTL DEF Spec, PathInv

=============================================================================
