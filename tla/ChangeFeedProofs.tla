-------------------------- MODULE ChangeFeedProofs --------------------------
(***************************************************************************)
(* The callbacks and the readers that share their iterator implement       *)
(* EntryWise as long as a commit changes one list only.                    *)
(*                                                                         *)
(* RecordsInv says what a commit's records are like, whoever reads them;   *)
(* it is a matter of how they are made, in CommitBegins alone.             *)
(* ReadingInv says where the iterator is while a reader has it, and what   *)
(* the node has got so far.                                                *)
(***************************************************************************)
EXTENDS ChangeFeed, SequenceLemmas, FiniteSetTheorems

IsName(r) == r.leaf = "name"

\* The records of the changes that are the key of their entry.
KeysIn(recs) == {i \in 1..Len(recs) : IsName(recs[i])}

\* Records of an entry come together.
Contiguous(recs) ==
  \A i, j, k \in 1..Len(recs) :
    i < j /\ j < k /\ recs[i].entry = recs[k].entry => recs[j].entry = recs[i].entry

\* The list instance comes before its key.
KeyFollows(recs) ==
  \A i \in KeysIn(recs) : i > 1 /\ recs[i - 1].entry = recs[i].entry

\* An entry has one key.
OneKey(recs) ==
  \A i, j \in KeysIn(recs) : recs[i].entry = recs[j].entry => i = j

\* A key is that of an entry which appears or disappears, and says which.
KeyTurns(recs, old, new) ==
  \A i \in KeysIn(recs) :
    /\ recs[i].entry \in Turned(old, new)
    /\ recs[i].op = IF new[recs[i].entry] = Absent THEN "deleted" ELSE "created"

\* An entry which appears or disappears has its key among the records.
TurnedHaveKeys(recs, old, new) ==
  \A e \in Turned(old, new) : \E i \in KeysIn(recs) : recs[i].entry = e

\* After the key of a new entry come its leaves, all of them and no others.
LeavesFollow(recs, new) ==
  \A i \in KeysIn(recs) : recs[i].op = "created" =>
    {recs[k].leaf : k \in {j \in 1..Len(recs) : j > i /\ recs[j].entry = recs[i].entry}}
      = new[recs[i].entry]

\* The value of a record is in the path of its entry, unless the entry is moved.
OwnValues(recs, old, new) ==
  \A i \in 1..Len(recs) :
    /\ recs[i].entry \in Turned(old, new) => recs[i].value = recs[i].entry
    /\ recs[i].leaf # "entry" => recs[i].value = recs[i].entry

\* It is there, unless an entry is moved to the first place.
FirstOnly(recs) == ToFirst \/ \A i \in 1..Len(recs) : recs[i].value # NoEntry

\* What is changed is in list l.
OfList(l, recs, old, new) ==
  /\ \A i \in 1..Len(recs) : ListOf(recs[i].entry) = l
  /\ \A e \in Turned(old, new) : ListOf(e) = l

RecordsOK(recs, old, new) ==
  /\ Contiguous(recs)
  /\ KeyFollows(recs)
  /\ OneKey(recs)
  /\ KeyTurns(recs, old, new)
  /\ TurnedHaveKeys(recs, old, new)
  /\ LeavesFollow(recs, new)
  /\ OwnValues(recs, old, new)
  /\ FirstOnly(recs)

IdleInv ==
  cb = "none" => wanted = running /\ changes = << >> /\ at = 1 /\ reading = NoNode

RecordsInv ==
  cb # "none" => RecordsOK(changes, running, wanted) /\ OfList(cb, changes, running, wanted)

\* The records a reader has taken since the key at p.
Taken(p) == p + 1..at - 1

\* Those of them that are for the entry itself, not for one moved behind it.
Own(p) == {i \in Taken(p) : changes[i].entry = reading.entry}

\* The reader began after the key at p, has taken nothing but what is in the
\* path of its entry, and has kept the leaves.
ReadsFrom(p) ==
  /\ p < at
  /\ changes[p].op = "created"
  /\ changes[p].entry = reading.entry
  /\ \A i \in Taken(p) : changes[i].value = reading.entry
  /\ reading.got = {<<reading.entry, changes[i].leaf>> : i \in Own(p)}

ReadingInv ==
  reading # NoNode =>
    /\ \E p \in KeysIn(changes) : ReadsFrom(p)
    /\ cb = "spd" => Find(nodes["spd"], NameOf(reading.entry)) = 0

FeedInv == TypeOK /\ IdleInv /\ RecordsInv /\ ReadingInv

-----------------------------------------------------------------------------
\* An arrangement of a finite set has each of its elements at one place.
LEMMA Arranged ==
  ASSUME NEW S, IsFiniteSet(S), NEW order \in SetToSeqs(S)
  PROVE  /\ order \in Seq(S)
         /\ \A x \in S : \E i \in 1..Len(order) : order[i] = x
         /\ \A i, j \in 1..Len(order) : i # j => order[i] # order[j]
<1> DEFINE n == Cardinality(S)
<1>1. n \in Nat
  BY FS_CardinalityType
<1>2. order \in [1..n -> S] /\ \A i, j \in 1..n : i # j => order[i] # order[j]
  BY DEF SetToSeqs
<1>3. order \in Seq(S) /\ Len(order) = n
  BY <1>1, <1>2
<1>4. ASSUME NEW x \in S, \A i \in 1..n : order[i] # x
      PROVE  FALSE
  <2> DEFINE U == S \ {x}
  <2>1. IsFiniteSet(U) /\ Cardinality(U) = n - 1
    BY FS_RemoveElement
  <2>2. order \in [1..n -> U]
    BY <1>2, <1>4
  <2>3. IsFiniteSet(1..n) /\ Cardinality(1..n) = n
    BY <1>1, FS_Interval
  <2> HIDE DEF U, n
  <2>4. Cardinality(U) < Cardinality(1..n)
    BY <1>1, <2>1, <2>3
  <2>5. \E i, j \in 1..n : i # j /\ order[i] = order[j]
    BY <2>1, <2>2, <2>3, <2>4, FS_PigeonHole
  <2>6. QED
    BY <1>2, <2>5
<1>5. QED
  BY <1>2, <1>3, <1>4

(***************************************************************************)
(* The records of a commit.                                                *)
(***************************************************************************)
Ops == {"created", "deleted", "modified", "moved"}

Leaves == {"direction", "reqid", "spi", "tunnel"}

\* A list's leaves are none of the records' key words, and there is a reqid.
LEMMA BodyLeaves ==
  ASSUME NEW l \in Lists
  PROVE  /\ Len(Body(l)) = 3
         /\ \A i \in 1..3 : Body(l)[i] \in ToSet(Body(l))
         /\ \A f \in ToSet(Body(l)) : \E i \in 1..3 : Body(l)[i] = f
         /\ ToSet(Body(l)) \subseteq Leaves
         /\ ToSet(Body(l)) \subseteq UNION {ToSet(Body(m)) : m \in Lists}
         /\ "reqid" \in ToSet(Body(l))
         /\ \E f \in ToSet(Body(l)) : f \notin Optional
<1>1. CASE l = "spd"
  BY <1>1 DEF Body, ToSet, Leaves, Lists, Optional
<1>2. CASE l = "sad"
  BY <1>2 DEF Body, ToSet, Leaves, Lists, Optional
<1>3. QED
  BY <1>1, <1>2 DEF Lists

\* An entry is one of a list and not NoNode's.
LEMMA EntryIs ==
  ASSUME NEW e \in Entries
  PROVE  ListOf(e) \in Lists /\ e # NoEntry
BY DEF Entries, ListOf, Lists, NoEntry

\* A configuration has leaves of the entry's list only, and never none.
LEMMA RunningLeaves ==
  ASSUME NEW conf \in Running, NEW e \in Entries
  PROVE  conf[e] \subseteq ToSet(Body(ListOf(e)))
BY DEF Running, Configs, Absent

\* Nothing an entry may be configured with is Absent.
LEMMA NeverAbsent ==
  ASSUME NEW l \in Lists
  PROVE  Absent \notin Configs(l)
BY BodyLeaves DEF Configs, Absent

\* A record with the leaf of an entry.
LEMMA RecordType ==
  ASSUME NEW op \in Ops, NEW e \in Entries, NEW f,
         f \in Keys \cup ToSet(Body(ListOf(e)))
  PROVE  [op |-> op, entry |-> e, leaf |-> f, value |-> e] \in Records
BY EntryIs, BodyLeaves DEF Ops, Records

\* LeafRecords has a record for each leaf it is given, and no others.
LEMMA LeafRecordsAre ==
  ASSUME NEW op \in Ops, NEW e \in Entries, NEW fs, fs \subseteq ToSet(Body(ListOf(e))),
         NEW recs, recs = LeafRecords(op, e, fs)
  PROVE  /\ recs \in Seq(Records)
         /\ \A i \in 1..Len(recs) :
              /\ recs[i].op = op /\ recs[i].entry = e /\ recs[i].leaf \in fs
              /\ recs[i].value = e
         /\ \A f \in fs : \E i \in 1..Len(recs) : recs[i].leaf = f
<1> DEFINE body == Body(ListOf(e))
           RecordOf(f) == IF f \in fs THEN <<[op |-> op, entry |-> e, leaf |-> f, value |-> e]>> ELSE << >>
           seqs == [i \in 1..Len(body) |-> RecordOf(body[i])]
<1>1. /\ Len(body) = 3
      /\ \A i \in 1..3 : body[i] \in ToSet(body)
      /\ \A f \in ToSet(body) : \E i \in 1..3 : body[i] = f
  BY EntryIs, BodyLeaves
<1>2. \A i \in 1..3 : RecordOf(body[i]) \in Seq(Records)
  <2>1. ASSUME NEW i \in 1..3
        PROVE  [op |-> op, entry |-> e, leaf |-> body[i], value |-> e] \in Records
    BY <1>1, RecordType
  <2>2. QED
    BY <2>1
<1>3. recs = FlattenSeq(seqs)
  BY DEF LeafRecords
<1>4. /\ seqs \in Seq(Seq(Records))
      /\ Len(seqs) = 3
      /\ \A i \in 1..3 : seqs[i] = RecordOf(body[i])
  <2>1. seqs = [i \in 1..3 |-> RecordOf(body[i])]
    BY <1>1
  <2> HIDE DEF RecordOf, body, seqs
  <2>2. QED
    BY <1>2, <2>1
<1>5. ASSUME NEW i \in 1..3, NEW k \in 1..Len(seqs[i])
      PROVE  /\ k = 1 /\ body[i] \in fs
             /\ seqs[i][k] = [op |-> op, entry |-> e, leaf |-> body[i], value |-> e]
  BY <1>4
<1>6. ASSUME NEW i \in 1..3, body[i] \in fs
      PROVE  1 \in 1..Len(seqs[i]) /\ seqs[i][1].leaf = body[i]
  BY <1>4, <1>6
<1> HIDE DEF seqs, body
<1>7. recs \in Seq(Records)
  BY <1>3, <1>4, Flattened
<1>8. PICK from : Places(seqs, recs, from)
  BY <1>3, <1>4, Flattened
<1>9. /\ \A i \in 1..3 : \A k \in 1..Len(seqs[i]) :
           from[i] + k \in 1..Len(recs) /\ recs[from[i] + k] = seqs[i][k]
      /\ \A p \in 1..Len(recs) : \E i \in 1..3 :
           \E k \in 1..Len(seqs[i]) : p = from[i] + k
  <2>1. Len(seqs) = 3
    BY <1>4
  <2>2. QED
    BY ZenonT(30), <1>8, <2>1 DEF Places
<1>10. ASSUME NEW p \in 1..Len(recs)
      PROVE  /\ recs[p].op = op /\ recs[p].entry = e /\ recs[p].leaf \in fs
             /\ recs[p].value = e
  <2>1. PICK i \in 1..3 : \E k \in 1..Len(seqs[i]) : p = from[i] + k
    BY <1>9
  <2>2. PICK k \in 1..Len(seqs[i]) : p = from[i] + k
    BY <2>1
  <2>3. recs[p] = [op |-> op, entry |-> e, leaf |-> body[i], value |-> e] /\ body[i] \in fs
    BY <1>5, <1>9, <2>2
  <2>4. QED
    BY <2>3
<1>11. ASSUME NEW f \in fs
       PROVE  \E i \in 1..Len(recs) : recs[i].leaf = f
  <2>1. PICK i \in 1..3 : body[i] = f
    BY <1>1 DEF body
  <2>2. 1 \in 1..Len(seqs[i]) /\ seqs[i][1].leaf = f
    BY <1>6, <2>1
  <2>3. QED
    BY <1>9, <2>2
<1>12. QED
  BY <1>7, <1>10, <1>11

\* The records of an entry that is created or deleted.
LEMMA EntryRecordsAre ==
  ASSUME NEW op \in Ops, NEW e \in Entries, NEW fs, fs \subseteq ToSet(Body(ListOf(e))),
         NEW recs, recs = EntryRecords(op, e, fs)
  PROVE  /\ recs \in Seq(Records)
         /\ Len(recs) >= 2
         /\ recs[1].leaf = "entry" /\ recs[2].leaf = "name"
         /\ \A i \in 1..Len(recs) :
              recs[i].op = op /\ recs[i].entry = e /\ recs[i].value = e
         /\ \A i \in 1..Len(recs) : i > 2 => recs[i].leaf \in fs
         /\ \A f \in fs : \E i \in 1..Len(recs) : i > 2 /\ recs[i].leaf = f
<1> DEFINE keys == <<[op |-> op, entry |-> e, leaf |-> "entry", value |-> e],
                     [op |-> op, entry |-> e, leaf |-> "name", value |-> e]>>
           leaves == LeafRecords(op, e, fs)
<1>1. /\ leaves \in Seq(Records)
      /\ \A i \in 1..Len(leaves) :
           /\ leaves[i].op = op /\ leaves[i].entry = e /\ leaves[i].leaf \in fs
           /\ leaves[i].value = e
      /\ \A f \in fs : \E i \in 1..Len(leaves) : leaves[i].leaf = f
  BY LeafRecordsAre
<1>2. keys \in Seq(Records) /\ Len(keys) = 2
  <2>1. "entry" \in Keys /\ "name" \in Keys
    BY DEF Keys
  <2>2. /\ [op |-> op, entry |-> e, leaf |-> "entry", value |-> e] \in Records
        /\ [op |-> op, entry |-> e, leaf |-> "name", value |-> e] \in Records
    BY <2>1, RecordType
  <2>3. QED
    BY <2>2
<1>3. /\ keys[1] = [op |-> op, entry |-> e, leaf |-> "entry", value |-> e]
      /\ keys[2] = [op |-> op, entry |-> e, leaf |-> "name", value |-> e]
  OBVIOUS
<1>4. recs = keys \o leaves
  BY DEF EntryRecords
<1> HIDE DEF keys, leaves
<1> DEFINE both == keys \o leaves
<1>5. /\ both \in Seq(Records)
      /\ Len(both) = Len(keys) + Len(leaves)
      /\ \A i \in 1..Len(keys) + Len(leaves) :
           both[i] = IF i <= Len(keys) THEN keys[i] ELSE leaves[i - Len(keys)]
  BY <1>1, <1>2, ConcatProperties
<1> HIDE DEF both
<1>6. /\ recs \in Seq(Records)
      /\ Len(recs) = 2 + Len(leaves)
      /\ \A i \in 1..2 + Len(leaves) : recs[i] = IF i <= 2 THEN keys[i] ELSE leaves[i - 2]
  BY <1>2, <1>4, <1>5 DEF both
<1>7. Len(leaves) \in Nat
  BY <1>1, LenProperties
<1>8. recs[1] = keys[1] /\ recs[2] = keys[2]
  BY <1>6, <1>7
<1>9. ASSUME NEW i \in 1..Len(recs), i > 2
      PROVE  recs[i] = leaves[i - 2] /\ i - 2 \in 1..Len(leaves)
  BY <1>6, <1>7, <1>9
<1>10. ASSUME NEW f \in fs
      PROVE  \E i \in 1..Len(recs) : i > 2 /\ recs[i].leaf = f
  <2>1. PICK k \in 1..Len(leaves) : leaves[k].leaf = f
    BY <1>1
  <2>2. k + 2 \in 1..Len(recs) /\ k + 2 > 2 /\ k + 2 - 2 = k
    BY <1>6, <1>7
  <2>3. recs[k + 2] = leaves[k]
    BY <1>9, <2>2
  <2>4. QED
    BY <2>1, <2>2, <2>3
<1>11. ASSUME NEW i \in 1..Len(recs)
       PROVE  recs[i].op = op /\ recs[i].entry = e /\ recs[i].value = e
  <2>1. CASE i > 2
    BY <1>1, <1>9, <2>1
  <2>2. CASE ~(i > 2)
    BY <1>3, <1>6, <1>7, <1>8, <2>2
  <2>3. QED
    BY <2>1, <2>2
<1>12. Len(recs) >= 2 /\ recs[1].leaf = "entry" /\ recs[2].leaf = "name"
  BY <1>3, <1>6, <1>7, <1>8
<1>13. \A i \in 1..Len(recs) : i > 2 => recs[i].leaf \in fs
  BY <1>1, <1>9
<1>14. QED
  BY <1>6, <1>10, <1>11, <1>12, <1>13

\* What the records of entry e say about it: its key, if it appears or
\* disappears, is the second of them, and all its leaves follow if it is new.
RecordsFit(recs, e, old, new) ==
  /\ recs \in Seq(Records)
  /\ \A i \in 1..Len(recs) : recs[i].entry = e
  /\ \A i \in 1..Len(recs) : IsName(recs[i]) =>
       /\ i = 2
       /\ (old = Absent) # (new = Absent)
       /\ recs[i].op = IF new = Absent THEN "deleted" ELSE "created"
  /\ (old = Absent) # (new = Absent) => 2 \in 1..Len(recs) /\ IsName(recs[2])
  /\ old = Absent =>
       /\ \A i \in 1..Len(recs) : i > 2 => recs[i].leaf \in new
       /\ \A f \in new : \E i \in 1..Len(recs) : i > 2 /\ recs[i].leaf = f
  /\ \A i \in 1..Len(recs) :
       /\ (old = Absent) # (new = Absent) \/ recs[i].leaf # "entry" => recs[i].value = e
       /\ ToFirst \/ recs[i].value # NoEntry

\* They say so whatever has been done to the entry.
LEMMA RecordsOfEntry ==
  ASSUME NEW e \in Entries,
         NEW old, old \subseteq ToSet(Body(ListOf(e))),
         NEW new, new \subseteq ToSet(Body(ListOf(e))),
         NEW edit \in {"value", "place"}, NEW after \in Entries \cup {NoEntry},
         edit = "place" /\ after = NoEntry => ToFirst,
         ~(old = Absent /\ new = Absent),
         NEW recs, recs = RecordsOf(old, new, e, edit, after)
  PROVE  RecordsFit(recs, e, old, new)
<1>1. /\ "created" \in Ops /\ "deleted" \in Ops /\ "modified" \in Ops /\ "moved" \in Ops
      /\ "entry" \in Keys
  BY DEF Ops, Keys
<1>2. "name" \notin ToSet(Body(ListOf(e))) /\ "reqid" \in ToSet(Body(ListOf(e)))
  BY EntryIs, BodyLeaves DEF Leaves
<1>3. CASE old = Absent
  <2>1. recs = EntryRecords("created", e, new) /\ new # Absent
    BY <1>3 DEF RecordsOf
  <2>2. /\ recs \in Seq(Records)
        /\ Len(recs) >= 2
        /\ recs[1].leaf = "entry" /\ recs[2].leaf = "name"
        /\ \A i \in 1..Len(recs) :
             recs[i].op = "created" /\ recs[i].entry = e /\ recs[i].value = e
        /\ \A i \in 1..Len(recs) : i > 2 => recs[i].leaf \in new
        /\ \A f \in new : \E i \in 1..Len(recs) : i > 2 /\ recs[i].leaf = f
    BY <1>1, <2>1, EntryRecordsAre
  <2>3. Len(recs) \in Nat
    BY <2>2, LenProperties
  <2>4. \A i \in 1..Len(recs) : IsName(recs[i]) => i = 2
    <3>1. ASSUME NEW i \in 1..Len(recs), IsName(recs[i]), i # 2
          PROVE  FALSE
      <4>1. i = 1 \/ i > 2
        BY <2>3, <3>1
      <4>2. recs[i].leaf = "name"
        BY <3>1 DEF IsName
      <4>3. QED
        BY <1>2, <2>2, <4>1, <4>2
    <3>2. QED
      BY <3>1
  <2>5. 2 \in 1..Len(recs) /\ IsName(recs[2])
    BY <2>2, <2>3 DEF IsName
  <2>6. \A i \in 1..Len(recs) :
          /\ recs[i].op = "created" /\ recs[i].entry = e
          /\ recs[i].value = e /\ recs[i].value # NoEntry
    BY <2>2, EntryIs
  <2>7. /\ \A i \in 1..Len(recs) : i > 2 => recs[i].leaf \in new
        /\ \A f \in new : \E i \in 1..Len(recs) : i > 2 /\ recs[i].leaf = f
    BY <2>2
  <2>8. QED
    BY <1>3, <2>1, <2>2, <2>4, <2>5, <2>6, <2>7 DEF RecordsFit
<1>4. CASE old # Absent /\ new = Absent
  <2>1. recs = EntryRecords("deleted", e, old)
    BY <1>4 DEF RecordsOf
  <2>2. /\ recs \in Seq(Records)
        /\ Len(recs) >= 2
        /\ recs[1].leaf = "entry" /\ recs[2].leaf = "name"
        /\ \A i \in 1..Len(recs) :
             recs[i].op = "deleted" /\ recs[i].entry = e /\ recs[i].value = e
        /\ \A i \in 1..Len(recs) : i > 2 => recs[i].leaf \in old
    BY <1>1, <2>1, EntryRecordsAre
  <2>3. Len(recs) \in Nat
    BY <2>2, LenProperties
  <2>4. \A i \in 1..Len(recs) : IsName(recs[i]) => i = 2
    <3>1. ASSUME NEW i \in 1..Len(recs), IsName(recs[i]), i # 2
          PROVE  FALSE
      <4>1. i = 1 \/ i > 2
        BY <2>3, <3>1
      <4>2. recs[i].leaf = "name"
        BY <3>1 DEF IsName
      <4>3. QED
        BY <1>2, <2>2, <4>1, <4>2
    <3>2. QED
      BY <3>1
  <2>5. 2 \in 1..Len(recs) /\ IsName(recs[2])
    BY <2>2, <2>3 DEF IsName
  <2>6. \A i \in 1..Len(recs) :
          /\ recs[i].op = "deleted" /\ recs[i].entry = e
          /\ recs[i].value = e /\ recs[i].value # NoEntry
    BY <2>2, EntryIs
  <2>7. QED
    BY <1>4, <2>2, <2>4, <2>5, <2>6 DEF RecordsFit
<1>5. CASE old # Absent /\ new # Absent
  <2>1. ASSUME NEW op \in Ops, NEW fs, fs \subseteq ToSet(Body(ListOf(e)))
        PROVE  /\ LeafRecords(op, e, fs) \in Seq(Records)
               /\ \A i \in 1..Len(LeafRecords(op, e, fs)) :
                    /\ LeafRecords(op, e, fs)[i].entry = e
                    /\ LeafRecords(op, e, fs)[i].value = e
                    /\ ~IsName(LeafRecords(op, e, fs)[i])
    BY <1>2, <2>1, LeafRecordsAre DEF IsName
  <2>2. /\ recs \in Seq(Records)
        /\ \A i \in 1..Len(recs) : recs[i].entry = e /\ ~IsName(recs[i])
        /\ \A i \in 1..Len(recs) : \/ recs[i].value = e
                                   \/ /\ recs[i].leaf = "entry"
                                      /\ ToFirst \/ recs[i].value # NoEntry
    <3>1. CASE old # new
      <4> DEFINE a == LeafRecords("created", e, new \ old)
                 b == LeafRecords("deleted", e, old \ new)
      <4>1. recs = a \o b
        BY <1>5, <3>1 DEF RecordsOf
      <4>2. /\ new \ old \subseteq ToSet(Body(ListOf(e)))
            /\ old \ new \subseteq ToSet(Body(ListOf(e)))
        OBVIOUS
      <4>3. /\ a \in Seq(Records)
            /\ \A i \in 1..Len(a) :
                 a[i].entry = e /\ a[i].value = e /\ ~IsName(a[i])
            /\ b \in Seq(Records)
            /\ \A i \in 1..Len(b) :
                 b[i].entry = e /\ b[i].value = e /\ ~IsName(b[i])
        BY <1>1, <2>1, <4>2
      <4> HIDE DEF a, b
      <4> DEFINE both == a \o b
      <4>4. /\ both \in Seq(Records)
            /\ Len(both) = Len(a) + Len(b)
            /\ \A i \in 1..Len(a) + Len(b) :
                 both[i] = IF i <= Len(a) THEN a[i] ELSE b[i - Len(a)]
        BY <4>3, ConcatProperties
      <4>5. Len(a) \in Nat /\ Len(b) \in Nat
        BY <4>3, LenProperties
      <4> HIDE DEF both
      <4>6. ASSUME NEW i \in 1..Len(both)
            PROVE  both[i].entry = e /\ both[i].value = e /\ ~IsName(both[i])
        <5>1. CASE i <= Len(a)
          <6>1. i \in 1..Len(a) /\ both[i] = a[i]
            BY <4>4, <4>5, <5>1
          <6>2. QED
            BY <4>3, <6>1
        <5>2. CASE ~(i <= Len(a))
          <6>1. i - Len(a) \in 1..Len(b) /\ both[i] = b[i - Len(a)]
            BY <4>4, <4>5, <5>2
          <6>2. QED
            BY <4>3, <6>1
        <5>3. QED
          BY <5>1, <5>2
      <4>7. recs = both
        BY <4>1 DEF both
      <4>8. QED
        BY <4>4, <4>6, <4>7
    <3>2. CASE old = new /\ edit = "value"
      <4>1. recs = LeafRecords("modified", e, {"reqid"})
        BY <1>5, <3>2 DEF RecordsOf
      <4>2. {"reqid"} \subseteq ToSet(Body(ListOf(e)))
        BY <1>2
      <4>3. QED
        BY <1>1, <2>1, <4>1, <4>2
    <3>3. CASE old = new /\ edit = "place"
      <4> DEFINE r == [op |-> "moved", entry |-> e, leaf |-> "entry", value |-> after]
      <4>1. recs = <<r>>
        BY <1>5, <3>3 DEF RecordsOf
      <4>2. r \in Records
        BY <1>1 DEF Records, Ops
      <4>3. ToFirst \/ after # NoEntry
        BY <3>3
      <4>4. recs \in Seq(Records) /\ Len(recs) = 1 /\ recs[1] = r
        BY <4>1, <4>2
      <4>5. r.entry = e /\ ~IsName(r) /\ r.leaf = "entry" /\ r.value = after
        BY DEF IsName
      <4> HIDE DEF r
      <4>6. \A i \in 1..Len(recs) : recs[i] = r
        BY <4>4
      <4>7. QED
        BY <4>3, <4>4, <4>5, <4>6
    <3>4. QED
      BY <3>1, <3>2, <3>3
  <2>3. \A i \in 1..Len(recs) :
          /\ recs[i].leaf # "entry" => recs[i].value = e
          /\ ToFirst \/ recs[i].value # NoEntry
    BY <2>2, EntryIs
  <2>4. QED
    BY <1>5, <2>2, <2>3 DEF RecordsFit
<1>6. QED
  BY <1>3, <1>4, <1>5

\* The records of a commit that edits entries in some order.
CommitRecs(old, new, order, edit, after) ==
  FlattenSeq([i \in 1..Len(order) |->
    RecordsOf(old[order[i]], new[order[i]], order[i], edit, after)])

\* The records of a commit are as the callbacks need them, in whatever order
\* the entries come.
LEMMA CommitRecords ==
  ASSUME NEW old \in Running, NEW new \in Running,
         NEW es \in SUBSET Entries, IsFiniteSet(es),
         NEW order \in SetToSeqs(es), NEW edit \in {"value", "place"},
         NEW after \in Entries \cup {NoEntry},
         edit = "place" /\ after = NoEntry => ToFirst,
         \A e \in Entries \ es : new[e] = old[e],
         \A e \in es : ~(old[e] = Absent /\ new[e] = Absent),
         NEW recs, recs = CommitRecs(old, new, order, edit, after)
  PROVE  /\ recs \in Seq(Records)
         /\ RecordsOK(recs, old, new)
         /\ \A p \in 1..Len(recs) : recs[p].entry \in es
<1> DEFINE n == Len(order)
           seqs == [i \in 1..n |->
                     RecordsOf(old[order[i]], new[order[i]], order[i], edit, after)]
<1>1. /\ order \in Seq(es)
      /\ \A e \in es : \E i \in 1..n : order[i] = e
      /\ \A i, j \in 1..n : i # j => order[i] # order[j]
  BY Arranged
<1>2. n \in Nat /\ \A i \in 1..n : order[i] \in es /\ order[i] \in Entries
  BY <1>1, LenProperties, ElementOfSeq
<1>3. /\ recs = FlattenSeq(seqs)
      /\ \A i \in 1..n :
           seqs[i] = RecordsOf(old[order[i]], new[order[i]], order[i], edit, after)
  BY DEF CommitRecs
<1>4. ASSUME NEW i \in 1..n
      PROVE  /\ RecordsFit(seqs[i], order[i], old[order[i]], new[order[i]])
             /\ seqs[i] \in Seq(Records)
             /\ Len(seqs[i]) \in Nat
  <2> DEFINE e == order[i]
  <2>1. /\ e \in Entries
        /\ old[e] \subseteq ToSet(Body(ListOf(e)))
        /\ new[e] \subseteq ToSet(Body(ListOf(e)))
        /\ ~(old[e] = Absent /\ new[e] = Absent)
        /\ seqs[i] = RecordsOf(old[e], new[e], e, edit, after)
    BY <1>2, <1>3, RunningLeaves
  <2> HIDE DEF e, seqs
  <2>2. RecordsFit(seqs[i], e, old[e], new[e])
    BY <2>1, RecordsOfEntry
  <2>3. seqs[i] \in Seq(Records)
    BY <2>2 DEF RecordsFit
  <2>4. QED
    BY <2>2, <2>3, LenProperties DEF e
<1>5. seqs \in Seq(Seq(Records)) /\ Len(seqs) = n
  <2>1. seqs \in [1..n -> Seq(Records)]
    BY <1>4
  <2> HIDE DEF seqs
  <2>2. QED
    BY <1>2, <2>1
<1> HIDE DEF seqs
<1>6. recs \in Seq(Records)
  BY <1>3, <1>5, Flattened
<1>7. PICK from : Places(seqs, recs, from)
  BY <1>3, <1>5, Flattened
<1> HIDE DEF n
<1>8. ASSUME NEW i \in 1..n, NEW k \in 1..Len(seqs[i])
      PROVE  /\ from[i] + k \in 1..Len(recs)
             /\ recs[from[i] + k] = seqs[i][k]
             /\ recs[from[i] + k].entry = order[i]
             /\ from[i] \in Nat /\ k \in Nat
  <2>1. from[i] + k \in 1..Len(recs) /\ recs[from[i] + k] = seqs[i][k] /\ from[i] \in Nat
    BY <1>5, <1>7 DEF Places
  <2>2. seqs[i][k].entry = order[i] /\ k \in Nat
    BY <1>4 DEF RecordsFit
  <2>3. QED
    BY <2>1, <2>2
\* The entry that the record at p is for, and which of its records it is.
<1> DEFINE home == [p \in 1..Len(recs) |->
                     CHOOSE i \in 1..n : \E k \in 1..Len(seqs[i]) : p = from[i] + k]
           nth == [p \in 1..Len(recs) |-> p - from[home[p]]]
<1>9. ASSUME NEW p \in 1..Len(recs)
      PROVE  /\ home[p] \in 1..n /\ home[p] \in Nat
             /\ nth[p] \in 1..Len(seqs[home[p]]) /\ nth[p] \in Nat
             /\ from[home[p]] \in Nat /\ p = from[home[p]] + nth[p]
             /\ recs[p] = seqs[home[p]][nth[p]]
             /\ recs[p].entry = order[home[p]]
  <2> DEFINE i == home[p]
  <2>1. \E j \in 1..n : \E k \in 1..Len(seqs[j]) : p = from[j] + k
    BY <1>5, <1>7 DEF Places
  <2>2. i \in 1..n /\ \E k \in 1..Len(seqs[i]) : p = from[i] + k
    BY <2>1
  <2> HIDE DEF home
  <2>3. PICK k \in 1..Len(seqs[i]) : p = from[i] + k
    BY <2>2
  <2>4. /\ from[i] \in Nat /\ k \in Nat
        /\ recs[p] = seqs[i][k] /\ recs[p].entry = order[i]
    <3> HIDE DEF i
    <3>1. /\ from[i] \in Nat /\ k \in Nat
          /\ recs[from[i] + k] = seqs[i][k] /\ recs[from[i] + k].entry = order[i]
      BY <1>8, <2>2
    <3>2. QED
      BY <2>3, <3>1
  <2>5. nth[p] = k
    BY <2>3, <2>4
  <2>6. i \in Nat
    BY <1>2, <2>2 DEF n
  <2> HIDE DEF i, nth
  <2>7. /\ i \in 1..n /\ i \in Nat
        /\ nth[p] \in 1..Len(seqs[i]) /\ nth[p] \in Nat
        /\ from[i] \in Nat /\ p = from[i] + nth[p]
        /\ recs[p] = seqs[i][nth[p]]
        /\ recs[p].entry = order[i]
    BY <2>2, <2>3, <2>4, <2>5, <2>6
  <2>8. QED
    BY <2>7 DEF i
<1> HIDE DEF home, nth
<1>10. ASSUME NEW p \in 1..Len(recs), NEW q \in 1..Len(recs)
       PROVE  /\ recs[p].entry = recs[q].entry => home[p] = home[q]
              /\ p < q => home[p] <= home[q]
  <2> DEFINE i == home[p]
             j == home[q]
  <2>1. recs[p].entry = recs[q].entry => i = j
    <3>1. i \in 1..n /\ j \in 1..n /\ recs[p].entry = order[i] /\ recs[q].entry = order[j]
      BY <1>9
    <3> HIDE DEF i, j
    <3>2. QED
      BY ZenonT(30), <1>1, <3>1
  <2>2. ASSUME p < q, ~(i <= j)
        PROVE  FALSE
    <3>1. /\ i \in 1..n /\ j \in 1..n /\ i \in Nat /\ j \in Nat
          /\ from[i] \in Nat /\ from[j] \in Nat
          /\ p = from[i] + nth[p] /\ q = from[j] + nth[q]
          /\ nth[p] \in Nat /\ nth[q] \in 1..Len(seqs[j])
      BY <1>9
    <3>2. Len(seqs[j]) \in Nat
      BY <1>4, <3>1
    <3> HIDE DEF i, j
    <3>3. j < i
      BY <2>2, <3>1
    <3>4. from[j] + Len(seqs[j]) <= from[i]
      BY <1>5, <1>7, <3>1, <3>3 DEF Places
    <3>5. nth[q] <= Len(seqs[j])
      BY <3>1, <3>2
    <3> DEFINE a == from[i]
               b == from[j]
               x == nth[p]
               y == nth[q]
               z == Len(seqs[j])
    <3>6. /\ a \in Nat /\ b \in Nat /\ x \in Nat /\ y \in Nat /\ z \in Nat
          /\ a + x < b + y /\ b + z <= a /\ y <= z
      <4>1. y \in Nat
        BY <3>1, <3>2
      <4>2. a + x < b + y
        BY <2>2, <3>1
      <4>3. QED
        BY <3>1, <3>2, <3>4, <3>5, <4>1, <4>2
    <3> HIDE DEF a, b, x, y, z
    <3>7. QED
      BY <3>6
  <2>3. QED
    BY <2>1, <2>2
<1>11. ASSUME NEW p \in KeysIn(recs)
       PROVE  /\ p \in 1..Len(recs) /\ nth[p] = 2
              /\ (old[order[home[p]]] = Absent) # (new[order[home[p]]] = Absent)
              /\ recs[p].op = IF new[order[home[p]]] = Absent THEN "deleted" ELSE "created"
  <2>1. p \in 1..Len(recs) /\ IsName(recs[p])
    BY DEF KeysIn
  <2>2. /\ home[p] \in 1..n /\ nth[p] \in 1..Len(seqs[home[p]])
        /\ recs[p] = seqs[home[p]][nth[p]]
    BY <1>9, <2>1
  <2> DEFINE i == home[p]
             k == nth[p]
             x == old[order[i]]
             y == new[order[i]]
  <2>3. RecordsFit(seqs[i], order[i], x, y)
    BY <1>4, <2>2
  <2>4. i \in 1..n /\ k \in 1..Len(seqs[i]) /\ recs[p] = seqs[i][k] /\ IsName(seqs[i][k])
    BY <2>1, <2>2
  <2> HIDE DEF i, k, x, y
  <2>5. k = 2 /\ (x = Absent) # (y = Absent)
        /\ seqs[i][k].op = IF y = Absent THEN "deleted" ELSE "created"
    BY <2>3, <2>4 DEF RecordsFit
  <2>6. QED
    BY <2>1, <2>4, <2>5 DEF i, k, x, y
<1>12. Contiguous(recs)
  <2> SUFFICES ASSUME NEW p \in 1..Len(recs), NEW q \in 1..Len(recs), NEW r \in 1..Len(recs),
                      p < q, q < r, recs[p].entry = recs[r].entry
               PROVE  recs[q].entry = recs[p].entry
    BY ZenonT(30) DEF Contiguous
  <2>1. home[p] = home[r] /\ home[p] <= home[q] /\ home[q] <= home[r]
    BY <1>10
  <2>2. home[p] \in Nat /\ home[q] \in Nat
    BY <1>9
  <2>3. home[p] = home[q]
    BY <2>1, <2>2
  <2>4. recs[p].entry = order[home[p]] /\ recs[q].entry = order[home[q]]
    BY <1>9
  <2>5. QED
    BY <2>3, <2>4
<1>13. KeyFollows(recs)
  <2> SUFFICES ASSUME NEW p \in KeysIn(recs)
               PROVE  p > 1 /\ recs[p - 1].entry = recs[p].entry
    BY DEF KeyFollows
  <2> DEFINE i == home[p]
  <2>1. /\ i \in 1..n /\ p = from[i] + 2 /\ from[i] \in Nat /\ 2 \in 1..Len(seqs[i])
        /\ recs[p].entry = order[i]
    BY <1>9, <1>11
  <2>2. Len(seqs[i]) \in Nat
    BY <1>4, <2>1
  <2> HIDE DEF i
  <2>3. 1 \in 1..Len(seqs[i])
    BY <2>1, <2>2
  <2>4. recs[from[i] + 1].entry = order[i]
    BY <1>8, <2>1, <2>3
  <2>5. p - 1 = from[i] + 1 /\ p > 1
    BY <2>1
  <2>6. QED
    BY <2>1, <2>4, <2>5
<1>14. OneKey(recs)
  <2> SUFFICES ASSUME NEW p \in KeysIn(recs), NEW q \in KeysIn(recs),
                      recs[p].entry = recs[q].entry
               PROVE  p = q
    BY DEF OneKey
  <2>1. p \in 1..Len(recs) /\ q \in 1..Len(recs) /\ nth[p] = 2 /\ nth[q] = 2
    BY <1>11
  <2>2. home[p] = home[q]
    BY <1>10, <2>1
  <2>3. p = from[home[p]] + nth[p] /\ q = from[home[q]] + nth[q]
    BY <1>9, <2>1
  <2>4. QED
    BY <2>1, <2>2, <2>3
<1>15. KeyTurns(recs, old, new)
  <2> SUFFICES ASSUME NEW p \in KeysIn(recs)
               PROVE  /\ recs[p].entry \in Turned(old, new)
                      /\ recs[p].op =
                           IF new[recs[p].entry] = Absent THEN "deleted" ELSE "created"
    BY DEF KeyTurns
  <2>1. recs[p].entry = order[home[p]] /\ order[home[p]] \in Entries
    BY <1>2, <1>9, <1>11 DEF n
  <2>2. QED
    BY ZenonT(30), <1>11, <2>1 DEF Turned
<1>16. TurnedHaveKeys(recs, old, new)
  <2> SUFFICES ASSUME NEW e \in Turned(old, new)
               PROVE  \E p \in KeysIn(recs) : recs[p].entry = e
    BY DEF TurnedHaveKeys
  <2>1. e \in Entries /\ (old[e] = Absent) # (new[e] = Absent)
    BY DEF Turned
  <2>2. e \in es
    BY <2>1
  <2>3. PICK i \in 1..n : order[i] = e
    BY <1>1, <2>2 DEF n
  <2>4. 2 \in 1..Len(seqs[i]) /\ IsName(seqs[i][2])
    BY <1>4, <2>1, <2>3 DEF RecordsFit
  <2> DEFINE p == from[i] + 2
  <2>5. p \in 1..Len(recs) /\ recs[p] = seqs[i][2] /\ recs[p].entry = e
    BY <1>8, <2>3, <2>4
  <2> HIDE DEF p
  <2>6. QED
    BY <2>4, <2>5 DEF KeysIn
<1>17. LeavesFollow(recs, new)
  <2> SUFFICES ASSUME NEW p \in KeysIn(recs), recs[p].op = "created"
               PROVE  {recs[k].leaf :
                         k \in {j \in 1..Len(recs) : j > p /\ recs[j].entry = recs[p].entry}}
                        = new[recs[p].entry]
    BY DEF LeavesFollow
  <2> DEFINE i == home[p]
  <2>1. /\ p \in 1..Len(recs) /\ i \in 1..n
        /\ p = from[i] + 2 /\ from[i] \in Nat
        /\ recs[p].entry = order[i]
        /\ old[order[i]] = Absent
    <3>1. /\ p \in 1..Len(recs) /\ nth[p] = 2
          /\ (old[order[i]] = Absent) # (new[order[i]] = Absent)
          /\ recs[p].op = IF new[order[i]] = Absent THEN "deleted" ELSE "created"
      BY <1>11
    <3>2. new[order[i]] # Absent
      BY <3>1
    <3>3. i \in 1..n /\ p = from[i] + 2 /\ from[i] \in Nat /\ recs[p].entry = order[i]
      BY <1>9, <3>1
    <3>4. QED
      BY <3>1, <3>2, <3>3
  <2>2. /\ \A k \in 1..Len(seqs[i]) : k > 2 => seqs[i][k].leaf \in new[order[i]]
        /\ \A f \in new[order[i]] :
             \E k \in 1..Len(seqs[i]) : k > 2 /\ seqs[i][k].leaf = f
    BY <1>4, <2>1 DEF RecordsFit
  <2>3. ASSUME NEW q \in 1..Len(recs), q > p, recs[q].entry = recs[p].entry
        PROVE  recs[q].leaf \in new[order[i]]
    <3>1. home[q] = i
      BY <1>10, <2>1, <2>3
    <3>2. /\ nth[q] \in 1..Len(seqs[i]) /\ nth[q] \in Nat
          /\ q = from[i] + nth[q] /\ recs[q] = seqs[i][nth[q]]
      BY <1>9, <3>1
    <3> HIDE DEF i
    <3>3. nth[q] > 2
      BY <2>1, <2>3, <3>2
    <3>4. QED
      BY <2>2, <3>2, <3>3
  <2> HIDE DEF i
  <2>4. ASSUME NEW f \in new[order[i]]
        PROVE  \E q \in 1..Len(recs) :
                 q > p /\ recs[q].entry = recs[p].entry /\ recs[q].leaf = f
    <3>1. PICK l \in 1..Len(seqs[i]) : l > 2 /\ seqs[i][l].leaf = f
      BY <2>2, <2>4
    <3> DEFINE q == from[i] + l
    <3>2. q \in 1..Len(recs) /\ recs[q] = seqs[i][l] /\ recs[q].entry = order[i] /\ l \in Nat
      BY <1>8, <2>1, <3>1
    <3>3. q > p
      BY <2>1, <3>1, <3>2
    <3> HIDE DEF q
    <3>4. QED
      BY <2>1, <3>1, <3>2, <3>3
  <2> DEFINE later == {j \in 1..Len(recs) : j > p /\ recs[j].entry = recs[p].entry}
  <2>5. \A k \in later : recs[k].leaf \in new[order[i]]
    BY <2>3
  <2>6. \A f \in new[order[i]] : \E k \in later : recs[k].leaf = f
    BY <2>4
  <2> HIDE DEF later
  <2>7. {recs[k].leaf : k \in later} = new[order[i]]
    BY <2>5, <2>6
  <2>8. QED
    BY <2>1, <2>7 DEF later
<1>18. ASSUME NEW p \in 1..Len(recs)
       PROVE  recs[p].entry \in es
  BY <1>2, <1>9 DEF n
<1>19. ASSUME NEW p \in 1..Len(recs)
       PROVE  /\ recs[p].entry \in Turned(old, new) => recs[p].value = recs[p].entry
              /\ recs[p].leaf # "entry" => recs[p].value = recs[p].entry
              /\ ToFirst \/ recs[p].value # NoEntry
  <2> DEFINE i == home[p]
             k == nth[p]
             x == old[order[i]]
             y == new[order[i]]
  <2>1. /\ i \in 1..n /\ k \in 1..Len(seqs[i])
        /\ recs[p] = seqs[i][k] /\ recs[p].entry = order[i]
    BY <1>9
  <2>2. RecordsFit(seqs[i], order[i], x, y)
    BY <1>4, <2>1
  <2>3. recs[p].entry \in Turned(old, new) => (x = Absent) # (y = Absent)
    BY <2>1 DEF Turned
  <2> HIDE DEF i, k, x, y
  <2>4. /\ (x = Absent) # (y = Absent) \/ seqs[i][k].leaf # "entry"
             => seqs[i][k].value = order[i]
        /\ ToFirst \/ seqs[i][k].value # NoEntry
    BY <2>1, <2>2 DEF RecordsFit
  <2>5. QED
    BY <2>1, <2>3, <2>4
<1>20. OwnValues(recs, old, new) /\ FirstOnly(recs)
  BY <1>19 DEF OwnValues, FirstOnly
<1>21. QED
  BY <1>6, <1>12, <1>13, <1>14, <1>15, <1>16, <1>17, <1>18, <1>20 DEF RecordsOK

\* What an edit of the controller hands to the callbacks.
LEMMA EditGives ==
  ASSUME TypeOK, NEW es \in SUBSET Entries, es # {}, IsFiniteSet(es), Edit(es)
  PROVE  /\ cb = "none" /\ cb' \in Lists /\ at' = 1
         /\ commits' \in 0..MaxCommits
         /\ wanted' \in Running
         /\ changes' \in Seq(Records)
         /\ UNCHANGED <<running, reading, nodes>>
         /\ RecordsOK(changes', running, wanted')
         /\ ~Mixed => OfList(cb', changes', running, wanted')
<1>1. PICK conf \in [es -> UNION {MayBecome(e) : e \in es}],
           order \in SetToSeqs(es), edit \in {"value", "place"},
           after \in Entries \cup {NoEntry} :
        /\ \A e \in es : conf[e] \in MayBecome(e)
        /\ edit = "place" /\ after = NoEntry => ToFirst
        /\ CommitBegins([e \in Entries |-> IF e \in es THEN conf[e] ELSE running[e]],
                        order, edit, after)
  BY DEF Edit, MayFollow
<1> DEFINE new == [e \in Entries |-> IF e \in es THEN conf[e] ELSE running[e]]
<1>2. /\ running \in Running
      /\ \A e \in Entries : running[e] \in Configs(ListOf(e)) \cup {Absent}
  BY DEF TypeOK, Running
<1>3. ASSUME NEW e \in es
      PROVE  /\ new[e] \in Configs(ListOf(e)) \cup {Absent}
             /\ ~(running[e] = Absent /\ new[e] = Absent)
  <2>1. new[e] = conf[e] /\ conf[e] \in MayBecome(e)
    BY <1>1
  <2>2. Absent \notin Configs(ListOf(e))
    BY EntryIs, NeverAbsent
  <2>3. QED
    BY <2>1, <2>2 DEF MayBecome
<1>4. \A e \in Entries : new[e] \in Configs(ListOf(e)) \cup {Absent}
  BY <1>2, <1>3
<1>5. \A e \in Entries \ es : new[e] = running[e]
  OBVIOUS
<1>6. new = [e \in Entries |-> new[e]]
  OBVIOUS
<1> HIDE DEF new
<1>7. new \in Running
  <2>1. \A e \in Entries : new[e] \in {Absent} \cup UNION {Configs(l) : l \in Lists}
    BY <1>4, EntryIs
  <2>2. new \in [Entries -> {Absent} \cup UNION {Configs(l) : l \in Lists}]
    BY <1>6, <2>1
  <2>3. QED
    BY <1>4, <2>2 DEF Running
<1>8. /\ cb = "none" /\ commits < MaxCommits /\ commits' = commits + 1
      /\ wanted' = new /\ at' = 1
      /\ changes' = CommitRecs(running, new, order, edit, after)
      /\ cb' = IF Concerns("spd", changes') THEN "spd" ELSE "sad"
      /\ UNCHANGED <<running, reading, nodes>>
  <2>1. cb = "none" /\ commits < MaxCommits
    BY DEF Edit
  <2>2. QED
    BY <1>1, <2>1 DEF CommitBegins, CommitRecs, new
<1>9. /\ changes' \in Seq(Records)
      /\ RecordsOK(changes', running, new)
      /\ \A p \in 1..Len(changes') : changes'[p].entry \in es
  <2>1. \A e \in es : ~(running[e] = Absent /\ new[e] = Absent)
    BY <1>3
  <2>2. running \in Running
    BY <1>2
  <2>3. edit = "place" /\ after = NoEntry => ToFirst
    BY <1>1
  <2>4. PICK recs : recs = CommitRecs(running, new, order, edit, after)
    OBVIOUS
  <2>5. /\ recs \in Seq(Records)
        /\ RecordsOK(recs, running, new)
        /\ \A p \in 1..Len(recs) : recs[p].entry \in es
    BY SMTT(60), <1>5, <1>7, <2>1, <2>2, <2>3, <2>4, CommitRecords
  <2>6. QED
    BY <1>8, <2>4, <2>5
<1>10. cb' \in Lists /\ commits' \in 0..MaxCommits
  BY <1>8, FeedAssumption DEF TypeOK, Lists
<1>11. ASSUME ~Mixed
       PROVE  OfList(cb', changes', running, new)
  <2>1. PICK d \in es : TRUE
    OBVIOUS
  <2>2. \A e \in es : ListOf(e) = ListOf(d)
    BY <1>11 DEF Edit
  <2>3. \A p \in 1..Len(changes') : ListOf(changes'[p].entry) = ListOf(d)
    BY <1>9, <2>2
  <2>4. ListOf(d) = "spd" \/ ListOf(d) = "sad"
    BY EntryIs DEF Lists
  <2>5. \A e \in Turned(running, new) :
          e \in es /\ \E i \in 1..Len(changes') : changes'[i].entry = e
    BY <1>9 DEF RecordsOK, TurnedHaveKeys, KeysIn
  <2>6. ASSUME NEW i \in 1..Len(changes')
        PROVE  cb' = ListOf(d)
    BY <1>8, <2>3, <2>4 DEF Concerns
  <2>7. QED
    BY <2>2, <2>3, <2>5, <2>6 DEF OfList
<1>12. QED
  BY <1>7, <1>8, <1>9, <1>10, <1>11

-----------------------------------------------------------------------------
(***************************************************************************)
(* Types.                                                                  *)
(***************************************************************************)

\* Find gives the first node under a name.
LEMMA FindFinds ==
  ASSUME NEW list \in Seq(Node), NEW n, NEW i, i = Find(list, n)
  PROVE  /\ i \in 0..Len(list)
         /\ i # 0 => NameOf(list[i].entry) = n
<1> DEFINE I == {j \in 1..Len(list) : NameOf(list[j].entry) = n}
<1>1. i = IF I # {} THEN Min(I) ELSE 0
  BY DEF Find, SelectInSeq
<1>2. I \subseteq 1..Len(list)
  OBVIOUS
<1> HIDE DEF I
<1>3. /\ i \in 0..Len(list)
      /\ i # 0 => i \in I
  BY <1>1, <1>2, FirstIndex
<1>4. QED
  BY <1>3 DEF I

\* A record a callback has before it is one of the changes.
LEMMA AtRecord ==
  ASSUME TypeOK, More
  PROVE  /\ at \in 1..Len(changes) /\ at + 1 \in 1..Len(changes) + 1
         /\ changes[at] \in Records
         /\ cb \in Lists
<1>1. Len(changes) \in Nat
  BY LenProperties DEF TypeOK
<1>2. at \in 1..Len(changes) /\ at + 1 \in 1..Len(changes) + 1
  BY <1>1 DEF TypeOK, More
<1>3. QED
  BY <1>2, ElementOfSeq DEF TypeOK, More

\* Nothing was known of an entry when NoNode was made.
LEMMA NoNodeIsNone == NoNode \notin Node
BY EntryIs DEF NoNode, Node

(***************************************************************************)
(* The agent's lists hold nodes, its iterator is at a record or behind the *)
(* last one, and the configuration is one the model of the data allows,    *)
(* whatever the commits change.                                            *)
(***************************************************************************)
THEOREM FeedTypeCorrect == Spec => []TypeOK
<1>1. Init => TypeOK
  <2> SUFFICES ASSUME Init
               PROVE  TypeOK
    OBVIOUS
  <2>1. running \in Running /\ wanted \in Running
    BY DEF Init, Running
  <2>2. nodes \in [Lists -> Seq(Node)]
    BY EmptySeq DEF Init, NoNodes
  <2>3. changes \in Seq(Records) /\ at \in 1..Len(changes) + 1
    BY EmptySeq DEF Init
  <2>4. commits \in 0..MaxCommits
    BY FeedAssumption DEF Init
  <2>5. QED
    BY <2>1, <2>2, <2>3, <2>4 DEF Init, TypeOK
<1>2. TypeOK /\ [Next]_vars => TypeOK'
  <2> SUFFICES ASSUME TypeOK, [Next]_vars
               PROVE  TypeOK'
    OBVIOUS
  <2>1. ASSUME NEW es \in SUBSET Entries, es # {}, IsFiniteSet(es), Edit(es)
        PROVE  TypeOK'
    <3>1. /\ cb' \in Lists /\ at' = 1 /\ commits' \in 0..MaxCommits
          /\ wanted' \in Running /\ changes' \in Seq(Records)
          /\ UNCHANGED <<running, reading, nodes>>
      BY <2>1, EditGives
    <3>2. at' \in 1..Len(changes') + 1
      BY <3>1, LenProperties
    <3>3. QED
      BY <3>1, <3>2 DEF TypeOK
  <2>2. CASE Pass
    BY <2>2, AtRecord DEF Pass, TypeOK
  <2>3. CASE StartReading
    <3>1. reading' \in Node
      BY <2>3, AtRecord DEF StartReading, Records, Node
    <3>2. QED
      BY <2>3, <3>1, AtRecord DEF StartReading, TypeOK
  <2>4. CASE ReadLeaf
    <3>1. reading \in Node
      BY <2>4 DEF ReadLeaf, TypeOK
    <3>2. changes[at].value \in Entries /\ cb \in Lists
      BY <2>4, AtRecord DEF ReadLeaf, Null, Records
    <3>3. reading' \in Node
      BY <2>4, <3>1, <3>2 DEF ReadLeaf, Node
    <3>4. QED
      BY <2>4, <3>3, AtRecord DEF ReadLeaf, TypeOK
  <2>5. CASE Link
    <3>1. reading \in Node
      BY <2>5 DEF Link, TypeOK
    <3>2. ASSUME NEW l \in Lists
          PROVE  Append(nodes[l], reading) \in Seq(Node)
      BY <3>1, AppendProperties DEF TypeOK
    <3>3. nodes' \in [Lists -> Seq(Node)]
      BY <2>5, <3>2 DEF Link, TypeOK
    <3>4. at' \in 1..Len(changes) + 1
      BY <2>5, AtRecord DEF Link, TypeOK
    <3>5. QED
      BY <2>5, <3>3, <3>4 DEF Link, TypeOK
  <2>6. CASE Unlink
    <3> DEFINE i == Find(nodes[cb], NameOf(changes[at].entry))
    <3>1. cb \in Lists /\ nodes[cb] \in Seq(Node)
      BY <2>6, AtRecord DEF Unlink, TypeOK
    <3>2. i # 0 /\ nodes' = [nodes EXCEPT ![cb] = RemoveAt(@, i)]
      BY <2>6 DEF Unlink
    <3>3. i \in 1..Len(nodes[cb])
      <4>1. i \in 0..Len(nodes[cb])
        BY <3>1, FindFinds
      <4> HIDE DEF i
      <4>2. QED
        BY <3>1, <3>2, <4>1, LenProperties
    <3> HIDE DEF i
    <3>4. RemoveAt(nodes[cb], i) \in Seq(Node)
      BY <3>1, <3>3, RemoveAtShifts
    <3>5. nodes' \in [Lists -> Seq(Node)]
      BY <3>1, <3>2, <3>4 DEF TypeOK
    <3>6. QED
      BY <2>6, <3>5, AtRecord DEF Unlink, TypeOK
  <2>7. ASSUME Over
        PROVE  at' \in 1..Len(changes') + 1 /\ changes' \in Seq(Records)
    BY <2>7, EmptySeq DEF Over
  <2>8. CASE Missing
    BY <2>7, <2>8 DEF Missing, Over, TypeOK
  <2>9. CASE Return
    <3>1. CASE cb = "spd" /\ Concerns("sad", changes)
      <4>1. at' \in 1..Len(changes) + 1
        BY <2>9, <3>1, LenProperties DEF Return, TypeOK
      <4>2. QED
        BY <2>9, <3>1, <4>1 DEF Return, TypeOK, Lists
    <3>2. CASE ~(cb = "spd" /\ Concerns("sad", changes))
      BY <2>7, <2>9, <3>2 DEF Return, Over, TypeOK
    <3>3. QED
      BY <3>1, <3>2
  <2>10. CASE Restart
    <3>1. NoNodes \in [Lists -> Seq(Node)]
      BY EmptySeq DEF NoNodes
    <3>2. QED
      BY <2>10, <3>1 DEF Restart, TypeOK
  <2>11. CASE UNCHANGED vars
    BY <2>11 DEF vars, TypeOK
  <2>12. CASE Crash
    <3>1. NoNodes \in [Lists -> Seq(Node)]
      BY EmptySeq DEF NoNodes
    <3>2. QED
      BY <2>7, <2>12, <3>1 DEF Crash, Over, TypeOK
  <2>13. QED
    BY <2>1, <2>2, <2>3, <2>4, <2>5, <2>6, <2>8, <2>9, <2>10, <2>11, <2>12 DEF Next, Callback
<1>3. QED
  BY <1>1, <1>2, PTL DEF Spec

-----------------------------------------------------------------------------
(***************************************************************************)
(* The iterator and the reader.                                            *)
(***************************************************************************)

\* What a reader is reading: an entry of the callback's list which is new,
\* from its key at p.
LEMMA ReaderAt ==
  ASSUME TypeOK, IdleInv, RecordsInv, reading # NoNode,
         NEW p \in KeysIn(changes), ReadsFrom(p),
         NEW e, e = reading.entry
  PROVE  /\ p \in 1..Len(changes) /\ Len(changes) \in Nat /\ at \in Nat /\ p < at
         /\ reading \in Node /\ e \in Entries
         /\ cb \in Lists /\ ListOf(e) = cb
         /\ e \in Turned(running, wanted) /\ wanted[e] # Absent
         /\ wanted[e] \subseteq Known(cb)
         /\ {changes[k].leaf :
               k \in {j \in 1..Len(changes) : j > p /\ changes[j].entry = e}} = wanted[e]
         /\ \A i \in 1..Len(changes) : changes[i].entry = e => changes[i].value = e
         /\ \A i \in 1..Len(changes) :
              changes[i].value = e /\ changes[i].leaf # "entry" => changes[i].entry = e
<1>1. cb # "none" /\ cb \in Lists
  BY DEF IdleInv, TypeOK
<1>2. RecordsOK(changes, running, wanted) /\ OfList(cb, changes, running, wanted)
  BY <1>1 DEF RecordsInv
<1>3. p \in 1..Len(changes) /\ Len(changes) \in Nat /\ at \in Nat /\ p < at
  BY LenProperties DEF KeysIn, TypeOK, ReadsFrom
<1>4. changes[p].entry = e /\ changes[p].op = "created"
  BY DEF ReadsFrom
<1>5. e \in Turned(running, wanted) /\ wanted[e] # Absent
  BY <1>2, <1>4 DEF RecordsOK, KeyTurns
<1>6. ListOf(e) = cb
  BY <1>2, <1>5 DEF OfList
<1>7. e \in Entries
  BY <1>5 DEF Turned
<1>8. wanted[e] \subseteq Known(cb)
  BY <1>6, <1>7, RunningLeaves DEF TypeOK, Known
<1>9. {changes[k].leaf :
         k \in {j \in 1..Len(changes) : j > p /\ changes[j].entry = e}} = wanted[e]
  BY <1>2, <1>4 DEF RecordsOK, LeavesFollow
<1>10. reading \in Node
  BY DEF TypeOK
<1>11. OwnValues(changes, running, wanted)
  BY <1>2 DEF RecordsOK
<1>12. QED
  BY <1>1, <1>3, <1>5, <1>6, <1>7, <1>8, <1>9, <1>10, <1>11 DEF OwnValues

\* Reading a record in the path of the entry: if it is one of the entry's
\* leaves the node gets it, whichever it is, and if not the node gets nothing.
LEMMA LeafRead ==
  ASSUME TypeOK, IdleInv, RecordsInv, ReadLeaf,
         NEW p \in KeysIn(changes), ReadsFrom(p)
  PROVE  ReadsFrom(p)'
<1> DEFINE e == reading.entry
           r == changes[at]
<1>1. /\ p \in 1..Len(changes) /\ Len(changes) \in Nat /\ at \in Nat /\ p < at
      /\ reading \in Node /\ wanted[e] \subseteq Known(cb) /\ cb \in Lists
      /\ {changes[k].leaf :
            k \in {j \in 1..Len(changes) : j > p /\ changes[j].entry = e}} = wanted[e]
      /\ \A i \in 1..Len(changes) :
           changes[i].value = e /\ changes[i].leaf # "entry" => changes[i].entry = e
  BY ReaderAt DEF ReadLeaf
<1>2. at \in 1..Len(changes) /\ r.value = e /\ at' = at + 1 /\ changes' = changes
  BY AtRecord DEF ReadLeaf, SameEntry
<1>3. r.leaf \in Known(cb) <=> r.entry = e
  <2>1. r.entry = e => r.leaf \in wanted[e]
    BY <1>1, <1>2
  <2>2. "entry" \notin Known(cb)
    BY <1>1, BodyLeaves DEF Known, Leaves
  <2>3. r.leaf # "entry" => r.entry = e
    BY <1>1, <1>2
  <2>4. QED
    BY <1>1, <2>1, <2>2, <2>3
<1>4. /\ reading'.entry = e
      /\ reading'.got = reading.got \cup (IF r.entry = e THEN {<<e, r.leaf>>} ELSE {})
  BY <1>1, <1>2, <1>3 DEF ReadLeaf, Node
<1>5. /\ changes[p].op = "created" /\ changes[p].entry = e
      /\ \A i \in Taken(p) : changes[i].value = e
      /\ reading.got = {<<e, changes[i].leaf>> : i \in Own(p)}
  BY DEF ReadsFrom
<1>6. Taken(p)' = Taken(p) \cup {at}
  BY <1>1, <1>2 DEF Taken
<1>7. Own(p)' = Own(p) \cup (IF r.entry = e THEN {at} ELSE {})
  BY <1>2, <1>4, <1>6 DEF Own
<1>8. /\ \A i \in Taken(p)' : changes[i].value = e
      /\ reading'.got = {<<e, changes[i].leaf>> : i \in Own(p)'}
  BY <1>2, <1>4, <1>5, <1>6, <1>7
<1>9. p < at'
  BY <1>1, <1>2
<1>10. QED
  BY <1>2, <1>4, <1>5, <1>8, <1>9 DEF ReadsFrom

\* The records of commits that change one list, and the reader's place, are as
\* RecordsInv and ReadingInv have them.
LEMMA FeedInvCorrect ==
  ASSUME ~Mixed
  PROVE  Spec => []FeedInv
<1>1. Init /\ TypeOK => FeedInv
  BY DEF Init, IdleInv, RecordsInv, ReadingInv, FeedInv
<1>2. FeedInv /\ [Next]_vars /\ TypeOK' => FeedInv'
  <2> SUFFICES ASSUME TypeOK, IdleInv, RecordsInv, ReadingInv, [Next]_vars
               PROVE  IdleInv' /\ RecordsInv' /\ ReadingInv'
    BY DEF FeedInv
  <2>1. ASSUME NEW es \in SUBSET Entries, es # {}, IsFiniteSet(es), Edit(es)
        PROVE  IdleInv' /\ RecordsInv' /\ ReadingInv'
    <3>1. /\ cb = "none" /\ cb' \in Lists
          /\ UNCHANGED <<running, reading, nodes>>
          /\ RecordsOK(changes', running, wanted')
          /\ OfList(cb', changes', running, wanted')
      BY <2>1, EditGives
    <3>2. reading' = NoNode
      BY <3>1 DEF IdleInv
    <3>3. cb' # "none"
      BY <3>1 DEF Lists
    <3>4. QED
      BY <3>1, <3>2, <3>3 DEF IdleInv, RecordsInv, ReadingInv
  <2>2. CASE Pass
    BY <2>2 DEF Pass, Looping, IdleInv, RecordsInv, ReadingInv
  <2>3. CASE StartReading
    <3>1. /\ cb # "none" /\ at' = at + 1
          /\ UNCHANGED <<running, wanted, changes, cb, nodes>>
      BY <2>3 DEF StartReading, Looping
    <3>2. at \in 1..Len(changes) /\ Len(changes) \in Nat
      BY <2>3, AtRecord, LenProperties DEF StartReading, TypeOK
    <3>3. /\ changes[at].op = "created" /\ changes[at].leaf = "name"
          /\ ~Exists(changes[at])
          /\ reading' = [entry |-> changes[at].entry, got |-> {}]
      BY <2>3 DEF StartReading, new_entry
    <3>4. at \in KeysIn(changes')
      BY <3>1, <3>2, <3>3 DEF KeysIn, IsName
    <3>5. at + 1..at' - 1 = {} /\ at < at'
      BY <3>1, <3>2
    <3>6. /\ reading'.entry = changes[at].entry
          /\ reading'.got = {}
      BY <3>3
    <3>7. \E p \in KeysIn(changes') : ReadsFrom(p)'
      BY <3>1, <3>3, <3>4, <3>5, <3>6 DEF ReadsFrom, Own, Taken
    <3>8. cb' = "spd" => Find(nodes'["spd"], NameOf(reading'.entry)) = 0
      BY <3>1, <3>3, <3>6 DEF Exists
    <3>9. QED
      BY <3>1, <3>7, <3>8 DEF IdleInv, RecordsInv, ReadingInv
  <2>4. CASE ReadLeaf
    <3>1. UNCHANGED <<running, wanted, changes, cb, nodes>>
      BY <2>4 DEF ReadLeaf
    <3>2. cb # "none" /\ reading # NoNode
      BY <2>4 DEF ReadLeaf, More
    <3>3. PICK p \in KeysIn(changes) : ReadsFrom(p)
      BY <3>2 DEF ReadingInv
    <3>4. ReadsFrom(p)'
      BY <2>4, <3>3, LeafRead
    <3>5. reading'.entry = reading.entry
      BY <3>3, <3>4, <3>1 DEF ReadsFrom
    <3>6. QED
      BY <3>1, <3>2, <3>3, <3>4, <3>5 DEF IdleInv, RecordsInv, ReadingInv
  <2>5. CASE Link
    BY <2>5 DEF Link, IdleInv, RecordsInv, ReadingInv
  <2>6. CASE Unlink
    BY <2>6 DEF Unlink, Looping, IdleInv, RecordsInv, ReadingInv
  <2>7. CASE Missing
    BY <2>7 DEF Missing, Looping, Over, IdleInv, RecordsInv, ReadingInv
  <2>8. CASE Return
    <3>1. cb # "none" /\ reading = NoNode /\ UNCHANGED <<wanted, reading>>
      BY <2>8 DEF Return, Looping
    <3>2. ~(cb = "spd" /\ Concerns("sad", changes))
      BY <3>1 DEF RecordsInv, OfList, Concerns
    <3>3. running' = wanted /\ Over
      BY <2>8, <3>2 DEF Return
    <3>4. QED
      BY <3>1, <3>3 DEF Over, IdleInv, RecordsInv, ReadingInv
  <2>9. CASE Restart
    BY <2>9 DEF Restart, IdleInv, RecordsInv, ReadingInv
  <2>10. CASE UNCHANGED vars
    BY <2>10 DEF vars, IdleInv, RecordsInv, ReadingInv, ReadsFrom, Own, Taken
  <2>11. CASE Crash
    BY <2>11 DEF Crash, Over, IdleInv, RecordsInv, ReadingInv
  <2>12. QED
    BY <2>1, <2>2, <2>3, <2>4, <2>5, <2>6, <2>7, <2>8, <2>9, <2>10, <2>11 DEF Next, Callback
<1>3. QED
  BY <1>1, <1>2, FeedTypeCorrect, PTL DEF Spec

-----------------------------------------------------------------------------
(***************************************************************************)
(* Refinement.                                                             *)
(***************************************************************************)

\* EntryWise and ChangeFeed have their operators from the same modules.
LEMMA SameOperators ==
  /\ Abstract!Entries = Entries
  /\ Abstract!Lists = Lists
  /\ Abstract!Absent = Absent
  /\ Abstract!NoNodes = NoNodes
  /\ Abstract!Running = Running
  /\ \A e : Abstract!ListOf(e) = ListOf(e) /\ Abstract!NameOf(e) = NameOf(e)
  /\ \A old, new : Abstract!Turned(old, new) = Turned(old, new)
  /\ \A e, leaves : Abstract!NodeOf(e, leaves) = NodeOf(e, leaves)
  /\ \A list, n : Abstract!Find(list, n) = Find(list, n)
  /\ \A list, i : Abstract!RemoveAt(list, i) = RemoveAt(list, i)
<1>1. /\ Abstract!Entries = Entries
      /\ Abstract!Lists = Lists
      /\ Abstract!Absent = Absent
      /\ Abstract!NoNodes = NoNodes
  BY DEF Abstract!Entries, Entries, Abstract!Lists, Lists, Abstract!Absent, Absent,
         Abstract!NoNodes, NoNodes
<1>2. \A e : Abstract!ListOf(e) = ListOf(e) /\ Abstract!NameOf(e) = NameOf(e)
  BY DEF Abstract!ListOf, ListOf, Abstract!NameOf, NameOf
<1>3. \A l : Abstract!Body(l) = Body(l)
  BY DEF Abstract!Body, Body
<1>4. \A s : Abstract!ToSet(s) = ToSet(s)
  BY DEF Abstract!ToSet, ToSet
<1>5. \A l : Abstract!Configs(l) = Configs(l) /\ Abstract!Known(l) = Known(l)
  BY <1>3, <1>4 DEF Abstract!Configs, Configs, Abstract!Known, Known,
                    Abstract!Optional, Optional
<1>6. Abstract!Running = Running
  BY <1>1, <1>2, <1>5 DEF Abstract!Running, Running
<1>7. \A old, new : Abstract!Turned(old, new) = Turned(old, new)
  BY <1>1 DEF Abstract!Turned, Turned
<1>8. \A e, leaves : Abstract!NodeOf(e, leaves) = NodeOf(e, leaves)
  BY <1>2, <1>5 DEF Abstract!NodeOf, NodeOf
<1>9. \A list, n : Abstract!Find(list, n) = Find(list, n)
  BY DEF Abstract!Find, Find, Abstract!SelectInSeq, SelectInSeq, Abstract!Min, Min,
         Abstract!NameOf, NameOf
<1>10. \A list, i : Abstract!RemoveAt(list, i) = RemoveAt(list, i)
  BY DEF Abstract!RemoveAt, RemoveAt
<1>11. QED
  BY <1>1, <1>2, <1>6, <1>7, <1>8, <1>9, <1>10

\* The entries that are not handled yet, as Abstract has them.
Todo == {e \in Turned(running, wanted) : Pending(e)}

\* Those being read or whose key the iterator has before it.
Ahead ==
  {e \in Turned(running, wanted) :
     reading.entry = e \/ \E i \in KeysIn(changes) : i >= at /\ changes[i].entry = e}

\* They are the same while a commit is under way.
LEMMA TodoAhead ==
  ASSUME TypeOK, RecordsInv
  PROVE  /\ cb # "none" => Todo = Ahead
         /\ cb = "none" /\ wanted = running => Todo = {}
<1>1. ASSUME cb # "none"
      PROVE  Todo = Ahead
  <2>1. OfList(cb, changes, running, wanted)
    BY <1>1 DEF RecordsInv
  <2>2. Len(changes) \in Nat /\ at \in Nat /\ at >= 1
    BY LenProperties DEF TypeOK
  <2>3. ASSUME NEW e \in Turned(running, wanted)
        PROVE  Pending(e) <=> \/ reading.entry = e
                              \/ \E i \in KeysIn(changes) : i >= at /\ changes[i].entry = e
    <3>1. ListOf(e) = cb
      BY <2>1 DEF OfList
    <3>2. \A i : i \in at..Len(changes) <=> i \in 1..Len(changes) /\ i >= at
      BY <2>2
    <3>3. QED
      BY <3>1, <3>2 DEF Pending, KeysIn, IsName
  <2>4. QED
    BY <2>3 DEF Todo, Ahead
<1>2. ASSUME cb = "none", wanted = running
      PROVE  Todo = {}
  BY <1>2 DEF Todo, Turned
<1>3. QED
  BY <1>1, <1>2

\* The iterator goes past a record that is no key, and nothing changes.
\* Past a key, its entry is no longer ahead.
LEMMA PastRecord ==
  ASSUME TypeOK, RecordsInv, More, reading = NoNode,
         at' = at + 1, UNCHANGED <<running, wanted, changes, reading>>
  PROVE  /\ ~IsName(changes[at]) => Ahead' = Ahead
         /\ IsName(changes[at]) =>
              changes[at].entry \in Ahead /\ Ahead' = Ahead \ {changes[at].entry}
<1> DEFINE r == changes[at]
<1>1. at \in 1..Len(changes) /\ cb # "none" /\ at \in Nat
  BY AtRecord, LenProperties DEF More, TypeOK
<1>2. RecordsOK(changes, running, wanted)
  BY <1>1 DEF RecordsInv
<1>3. KeysIn(changes) \subseteq Nat
  BY LenProperties DEF KeysIn, TypeOK
<1>4. \A i \in KeysIn(changes) : i >= at' <=> i >= at /\ i # at
  BY <1>1, <1>3
<1>5. \A e \in Turned(running, wanted) : reading.entry # e
  BY EntryIs DEF NoNode, Turned
<1>6. Ahead' = {e \in Turned(running, wanted) :
                 \E i \in KeysIn(changes) : i >= at /\ i # at /\ changes[i].entry = e}
  BY <1>4, <1>5 DEF Ahead
<1>7. Ahead = {e \in Turned(running, wanted) :
                \E i \in KeysIn(changes) : i >= at /\ changes[i].entry = e}
  BY <1>5 DEF Ahead
<1>8. IsName(r) <=> at \in KeysIn(changes)
  BY <1>1 DEF KeysIn
<1>9. ASSUME ~IsName(r)
      PROVE  Ahead' = Ahead
  BY <1>6, <1>7, <1>8, <1>9
<1>10. ASSUME IsName(r)
       PROVE  r.entry \in Ahead /\ Ahead' = Ahead \ {r.entry}
  <2>1. at \in KeysIn(changes) /\ at >= at
    BY <1>1, <1>8, <1>10
  <2>2. r.entry \in Turned(running, wanted)
    BY <1>2, <2>1 DEF RecordsOK, KeyTurns
  <2>3. \A i \in KeysIn(changes) : changes[i].entry = r.entry => i = at
    BY <1>2, <2>1 DEF RecordsOK, OneKey
  <2>4. r.entry \in Ahead
    BY <1>7, <2>1, <2>2
  <2>5. r.entry \notin Ahead'
    BY <1>6, <2>3
  <2>6. \A e : e # r.entry => (e \in Ahead' <=> e \in Ahead)
    BY <1>6, <1>7
  <2>7. \A e : e \in Ahead' <=> e \in Ahead /\ e # r.entry
    BY <2>5, <2>6
  <2> HIDE DEF r
  <2>8. QED
    BY <2>4, <2>7
<1>11. QED
  BY <1>9, <1>10

\* A key is that of an entry of the callback's list.
LEMMA KeyAt ==
  ASSUME TypeOK, RecordsInv, More, IsName(changes[at]),
         NEW e, e = changes[at].entry
  PROVE  /\ e \in Entries /\ ListOf(e) = cb
         /\ changes[at].op = IF wanted[e] = Absent THEN "deleted" ELSE "created"
<1>1. at \in KeysIn(changes) /\ cb # "none"
  BY AtRecord DEF More, KeysIn
<1>2. /\ KeyTurns(changes, running, wanted)
      /\ OfList(cb, changes, running, wanted)
  BY <1>1 DEF RecordsInv, RecordsOK
<1>3. e \in Turned(running, wanted)
  BY <1>1, <1>2 DEF KeyTurns
<1>4. QED
  BY <1>1, <1>2, <1>3 DEF KeyTurns, OfList, Turned

\* A commit begins with every entry that turns still to be handled.
LEMMA EditBegins ==
  ASSUME ~Mixed, FeedInv, TypeOK', RecordsInv',
         NEW es \in SUBSET Entries, es # {}, IsFiniteSet(es), Edit(es)
  PROVE  Abstract!Begin
<1>1. /\ cb = "none" /\ cb' # "none" /\ at' = 1
      /\ wanted' \in Running
      /\ UNCHANGED <<running, nodes>>
      /\ RecordsOK(changes', running, wanted')
  BY EditGives DEF FeedInv, Lists
<1>2. wanted = running /\ Todo = {}
  BY <1>1, TodoAhead DEF FeedInv, IdleInv
<1>3. Todo' = Ahead'
  BY <1>1 DEF Todo, Ahead, Pending, RecordsInv, OfList, KeysIn, IsName
<1>4. \A i \in KeysIn(changes') : i >= at'
  BY <1>1 DEF KeysIn
<1>5. \A e \in Turned(running, wanted') :
        \E i \in KeysIn(changes') : i >= at' /\ changes'[i].entry = e
  BY <1>1, <1>4 DEF RecordsOK, TurnedHaveKeys
<1>6. Ahead' = Turned(running, wanted')
  BY <1>1, <1>5 DEF Ahead
<1>7. QED
  BY <1>1, <1>2, <1>3, <1>6, SameOperators DEF Abstract!Begin, Todo

\* The loop goes past a record: a key it passes is that of a new policy whose
\* name has a node.
LEMMA PassStep ==
  ASSUME FeedInv, Pass, Todo' = Ahead'
  PROVE  UNCHANGED Abstract!entryVars \/ \E e \in Todo : Abstract!Create(e)
<1> DEFINE r == changes[at]
           e == r.entry
<1>1. /\ More /\ reading = NoNode /\ cb # "none"
      /\ at' = at + 1 /\ UNCHANGED <<running, wanted, changes, cb, reading, nodes>>
  BY DEF Pass, Looping
<1>2. Todo = Ahead
  BY <1>1, TodoAhead DEF FeedInv
<1>3. CASE ~IsName(r)
  <2>1. Ahead' = Ahead
    BY <1>1, <1>3, PastRecord DEF FeedInv
  <2>2. QED
    BY <1>1, <1>2, <2>1 DEF Abstract!entryVars, Todo
<1>4. CASE IsName(r)
  <2>1. /\ e \in Entries /\ ListOf(e) = cb
        /\ r.op = IF wanted[e] = Absent THEN "deleted" ELSE "created"
    BY <1>1, <1>4, KeyAt DEF FeedInv
  <2>2. wanted[e] # Absent /\ Exists(r)
    BY <1>4, <2>1 DEF Pass, new_entry, IsName
  <2>3. ListOf(e) = "spd" /\ Find(nodes[ListOf(e)], NameOf(e)) # 0
    BY <2>1, <2>2 DEF Exists
  <2>4. e \in Todo /\ Todo' = Todo \ {e}
    BY <1>1, <1>2, <1>4, PastRecord DEF FeedInv
  <2> HIDE DEF e
  <2>5. Abstract!Create(e)
    BY <1>1, <2>2, <2>3, <2>4, SameOperators DEF Abstract!Create, Abstract!NodeAt, Todo
  <2>6. QED
    BY <2>4, <2>5
<1>5. QED
  BY <1>3, <1>4

\* Beginning to read an entry does not handle it.
LEMMA StartStep ==
  ASSUME FeedInv, StartReading, Todo' = Ahead'
  PROVE  UNCHANGED Abstract!entryVars
<1> DEFINE e == changes[at].entry
<1>1. /\ More /\ reading = NoNode /\ cb # "none" /\ IsName(changes[at])
      /\ at' = at + 1 /\ UNCHANGED <<running, wanted, changes, cb, nodes>>
      /\ reading'.entry = e
  BY DEF StartReading, Looping, new_entry, IsName
<1>2. Todo = Ahead
  BY <1>1, TodoAhead DEF FeedInv
<1>3. at \in KeysIn(changes) /\ at \in Nat /\ KeysIn(changes) \subseteq Nat
  BY <1>1, AtRecord, LenProperties DEF FeedInv, TypeOK, KeysIn
<1>4. OneKey(changes)
  BY <1>1 DEF FeedInv, RecordsInv, RecordsOK
<1>5. \A d \in Turned(running, wanted) : reading.entry # d
  BY <1>1, EntryIs DEF NoNode, Turned
<1>6. \A i \in KeysIn(changes) : i >= at' <=> i >= at /\ i # at
  BY <1>1, <1>3
<1>7. ASSUME NEW d \in Turned(running, wanted)
      PROVE  \/ reading'.entry = d
             \/ \E i \in KeysIn(changes') : i >= at' /\ changes'[i].entry = d
             <=> \E i \in KeysIn(changes) : i >= at /\ changes[i].entry = d
  <2>1. CASE d = e
    BY <1>1, <1>3, <2>1
  <2>2. CASE d # e
    <3>1. \A i \in KeysIn(changes) : changes[i].entry = d => i # at
      BY <2>2
    <3>2. QED
      BY <1>1, <1>6, <2>2, <3>1
  <2>3. QED
    BY <2>1, <2>2
<1>8. Ahead' = Ahead
  BY <1>1, <1>5, <1>7 DEF Ahead
<1>9. QED
  BY <1>1, <1>2, <1>8 DEF Abstract!entryVars, Todo

\* Nor does reading its leaves.
LEMMA ReadStep ==
  ASSUME FeedInv, ReadLeaf, Todo' = Ahead'
  PROVE  UNCHANGED Abstract!entryVars
<1> DEFINE e == reading.entry
<1>1. /\ More /\ reading # NoNode /\ cb # "none" /\ changes[at].value = e
      /\ at' = at + 1 /\ UNCHANGED <<running, wanted, changes, cb, nodes>>
  BY DEF ReadLeaf, More, SameEntry
<1>2. Todo = Ahead
  BY <1>1, TodoAhead DEF FeedInv
<1>3. PICK p \in KeysIn(changes) : ReadsFrom(p)
  BY <1>1 DEF FeedInv, ReadingInv
<1>4. p < at /\ changes[p].entry = e
  BY <1>3 DEF ReadsFrom
<1>5. at \in Nat /\ KeysIn(changes) \subseteq Nat /\ p \in Nat
  BY LenProperties DEF FeedInv, TypeOK, KeysIn
<1>6. at \notin KeysIn(changes)
  <2>1. OneKey(changes)
    BY <1>1 DEF FeedInv, RecordsInv, RecordsOK
  <2>2. p # at
    BY <1>4, <1>5
  <2>3. \A i \in 1..Len(changes) :
          changes[i].value = e /\ changes[i].leaf # "entry" => changes[i].entry = e
    BY <1>1, <1>3, ReaderAt DEF FeedInv
  <2>4. at \in KeysIn(changes) => changes[at].entry = e
    BY <1>1, <2>3 DEF KeysIn, IsName
  <2>5. QED
    BY <1>3, <1>4, <2>1, <2>2, <2>4 DEF OneKey
<1>7. \A i \in KeysIn(changes) : i >= at' <=> i >= at
  BY <1>1, <1>5, <1>6
<1>8. reading'.entry = e
  <2>1. ReadsFrom(p)'
    BY <1>3, LeafRead DEF FeedInv
  <2>2. QED
    BY <1>1, <1>4, <2>1 DEF ReadsFrom
<1>9. Ahead' = Ahead
  BY <1>1, <1>7, <1>8 DEF Ahead
<1>10. QED
  BY <1>1, <1>2, <1>9 DEF Abstract!entryVars, Todo

\* The reader's node is the entry's: it has taken all its leaves, no others,
\* and no key of another entry.
LEMMA LinkStep ==
  ASSUME FeedInv, Link, Todo' = Ahead'
  PROVE  \E e \in Todo : Abstract!Create(e)
<1> DEFINE e == reading.entry
<1>1. /\ reading # NoNode /\ reading' = NoNode
      /\ More => changes[at].value # e
      /\ at' = IF More THEN at + 1 ELSE at
      /\ nodes' = [nodes EXCEPT ![cb] = Append(@, reading)]
      /\ UNCHANGED <<running, wanted, changes, cb>>
  BY DEF Link, SameEntry
<1>2. PICK p \in KeysIn(changes) : ReadsFrom(p)
  BY <1>1 DEF FeedInv, ReadingInv
<1>3. /\ p \in 1..Len(changes) /\ Len(changes) \in Nat /\ at \in Nat /\ p < at
      /\ reading \in Node /\ e \in Entries
      /\ cb \in Lists /\ ListOf(e) = cb
      /\ e \in Turned(running, wanted) /\ wanted[e] # Absent
      /\ wanted[e] \subseteq Known(cb)
      /\ {changes[k].leaf :
            k \in {j \in 1..Len(changes) : j > p /\ changes[j].entry = e}} = wanted[e]
      /\ \A i \in 1..Len(changes) : changes[i].entry = e => changes[i].value = e
      /\ \A i \in 1..Len(changes) :
           changes[i].value = e /\ changes[i].leaf # "entry" => changes[i].entry = e
  BY <1>1, <1>2, ReaderAt DEF FeedInv
<1>4. cb # "none" /\ Todo = Ahead
  BY <1>3, TodoAhead DEF FeedInv, Lists
<1>5. Contiguous(changes) /\ KeyFollows(changes) /\ OneKey(changes)
  BY <1>4 DEF FeedInv, RecordsInv, RecordsOK
<1>6. /\ changes[p].entry = e
      /\ \A i \in Taken(p) : changes[i].value = e
      /\ reading.got = {<<e, changes[i].leaf>> : i \in Own(p)}
  BY <1>2 DEF ReadsFrom
<1>7. More <=> at \in 1..Len(changes)
  BY <1>3, <1>4 DEF More, FeedInv, TypeOK
<1>8. at <= Len(changes) + 1
  BY <1>3 DEF FeedInv, TypeOK
\* All that is left of the entry's records has been taken.
<1>9. {j \in 1..Len(changes) : j > p /\ changes[j].entry = e} = Own(p)
  <2>1. ASSUME NEW j \in 1..Len(changes), j > p, changes[j].entry = e
        PROVE  j \in Own(p)
    <3>1. ASSUME ~(j < at)
          PROVE  FALSE
      <4>1. at \in 1..Len(changes) /\ p < at
        BY <1>3, <3>1
      <4>2. changes[at].entry # e
        BY <1>1, <1>3, <1>7, <4>1
      <4>3. at # j /\ at < j
        BY <1>3, <2>1, <3>1, <4>2
      <4>4. QED
        BY <1>3, <1>5, <1>6, <2>1, <4>1, <4>2, <4>3 DEF Contiguous
    <3>2. QED
      BY <1>3, <2>1, <3>1 DEF Own, Taken
  <2>2. \A j \in Own(p) : j \in 1..Len(changes) /\ j > p /\ changes[j].entry = e
    BY <1>3, <1>8 DEF Own, Taken
  <2>3. QED
    BY <2>1, <2>2
<1>10. reading = NodeOf(e, wanted[e])
  <2>1. {changes[k].leaf : k \in Own(p)} = wanted[e]
    BY <1>3, <1>9
  <2>2. {<<e, changes[i].leaf>> : i \in Own(p)} = {<<e, f>> : f \in wanted[e]}
    BY <2>1
  <2>3. wanted[e] \cap Known(ListOf(e)) = wanted[e]
    BY <1>3
  <2>4. reading = [entry |-> e, got |-> reading.got]
    BY <1>3 DEF Node
  <2>5. QED
    BY <1>6, <2>2, <2>3, <2>4 DEF NodeOf
\* The record it has taken in vain is no key.
<1>11. at \notin KeysIn(changes)
  <2> SUFFICES ASSUME at \in KeysIn(changes)
               PROVE  FALSE
    OBVIOUS
  <2> DEFINE d == changes[at].entry
  <2>1. at > 1 /\ changes[at - 1].entry = d
    BY <1>5 DEF KeyFollows
  <2>2. at \in 1..Len(changes) /\ at - 1 \in 1..Len(changes)
    BY <1>3, <2>1 DEF KeysIn
  <2>3. d # e
    BY <1>1, <1>3, <1>7, <2>2
  <2>4. d \in Turned(running, wanted) /\ OwnValues(changes, running, wanted)
    BY <1>4 DEF FeedInv, RecordsInv, RecordsOK, KeyTurns
  <2>5. changes[at - 1].value = d
    BY <2>1, <2>2, <2>4 DEF OwnValues
  <2>6. at - 1 = p \/ at - 1 \in Taken(p)
    BY <1>3 DEF Taken
  <2>7. QED
    BY <1>6, <2>1, <2>3, <2>5, <2>6
<1>12. KeysIn(changes) \subseteq Nat
  BY <1>3 DEF KeysIn
<1>13. \A i \in KeysIn(changes) : i >= at' <=> i >= at
  BY <1>1, <1>3, <1>11, <1>12
<1>14. \A i \in KeysIn(changes) : changes[i].entry = e => ~(i >= at)
  <2>1. \A i \in KeysIn(changes) : changes[i].entry = e => i = p
    BY <1>5, <1>6 DEF OneKey
  <2>2. ~(p >= at)
    BY <1>3
  <2>3. QED
    BY <2>1, <2>2
<1>15. \A d \in Turned(running, wanted) : reading'.entry # d
  BY <1>1, EntryIs DEF NoNode, Turned
<1>16. e \in Ahead /\ Ahead' = Ahead \ {e}
  <2>1. e \in Ahead
    BY <1>3 DEF Ahead
  <2>2. Ahead' = {d \in Turned(running, wanted) :
                   \E i \in KeysIn(changes) : i >= at /\ changes[i].entry = d}
    BY <1>1, <1>13, <1>15 DEF Ahead
  <2>3. \A d \in Turned(running, wanted) : d \in Ahead' <=> d \in Ahead /\ d # e
    BY <1>14, <2>2 DEF Ahead
  <2>4. Ahead \subseteq Turned(running, wanted) /\ Ahead' \subseteq Turned(running, wanted)
    BY <2>2 DEF Ahead
  <2>5. QED
    BY <2>1, <2>3, <2>4
<1>17. cb = "spd" => Find(nodes[cb], NameOf(e)) = 0
  BY <1>1 DEF FeedInv, ReadingInv
<1> HIDE DEF e
<1>18. Abstract!Create(e)
  BY <1>1, <1>3, <1>4, <1>10, <1>16, <1>17, SameOperators
     DEF Abstract!Create, Abstract!NodeAt, Todo
<1>19. QED
  BY <1>4, <1>16, <1>18

\* The node of a deleted entry goes.
LEMMA UnlinkStep ==
  ASSUME FeedInv, Unlink, Todo' = Ahead'
  PROVE  \E e \in Todo : Abstract!Delete(e)
<1> DEFINE r == changes[at]
           e == r.entry
<1>1. /\ More /\ reading = NoNode /\ cb # "none" /\ IsName(r) /\ r.op = "deleted"
      /\ at' = at + 1 /\ UNCHANGED <<running, wanted, changes, cb, reading>>
      /\ Find(nodes[cb], NameOf(e)) # 0
      /\ nodes' = [nodes EXCEPT ![cb] = RemoveAt(@, Find(nodes[cb], NameOf(e)))]
  BY DEF Unlink, Looping, new_entry, IsName
<1>2. Todo = Ahead
  BY <1>1, TodoAhead DEF FeedInv
<1>3. ListOf(e) = cb /\ wanted[e] = Absent
  BY <1>1, KeyAt DEF FeedInv
<1>4. e \in Todo /\ Todo' = Todo \ {e}
  BY <1>1, <1>2, PastRecord DEF FeedInv
<1>5. cb \in Lists /\ nodes \in [Lists -> Seq(Node)]
  BY <1>1, AtRecord DEF FeedInv, TypeOK
<1> HIDE DEF e
<1>6. Abstract!Delete(e)
  BY <1>1, <1>3, <1>4, <1>5, SameOperators DEF Abstract!Delete, Abstract!NodeAt, Todo
<1>7. QED
  BY <1>4, <1>6

\* A deletion whose node is missing ends the commit.
LEMMA MissingStep ==
  ASSUME FeedInv, Missing
  PROVE  \E e \in Todo : Abstract!Fail(e)
<1> DEFINE r == changes[at]
           e == r.entry
<1>1. /\ More /\ reading = NoNode /\ cb # "none" /\ IsName(r) /\ r.op = "deleted"
      /\ Find(nodes[cb], NameOf(e)) = 0
      /\ cb' = "none" /\ wanted' = running /\ UNCHANGED <<running, nodes>>
  BY DEF Missing, Looping, new_entry, IsName, Over
<1>2. Todo = Ahead
  BY <1>1, TodoAhead DEF FeedInv
<1>3. ListOf(e) = cb /\ wanted[e] = Absent
  BY <1>1, KeyAt DEF FeedInv
<1>4. e \in Todo
  <2>1. at \in KeysIn(changes) /\ at >= at
    BY <1>1, AtRecord, LenProperties DEF FeedInv, TypeOK, KeysIn
  <2>2. e \in Turned(running, wanted)
    BY <1>1, <2>1 DEF FeedInv, RecordsInv, RecordsOK, KeyTurns
  <2>3. QED
    BY <1>2, <2>1, <2>2 DEF Ahead
<1>5. Todo' = {}
  BY <1>1 DEF Todo, Turned
<1> HIDE DEF e
<1>6. Abstract!Fail(e)
  BY <1>1, <1>3, <1>5, SameOperators DEF Abstract!Fail, Abstract!NodeAt, Todo
<1>7. QED
  BY <1>4, <1>6

\* A reader that meets a null pointer is reading an entry still to be handled,
\* in a commit that has moved another one to the first place.
LEMMA CrashStep ==
  ASSUME FeedInv, Crash
  PROVE  \E e \in Todo : Abstract!Die(e)
<1> DEFINE e == reading.entry
<1>1. /\ More /\ reading # NoNode /\ cb # "none" /\ changes[at].value = NoEntry
      /\ wanted' = running /\ nodes' = NoNodes /\ UNCHANGED running
  BY DEF Crash, Over, More, Null
<1>2. PICK p \in KeysIn(changes) : ReadsFrom(p)
  BY <1>1 DEF FeedInv, ReadingInv
<1>3. e \in Turned(running, wanted) /\ wanted[e] # Absent
  BY <1>1, <1>2, ReaderAt DEF FeedInv
<1>4. e \in Todo
  BY <1>1, <1>3, TodoAhead DEF FeedInv, Ahead
<1>5. ToFirst
  <2>1. at \in 1..Len(changes)
    BY <1>1, AtRecord DEF FeedInv
  <2>2. QED
    BY <1>1, <2>1 DEF FeedInv, RecordsInv, RecordsOK, FirstOnly
<1>6. Todo' = {}
  BY <1>1 DEF Todo, Turned
<1> HIDE DEF e
<1>7. Abstract!Die(e)
  BY <1>1, <1>3, <1>5, <1>6, SameOperators DEF Abstract!Die, Todo
<1>8. QED
  BY <1>4, <1>7

\* At the end of the records nothing is left to be handled.
LEMMA ReturnStep ==
  ASSUME FeedInv, Return
  PROVE  Abstract!Succeed
<1>1. /\ ~More /\ reading = NoNode /\ cb # "none" /\ UNCHANGED <<wanted, nodes>>
  BY DEF Return, Looping
<1>2. ~(cb = "spd" /\ Concerns("sad", changes))
  BY <1>1 DEF FeedInv, RecordsInv, OfList, Concerns
<1>3. running' = wanted
  BY <1>2 DEF Return
<1>4. Todo = Ahead
  BY <1>1, TodoAhead DEF FeedInv
<1>5. \A i \in KeysIn(changes) : ~(i >= at)
  BY <1>1, LenProperties DEF FeedInv, TypeOK, More, KeysIn
<1>6. \A e \in Turned(running, wanted) : reading.entry # e
  BY <1>1, EntryIs DEF NoNode, Turned
<1>7. Todo = {}
  BY <1>4, <1>5, <1>6 DEF Ahead
<1>8. Todo' = {}
  BY <1>1, <1>3 DEF Todo, Turned
<1>9. QED
  BY <1>1, <1>3, <1>7, <1>8 DEF Abstract!Succeed, Todo

\* A process starts between commits.
LEMMA RestartStep ==
  ASSUME FeedInv, Restart
  PROVE  Abstract!Restart
<1>1. /\ cb = "none" /\ wanted = running
      /\ nodes' = NoNodes /\ UNCHANGED <<running, wanted, cb>>
  BY DEF Restart, FeedInv, IdleInv
<1>2. Todo = {} /\ Todo' = {}
  BY <1>1 DEF Todo, Turned
<1>3. QED
  BY <1>1, <1>2, SameOperators DEF Abstract!Restart, Todo

(***************************************************************************)
(* Over commits that change one list, whatever its names, however many     *)
(* entries a commit changes and in whatever order sysrepo has their        *)
(* records, the callbacks handle every entry that is created or deleted    *)
(* exactly once, and the readers give its node all the leaves of the entry *)
(* and no others.  (mixed_commit shows that this needs ~Mixed.)  Unless a  *)
(* commit may move an entry to the first place, no handling ends the       *)
(* process.                                                                *)
(***************************************************************************)
THEOREM FeedImplementsEntryWise ==
  ASSUME ~Mixed
  PROVE  Spec => ImplementsEntryWise
<1>1. Init => Abstract!EntryInit
  <2> SUFFICES ASSUME Init
               PROVE  Abstract!EntryInit
    OBVIOUS
  <2>1. wanted = running /\ Todo = {}
    BY DEF Init, Todo, Turned
  <2>2. QED
    BY <2>1, SameOperators DEF Init, Abstract!EntryInit, Todo
<1>2. FeedInv /\ FeedInv' /\ [Next]_vars => [Abstract!EntryNext]_Abstract!entryVars
  <2> SUFFICES ASSUME FeedInv, FeedInv', [Next]_vars
               PROVE  [Abstract!EntryNext]_Abstract!entryVars
    OBVIOUS
  <2>1. cb' # "none" => Todo' = Ahead'
    <3>1. TypeOK' /\ RecordsInv'
      BY DEF FeedInv
    <3>2. cb' # "none" => OfList(cb', changes', running', wanted')
      BY <3>1 DEF RecordsInv
    <3>3. Len(changes') \in Nat /\ at' \in Nat /\ at' >= 1
      BY <3>1, LenProperties DEF TypeOK
    <3>4. \A i : i \in at'..Len(changes') <=> i \in 1..Len(changes') /\ i >= at'
      BY <3>3
    <3>5. QED
      BY <3>2, <3>4 DEF Todo, Ahead, Pending, OfList, KeysIn, IsName
  <2>2. ASSUME NEW es \in SUBSET Entries, es # {}, IsFiniteSet(es), Edit(es)
        PROVE  Abstract!EntryNext
    BY <2>2, EditBegins DEF FeedInv, Abstract!EntryNext
  <2>3. ASSUME \E e \in Todo : \/ Abstract!Create(e) \/ Abstract!Delete(e)
                               \/ Abstract!Fail(e) \/ Abstract!Die(e)
        PROVE  Abstract!EntryNext
    BY <2>3 DEF Abstract!EntryNext, Todo
  <2>4. CASE Pass
    BY <2>1, <2>3, <2>4, PassStep DEF Pass, Looping
  <2>5. CASE StartReading
    BY <2>1, <2>5, StartStep DEF StartReading, Looping
  <2>6. CASE ReadLeaf
    BY <2>1, <2>6, ReadStep DEF ReadLeaf, More
  <2>7. CASE Link
    <3>1. cb' # "none"
      BY <2>7 DEF Link, FeedInv, IdleInv
    <3>2. QED
      BY <2>1, <2>3, <2>7, <3>1, LinkStep
  <2>8. CASE Unlink
    BY <2>1, <2>3, <2>8, UnlinkStep DEF Unlink, Looping
  <2>9. CASE Missing
    BY <2>3, <2>9, MissingStep
  <2>10. CASE Return
    BY <2>10, ReturnStep DEF Abstract!EntryNext
  <2>11. CASE Restart
    BY <2>11, RestartStep DEF Abstract!EntryNext
  <2>12. CASE UNCHANGED vars
    BY <2>12 DEF vars, Abstract!entryVars, Pending
  <2>13. CASE Crash
    BY <2>3, <2>13, CrashStep
  <2>14. QED
    BY <2>2, <2>4, <2>5, <2>6, <2>7, <2>8, <2>9, <2>10, <2>11, <2>12, <2>13
    DEF Next, Callback
<1>3. Spec => []FeedInv
  BY FeedInvCorrect
<1>4. QED
  BY <1>1, <1>2, <1>3, PTL DEF Spec, ImplementsEntryWise, Abstract!EntrySpec

(***************************************************************************)
(* Over such commits the SPD list holds SPD entries only.                  *)
(***************************************************************************)
THEOREM SpdHoldsSpdCorrect ==
  ASSUME ~Mixed
  PROVE  Spec => []SpdHoldsSpd
<1>1. Init => SpdHoldsSpd
  <2> SUFFICES ASSUME Init
               PROVE  SpdHoldsSpd
    OBVIOUS
  <2>1. nodes["spd"] = << >>
    BY DEF Init, NoNodes, Lists
  <2>2. QED
    BY <2>1, EmptySeq DEF SpdHoldsSpd
<1>2. SpdHoldsSpd /\ FeedInv /\ [Next]_vars => SpdHoldsSpd'
  <2> SUFFICES ASSUME SpdHoldsSpd, FeedInv, [Next]_vars
               PROVE  SpdHoldsSpd'
    OBVIOUS
  <2> DEFINE list == nodes["spd"]
  <2>1. list \in Seq(Node) /\ Len(list) \in Nat
    BY LenProperties DEF FeedInv, TypeOK, Lists
  <2>2. \A i \in 1..Len(list) : ListOf(list[i].entry) = "spd"
    BY DEF SpdHoldsSpd
  <2>3. CASE nodes' = nodes
    BY <2>2, <2>3 DEF SpdHoldsSpd
  <2>4. CASE Link
    <3> DEFINE new == Append(list, reading)
    <3>1. reading # NoNode /\ nodes' = [nodes EXCEPT ![cb] = Append(@, reading)]
      BY <2>4 DEF Link
    <3>2. PICK p \in KeysIn(changes) : ReadsFrom(p)
      BY <3>1 DEF FeedInv, ReadingInv
    <3>3. reading \in Node /\ ListOf(reading.entry) = cb /\ cb \in Lists
      BY <3>1, <3>2, ReaderAt DEF FeedInv
    <3>4. CASE cb = "spd"
      <4>1. nodes'["spd"] = new
        BY <3>1, <3>3, <3>4 DEF FeedInv, TypeOK
      <4> HIDE DEF list
      <4>2. /\ Len(new) = Len(list) + 1
            /\ \A i \in 1..Len(list) : new[i] = list[i]
            /\ new[Len(list) + 1] = reading
        BY <2>1, <3>3, AppendProperties
      <4> HIDE DEF new
      <4>3. ASSUME NEW i \in 1..Len(new)
            PROVE  ListOf(new[i].entry) = "spd"
        <5>1. i \in 1..Len(list) \/ i = Len(list) + 1
          BY <2>1, <4>2
        <5>2. QED
          BY <2>2, <3>3, <3>4, <4>2, <5>1
      <4>4. QED
        BY <4>1, <4>3 DEF SpdHoldsSpd
    <3>5. CASE cb # "spd"
      <4>1. nodes'["spd"] = list
        BY <3>1, <3>3, <3>5 DEF FeedInv, TypeOK
      <4>2. QED
        BY <2>2, <4>1 DEF SpdHoldsSpd
    <3>6. QED
      BY <3>4, <3>5
  <2>5. CASE Unlink
    <3> DEFINE i == Find(nodes[cb], NameOf(changes[at].entry))
               new == RemoveAt(list, i)
    <3>1. cb \in Lists /\ i # 0 /\ nodes' = [nodes EXCEPT ![cb] = RemoveAt(@, i)]
      BY <2>5, AtRecord DEF Unlink, FeedInv
    <3>2. CASE cb = "spd"
      <4>1. nodes'["spd"] = new
        BY <3>1, <3>2 DEF FeedInv, TypeOK
      <4>2. i \in 0..Len(list)
        BY <2>1, <3>2, FindFinds
      <4> HIDE DEF list, i
      <4>3. i \in 1..Len(list)
        BY <2>1, <3>1, <4>2
      <4>4. /\ Len(new) = Len(list) - 1
            /\ \A j \in 1..Len(list) - 1 : new[j] = IF j < i THEN list[j] ELSE list[j + 1]
        BY <2>1, <4>3, RemoveAtShifts
      <4> HIDE DEF new
      <4>5. ASSUME NEW j \in 1..Len(new)
            PROVE  ListOf(new[j].entry) = "spd"
        <5>1. j \in 1..Len(list) - 1 /\ j \in 1..Len(list) /\ j + 1 \in 1..Len(list)
          BY <2>1, <4>4
        <5>2. QED
          BY <2>2, <4>4, <5>1
      <4>6. QED
        BY <4>1, <4>5 DEF SpdHoldsSpd
    <3>3. CASE cb # "spd"
      <4>1. nodes'["spd"] = list
        BY <3>1, <3>3 DEF FeedInv, TypeOK
      <4>2. QED
        BY <2>2, <4>1 DEF SpdHoldsSpd
    <3>4. QED
      BY <3>2, <3>3
  <2>6. CASE Restart \/ Crash
    <3>1. nodes'["spd"] = << >>
      BY <2>6 DEF Restart, Crash, NoNodes, Lists
    <3>2. QED
      BY <3>1, EmptySeq DEF SpdHoldsSpd
  <2>7. ASSUME NEW es \in SUBSET Entries, es # {}, IsFiniteSet(es), Edit(es)
        PROVE  nodes' = nodes
    BY <2>7, EditGives DEF FeedInv
  <2>8. Pass \/ StartReading \/ ReadLeaf \/ Missing \/ Return \/ UNCHANGED vars
          => nodes' = nodes
    BY DEF Pass, StartReading, ReadLeaf, Missing, Return, vars
  <2>9. QED
    BY <2>3, <2>4, <2>5, <2>6, <2>7, <2>8 DEF Next, Callback
<1>3. Spec => []FeedInv
  BY FeedInvCorrect
<1>4. QED
  BY <1>1, <1>2, <1>3, PTL DEF Spec

=============================================================================
