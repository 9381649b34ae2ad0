# A TLA+ model of ccips-cfgipsec

The program is the NSF-side agent of the I2NSF IKE-less case. A controller edits the
`ietf-i2nsf-ikeless` configuration in sysrepo; the agent's callbacks turn every added or
deleted entry of the SPD and the SAD into PF_KEY messages to the Linux kernel; a thread
listens to the kernel for expired SAs, notifies the controller and deletes the entries of
hard-expired SAs from the running configuration.

This directory models the daemon (`test_not_trusted.c` and what it links), checks the
model with TLC on small instances, and proves part of it for all instances with TLAPS.

## The system

| Component | State | Operations | Talks to |
|---|---|---|---|
| SAD (`sysrepo_entries.c`, `sad_entry.*`, `pf_addsad`, `pf_delsad`) | list `init_sad_node`; the kernel's SAs | `addSAD_entry`, `removeSAD_entry` | kernel by PF_KEY, no reply read |
| SPD (`sysrepo_entries.c`, `spd_entry.*`, `pf_addpolicy`, `pf_delpolicy`) | list `init_spd_node`; the kernel's policies | `addSPD_entry`, `removeSPD_entry` | kernel by PF_KEY; only the policy index is read back |
| Linked lists (`add_*_node`, `get_*_node`, `del_*_node`) | head, `next` and `name` of every node, the heap | `add_*_node`, `get_*_node`, `del_*_node` | used by both above, and by the thread without a lock |
| Change callbacks (`sysrepo_utils.c`, `readSPD_entry`, `readSAD_entry`) | iterator over the records of a commit, the node being read | `spd_entry_change_cb`, `sad_entry_change_cb` | sysrepo calls them; they call SAD and SPD, whose readers move the same iterator |
| Register thread (`pf_sadb_esp_register_run`) | `rc`, the message in hand, the socket's queue | read, notify, request a deletion | kernel, sysrepo, and by its own commit the SAD callback of the same process |
| Keys of an SA (`hexstr_to_char`, key extensions of `pf_addsad`) | two C strings, the message | read, copy | configuration, kernel |
| Daemon (`main`) | how far start-up has come | subscribe, register, exit | starts all of the above |
| sysrepo (external) | running configuration, the commit under way | commit, undo | callbacks, controller |

What makes the system hard:

- **Concurrency.** The thread reads the SAD list with no lock and across several steps
  (lookup, notification, second lookup, commit) while callbacks change it and the kernel
  drops SAs.
- **Two-step operations.** A node and its kernel objects change in separate steps, and an
  inbound SPD entry is two policies.
- **Silent failure.** No PF_KEY reply is read; a refused request looks like a success.
- **Undone commits.** A callback that fails undoes the commit in the datastore only; what
  it applied to earlier entries of the commit stays (`SR_EV_ABORT` is ignored).
- **Timeouts.** sysrepo gives up a callback that takes too long, undoes its commit and
  reports a failure to whoever made it; the callback goes on.
- **Restarts.** The lists are empty after a restart, the datastore and the kernel are not.
- **A shared iterator.** The readers take records with the iterator of the loop they are
  called in, and the first record that is not theirs is gone. Of a record that is not a
  creation they take the old value, which a moved entry need not have.
- **Two who delete.** The controller is told of an expiry and is to rekey or delete the entry
  (`ietf-i2nsf-ikeless.yang:506-507`); after a hard expiry the agent deletes it as well.
- **Memory.** The lists are walked without a lock while nodes are freed and their chunks
  used again; `create_spd_node` leaves `next` as it finds it.
- **Widths, lengths and identities.** An SPI goes through an `int`; keys are C strings whose
  length goes by the algorithm; the kernel knows an SA by destination and SPI, the agent by
  name, the thread by SPI alone.

## Modules

- `IpsecEntries`: entries, nodes, kernel identities (`AddId`, `DelId`, `PolicyId`), list
  lookups, and what the width of an SPI does to it.
- `Sad`, `Spd`: the two components, each with its kernel table. Every PF_KEY message and
  every change of a list is a step. `strays` and `spdStrays` are the kernel objects that
  no operation of the current run has installed (left by an earlier run, or another
  program's).
- `Datastore` (external): running configuration, commit under way, names the callback has
  still to handle, and commits that time out. Only what the agent relies on.
- `RegisterThread`: the thread and its registration, one step per point where others may
  run. Extends `Sad` and `Datastore`.
- `Agent`: the daemon. Composes all of the above with the controller, the kernel, and the
  start, end and crash of the process. Its callbacks' actions are a step of `Sad` or `Spd`
  joined with what it does to the commit. `astraySad` and `astraySpd` are history: the
  entries running had before the subscription and those that a commit which was undone
  had reached.
- `Orphans`: adds to `Agent` a history of the entries that were taken away (by the
  controller, an undone commit or the end of the process) while an SA of theirs was in the
  kernel, in a message or in the thread's hand, and says what the thread may do to which.
- `NodeList`: both linked lists pointer by pointer (`kind` says which), with `malloc`
  returning freed chunks unchanged, and the register thread's walk beside the callbacks,
  one load at a time. `list` is history: the chunks in the order of the entries.
- `EntryList`: the abstract list, each operation one step with its return value.
  `NodeList` implements it by following `next` from the head (`NamesFrom`).
- `EntryConfigs`: entries as sets of leaves and nodes as the leaves they got, shared by the
  next two.
- `ChangeFeed`: the records of a commit, the callbacks' loop over them, and the readers in
  it. `EntryWise` is what they are to amount to, entry by entry, and what `Agent` assumes of
  them (`ChangeNext`); under the refinement an entry is still to be done while its key is
  ahead of the iterator or its node is being read (`Pending`). A reader that comes upon the
  null value of an entry moved to the first place ends the process (`Crash`); for `EntryWise`
  that is `Die`, and in `Agent` an end of the process as any other (`Crash`, in `MayHappen`
  as "stop").
- `LeafReaders`: the readers' branches, leaf by leaf, from a record into a field of the node,
  and the lifetimes from there into SADB_ADD.
- `SadKeys`: the two keys of a SAD entry as bytes, from hexadecimal text to the message.
- `MCAgent`, `MCOrphans`, `MCNodeList`, `MCChangeFeed`: the constants of the runs. `MCReaders`
  puts `LeafReaders` and `SadKeys` side by side: the entry's keys are converted by the reader
  that reads its leaves, and `pf_addsad` writes lifetimes and keys into one message.
- Theorems: `SadSpdProofs` (lookups and removals in a list, the two components),
  `AgentProofs` (the daemon uses them as specified; its types and its commits), `TracksProofs`
  (lists and running configuration), `ExpiryProofs` (from an expiry in the kernel to the deleted
  entry, and over orphans), `ChangeFeedProofs` (the records of a commit and their readers), `NodeListProofs`,
  `SadKeysProofs`, and `SequenceLemmas`, what several of them need of sequences.

Operators whose comment begins with "Mutant of" are wrong on purpose: each is the definition it names
with one plausible mistake, kept to show that a property notices it. No specification
uses them.

Correspondence of names: actions carry the name of the function they stand for, or of the
part of it (`PfAddSad` is `pf_addsad` as called by `addSAD_entry`; `SadUnlink` is the end
of `removeSAD_entry` inside `sad_entry_change_cb`). A guard comes from an early return or
a condition in the code; where a C function can be interrupted by another thread's effect,
it is split there and nowhere else.

### What is abstracted

- An entry's configuration keeps the fields that decide what a step does. `readSAD_entry`
  and `readSPD_entry` fill a node from the change records of its entry; the values they
  reject are ones the YANG types do not allow, so reading succeeds in the model.
- The SPI range is scaled: 0..7 with its half at 4 and `unsigned long` at 64. `SpiWidth`
  is proved for every width.
- In `Agent` a commit changes the entries of one list, in any order of entries, as the
  edits under `tests/sysrepo_load_config` do. `ChangeFeed` has commits that change both.
- `ChangeFeed` has three leaves for the thirty of an entry: one both lists have, one that
  only one list has, and an optional one. Messages to the kernel are left to `Sad` and `Spd`,
  and what becomes of each leaf to `LeafReaders`, which has all of them.
- `LeafReaders` reads one entry that is created. An entry has at most one range of local and
  one of remote ports; a value is the leaf it was given to, with a number only where a
  conversion depends on it; the records of list instances and containers, for which there is
  no branch, and branches that no leaf of the schema reaches are left out. The 32 bits are
  scaled to 8 values and `unsigned long` to 64.
- `NodeList` calls what the thread looks for a name; in the code it is the SPI. Loads and
  stores of a pointer are atomic and seen in order.
- A modification replaces an entry's configuration; the callback skips it, as the code
  does.
- Garbage in an uninitialised `next` is what an earlier node of the same chunk left there.
- `MayHappen` selects which of the environment's failures an instance has: refused
  requests, failing notifications and requests to sysrepo, a full socket queue, expiry
  before the socket is registered, unrelated messages, the end of the process, and callbacks
  that sysrepo gives up.
- Keys are configured and fit their buffers; an absent key is whatever `malloc` returned.

## Runs

Deadlock is not checked: an agent with nothing to do waits for the controller, and the
bounds on commits and starts end every behaviour.

| Run | Shows |
|---|---|
| `spd` | SPD names stay apart, every node has its policies, every policy its node, and list and running configuration agree entry by entry within a commit; two lives of the process, four commits of up to two entries, timeouts, modifications |
| `faults` | the same of the SAD, with all perturbations at once and two entries that stand for one SA: the list follows the configuration, no SA is left without a node, types hold, every commit ends |
| `expiry` | under fairness, a hard expiry ends with the entry deleted; no node is left behind by its SA's expiry; the thread finds the node; the notification names the entry that expired; list and running configuration agree. The controller only adds entries, with distinct SPIs in the lower half of their range |
| `orphans` | the thread reads a null node, or deletes an entry whose SA is alive, only over orphans and other programs' SAs. The controller deletes and re-creates entries at any moment, commits are given up, and the process may end and start again over the SAs it left in the kernel |
| `lists` | both lists' pointers implement a sequence (`Represents`) and its operations (`ImplementsEntryList`); every walk ends, the register thread's too (`WalksEnd`); unless an inner node was freed under it, the thread stays on live nodes and finds what is there |
| `feed` | over commits that change one list, entries handled record by record amount to entries handled one by one, each node with the leaves of its own entry, unless an entry moved to the first place ends the process; every commit ends |
| `readers` | every leaf the readers have a branch for ends in a field of its own, whichever leaves are left out, the lifetimes reach SADB_ADD as the hard or soft ones and in the units they are, and a DES or triple-DES key without a zero byte arrives whole |

Runs that are expected to fail show where the code and what the repository says of it part:

| Run | What happens |
|---|---|
| `tunnel_delete` | a tunnel-mode SA is deleted under the wrong address and stays in the kernel |
| `sticky_rc` | one failed notification disables the handling of hard expiries |
| `delete_race` | the controller's own deletion makes the thread read a null node |
| `spd_list` | the third SPD entry may bring a stale `next` into the list |
| `mixed_commit` | a commit that changes both lists gives SAD entries a node in the SPD list |

`PROJECT.json` quotes, for each, the comment or YANG text it is measured against.

`mixed_commit` is about the list only. What `addSPD_entry` would ask of the kernel for a SAD
entry's node is not in `ChangeFeed`; such a node has no direction, which `SADB_X_SPDADD`
needs.

Some preconditions of the passing runs are limits of the code as well. Over an orphan the
thread may read a null node, as `delete_race` shows, or delete a live entry: if the controller
deletes an expired entry, as the YANG tells it to, and creates one of that name again before
the thread's commit, `DeletesTheExpired` fails without its exception. A commit that creates an
entry and moves another to the first place ends the process (`Crash` in `feed`), although the
lists are `ordered-by user`. `ExpiredIsFound` needs SPIs below 2^31: a larger one changes its
value between the message and the lookup. `OwnField` needs entries whose names do not contain
the name of a container with an ambiguous leaf (an integrity key would be the encryption key
as well in an entry called `a/encryption`), one range of ports a side, and for the protocol
"any" a string whose address does not end in 0x0000 to 0x0100. It leaves out what the readers
have no branch for, `anti-replay-window-size` among it: they look for `/anti-replay-window`.
`LifetimesTold` needs lifetimes below 2^31. `SuitableKeyTaken` leaves AES out, for which
`pf_addsad` declares 256 bits in an extension of 192: of a key of 128 bits more is taken, one
of 256 loses its end to the next header.
`NotifiesTheExpired` fails when two SAs share an SPI: the thread takes the first node with
it. `SpdInstalled` fails when two entries have the same direction and selector: they share
a kernel policy and the first removal takes it. `ImplementsEntryWise` fails for a commit that
changes both lists: created SAD entries get SPD nodes, and a deleted SAD entry that is in no
SPD list makes the SPD callback fail and the commit with it. `ReaderOnLiveNode` and
`ReaderFinds` say nothing of a walk during which an inner node was freed: such a walk may
stand on freed or reused memory, and may miss an entry. `SadTracksRunning` and
`SpdTracksRunning` say nothing of entries that are astray: after a restart the entries of
the running configuration are printed and in no list, and after a commit that was undone
the lists keep what had been applied.

### Bounds

Two entries per list are enough for one to be at work while the other is at rest, for a
commit to fail or time out at its second entry, and for two SAs to collide; rekeying adds a
second configuration of one entry. Four commits (`spd`, `expiry`) allow create, delete and
create again with one to spare; in `faults` two are enough to create and delete with every
fault in between. Two starts allow a restart over what a run left behind. Two places in the
queue let a message wait behind another, one place makes it overflow. `MaxNodes` is never
reached.

`orphans` has two entries of one configuration each, with SPIs of their own, and four commits:
create, delete, create again, and the thread's own deletion in between or after. With two
starts, SAs that one process leaves in the kernel expire in the hands of the next. Other
programs' SAs, lost messages and refused requests are left to the proof. `readers` leaves out
up to two leaves, which is enough to see a field filled by the leaf of another.

`lists` has two names and up to three SAD entries, so that a name may be in the list twice;
four chunks leave one for the spare node that `del_*_node` allocates beside three entries,
and the smaller number of entries lets freed chunks come back. The SPD's list has two
entries there, because three bring the stale pointer of `spd_list` in. The thread looks for
one name: the walk compares, and which name it is makes no difference.

`feed` has two names that both lists use, commits of up to two entries in every order and
three commits: create, delete, modify or move, and create again, with a restart between any
two. An entry that is moved comes behind any other or to the first place.
`SadKeys` has no bound but the keys looked at: one of each length that DES and triple DES take,
with either algorithm, alone and in front of an integrity key.

### Fairness

Weak fairness of `main`'s start-up, of each callback, of the register thread and of
sysrepo finishing a commit whose callbacks are done: threads of one process that are
runnable get to run. Nothing is assumed of the controller, of the kernel's lifetimes or of
whoever stops the process. `NodeList` assumes that a function under way goes on, and so does
the thread's walk. `ChangeFeed` assumes that a callback under way goes on.

## Proofs

All with tlapm, for every value of the constants that satisfies the named assumptions
(names and configurations are typed, the SPI range is positive and fits four times into
`unsigned long`, bounds are naturals). What a theorem assumes beyond that is an ASSUME of
the theorem and named here. Every safety property of the passing runs is proved but for those
of `LeafReaders`, some under assumptions that the code needs.

### The two components

- `SpiWidth`: which SPIs survive the thread's conversions.
- `SadTypeCorrect`, `SpdTypeCorrect`: type invariants.
- `SaHasNodeCorrect`: `SaHasNode` for `Sad`, assuming `SameIds`, that every configuration
  the controller may give is deleted under the identity it is added under. Run
  `tunnel_delete` shows that it fails without. `SaHasNode` is not inductive: one has to
  know that the node being added is linked already, and that the node being removed is the
  one its name leads to and its SA is gone from the kernel (`OpKnows`), and that every
  node carries a given configuration (`NodesGiven`).
- `SpdNamesCorrect`: `SpdNamesUnique`, from the type invariant and what a lookup returns.
- `PolicyHasNodeCorrect`: `PolicyHasNode`, strengthened by `SpdOpKnows`: which of the
  policies of the node under removal are gone at each step.
- `SpdInstalledCorrect`: `SpdInstalled`, the converse, assuming that a kernel refuses nothing
  and that entries share no policy (`OwnPolicies`). The policies of the node at work are in
  transit, one message at a time; the identity of a message belongs to no other node because
  every node has a configuration of its own name (`SpdGiven`) and names are unique.

### The daemon

- `AgentImplementsSad`, `AgentImplementsSpd`: every step of the daemon is a step of the
  component or leaves it alone, given that the datastore holds only what the controller
  gave (`Given`). `AgentSaHasNode`, `AgentSpdSafe` and `AgentSpdInstalled` carry the results
  over.
- `AgentTypeCorrect`: `TypeOK`. The thread runs in a process that has come up (`ThreadInv`),
  the commit under way concerns one list and the entries by which its two configurations
  differ (`CommitInv`), and an operation in progress is the callback's work on an entry of
  that commit which it has still to handle (`SadWork`, `SpdWork`).
- `SpdTracksCorrect`, `SadTracksCorrect`: `SpdTracksRunning`, `SadTracksRunning`, with all
  faults, timeouts and restarts and no assumption. `WorkInv` is what they need: an entry is
  handled by the step that ends the operation on it, so node and target change together. For
  the SAD, where `addSAD_entry` looks for no name, one has to know as well that a name is at
  most once in the list, which is part of the property: a second addition would need a
  creation of an entry that running has.

### Expiry

- `NotifiesTheExpiredCorrect`: `NotifiesTheExpired`, assuming `SpisTell`, that no two SAs the
  kernel may have share an SPI. The message in hand is about an SA the kernel may have
  (`EventsKnown`).
- `ExpiredIsFoundCorrect`: `ExpiredIsFound`, assuming `SmallSpis`, SPIs below half their
  range. By `SpiWidth` no node is found for a larger one.
- `DiesOverOrphansCorrect`: `DiesOverOrphans`, assuming `OwnSas`, that an SPI belongs to one
  entry and to no other program's SA, and `SmallSpis`.
- `DeletesTheExpiredCorrect`: `DeletesTheExpired`, assuming `OwnSas`.
- `ExpiredNodePendingCorrect`: `ExpiredNodePending`, no node is left behind.

`DiesOverOrphansCorrect` and `DeletesTheExpiredCorrect` are about `OrphanSpec`, every
behaviour of `Agent` with its history: the controller deletes, re-creates and modifies what it likes and when it likes,
requests, notifications and messages are lost, commits fail or are given up, and the process
ends and starts again. `OrphanInv` is the inductive invariant. It says of every entry that is
not an orphan that it is `InOrder`: whatever the kernel, the queue and the thread have of it
is one SA, which has its node; when a message calls that SA expired, the kernel does not have
it and no other message about it follows; and nothing is heard of an entry whose creation is
not handled yet or whose deletion is under way. An entry leaves that order only by a step
that makes it an orphan, and is no orphan any more when all has become quiet about it
(`Settled`), where it is `InOrder` trivially. `ThreadAims` says that the thread deletes the
entry of the SA in its hand, `Adding` that an SA about to be added is of an entry that
running does not have yet.

`ExpiredNodePendingCorrect` is for a controller that leaves expired entries to the agent:
`ExpiryAssumed` says that an SPI belongs to one entry (`OwnSpis`) and is below half the range
(`SmallSpis`), no SA is foreign, the controller only adds entries, the process is not ended
and no callback takes so long that sysrepo gives it up; `NothingLost` that no request,
notification or message is lost. Run `expiry` satisfies all of this. TLC finds a
counterexample when any of these is dropped, on instances of the size of `expiry`, except that
modifications are excluded without need as far as TLC can see; tunnel mode is not excluded.

`ExpiryInv` is the inductive invariant of this one, beside what the sections above have shown (`Known`):

- `Told`: messages, kernel and list agree. An SA in the kernel or in a message has a node; one
  that a hard expiry speaks of is not in the kernel, and nothing else about it follows in the
  queue; an SA about to be added is new to all of them; and if nothing is lost a node's SA is
  in the kernel, or spoken of as expired, or being worked on.
- `ThreadCommit`, `ThreadKnows`: the thread's commit is for the entry of the SA in its hand,
  and a hard expiry is what it has in its hand.
- `Calm`: commits only add, but for the thread's, and none is undone.
- `Sockets`: nothing waits at a socket before it is registered, and the first message then is
  the answer, so that `pf_exec_register` takes no expiry for it.

The proof first shows that under the assumptions and the invariant every step is one of
`CalmStep` (`OnlyCalmSteps`), then has one lemma per action for `Told`.

### The records of a commit

- `FeedTypeCorrect`: `TypeOK` of `ChangeFeed`, whatever commits change.
- `FeedImplementsEntryWise`: `ImplementsEntryWise`, assuming that a commit changes one list
  only (`~Mixed`). A reader that meets a null value is at work on a created entry that is still
  to be done, so `Crash` implements `Die`. `SpdHoldsSpdCorrect` has under the same assumption what run `mixed_commit`
  shows to fail without it.

`FeedInv` is the inductive invariant. `RecordsInv` says what the records are like: those of an
entry come together, its key once and not as the first of them (`Contiguous`, `KeyFollows`,
`OneKey`); the entries with a key are those that appear or disappear, and the key says which
(`KeyTurns`, `TurnedHaveKeys`); after the key of a new entry come all its leaves and no others
(`LeavesFollow`). `ReadingInv` says that a reader began after a key and has taken nothing but
leaves of its entry, which are what its node has got.

That the record a reader takes in vain, the one which ends it, is never a key follows: the record
before it would be of the same entry. So no entry is missed, although the loop never sees that
record. Where that record is the first of another list the loop misses nothing either, but goes
on with keys that are not its own, and this is where `Mixed` comes in.

`CommitRecords` shows that the records of a commit are so, for any number of entries in any
order. It rests on where `FlattenSeq` puts each sequence it is given (`Flattened`), for which
its recursive function has to be shown to exist and to be what one expects; both are inductions
along the naturals, done with the least element of the set of counterexamples (`UpToTop`).

### The linked lists

- `NodeListTypeCorrect`: `TypeOK` of both lists, which says that the loops of `add_*_node` and
  `del_*_node` are on a node whenever they follow `next`, though they do not look. For the SPD
  list, whose pointers may be garbage, `PathKnows` says that every set of chunks closed under
  `next` that holds the head holds what the search has come to, and that one which holds the
  node the removal is at has a node of the name in it.
- `RepresentsCorrect`: `Represents`, the pointers implement the sequence. It takes
  where each loop stands (`OpKnows`): the search and the append loop at a node of the list,
  the unlinking loop at an entry at or before the first of the name, the new or spare node
  live and not linked, and its `next` clear. For the SPD list, whose nodes are created with
  whatever `next` the chunk had, the last needs that free chunks are clear (`FreeAreClear`).
  They are as long as the list has at most two entries (`TwoAtMost`): an inner node that is
  freed is then the last one.
- `ReaderOnLiveNodeCorrect`: `ReaderOnLiveNode`. The thread may be on a head that has left
  the list, so its node is not simply one of the list's. The invariant (`WalkInv`) is that
  there is a set of live chunks with the thread's and all entries' among them, closed under
  `next`, and without the spare node or the new one (`Ground`).
- `ReaderFindsCorrect`: `ReaderFinds`. While the entry stays, every set that holds the
  thread's node and is closed under `next` holds an entry of the name (`FindInv`).
- `ImplementsEntryListCorrect`: `ImplementsEntryList`, the refinement as the run states it.
  First the functions implement `EntryList` with the names of `list` as its entries
  (`NextRefines`): `NamesKnown` says that the search has passed no entry of the name, and that
  `addSPD_entry` creates a node only if no entry has it. Then these are the names read off
  the pointers (`PointersGiveNames`): the recursive function `NamesFrom` is shown to exist, an
  induction from the last entry to the first gives what it reads, and the list has no more
  entries than the heap has chunks (`EntriesFitHeap`), so that it reads all of them.

The last four take `TwoAtMost`: if the SPD list is looked at, it has at most two entries. The
SAD list may have any number. Run `spd_list` shows that with three entries the SPD list
is not what they say.

### Keys

- `HexRoundTrip`: `hexstr_to_char` reads back the text of every key, in upper and lower
  case.
- `SuitableKeyCorrect`: `SuitableKeyTaken`, for DES and triple DES
  a key of the algorithm's length without a zero byte arrives whole, whatever the
  integrity algorithm and key are. `KeyInv` says that the message is the one the two
  extensions make of the node; that they do not overlap is arithmetic on their lengths.

All of them rest on lemmas of `SequenceLemmas` (the least element of a set of naturals, what
`RemoveAt` leaves) and of `SadSpdProofs`: what `GetNode` finds (`GetNodeFinds`) and what
unlinking leaves (`UnlinkedNode`, `UnlinkedOthers`, `UnlinkedNames`).

### Model-checked only

- `OwnField`, `LifetimesTold`: the branches of the readers are finitely many and `readers`
  goes through all of them.
- The liveness properties `HardExpiryDeletes`, `CommitsEnd`, `WalksEnd`, `CommitEnds`:
  liveness under fairness is out of the prover's reach.

## Not modelled

- **State data callback.** It answers a query and changes no state. `get_sad_state` compares
  the module name with `ietf-ipsec-ikeless` and returns, as `main` subscribes
  `ietf-i2nsf-ikeless`; `pf_get_sad_lifetime_current_by_spi` is never reached.
- **Acquire notification.** Its call is commented out, and with it the only use of the
  policy index that `pf_addpolicy` reads back from a dump.
- **`pfkey_send_socket`.** No caller but `pfkey_send`, which has none.
- **Failed reads of PF_KEY sockets.** Where `Read` returns -1 the thread goes on with what is
  in its buffer, the message before; the model has no failing read.
- **The dump loop of `pf_addpolicy`.** After `SADB_X_SPDADD` it asks for a dump and reads until
  the last message of it, for the policy index. `Read` blocks; if the addition was refused and
  the SPD is empty, the callback can wait there for ever. No liveness property of the SPD is
  stated.
- **The rest of the PF_KEY layout.** Addresses, lifetimes and policies are copied field by
  field; `print_sadb_msg` logs.
- **Trusted split.** `test_trusted.c` and the JSON codec; the other end of the exchange is
  not in the repository.
- **Utilities, constants, logging.** Address splitting, socket wrappers, output.

Left open: whether a node freed under the thread's walk is still readable (it depends on
the allocator).
