----------------------------- MODULE EntryList ------------------------------
(***************************************************************************)
(* What the callbacks rely on of a list of entries: addSAD_entry,          *)
(* addSPD_entry, removeSAD_entry and removeSPD_entry as operations on a    *)
(* sequence of names, each in one step, and what they return.  Sad and Spd *)
(* use the lists this way; NodeList is shown to implement it.              *)
(***************************************************************************)
EXTENDS Integers, Sequences, SequencesExt

CONSTANTS
  Names,    \* names of entries
  NULL      \* no operation so far

VARIABLES
  kind,     \* which of the two lists: "sad" or "spd"
  entries,  \* the names of the entries, oldest first
  ret       \* the operation that returned last: its name and return value

listVars == <<kind, entries, ret>>

Returned(n, rc) == [name |-> n, rc |-> rc]

Nothing == Returned(NULL, "ok")

ListInit ==
  /\ kind \in {"sad", "spd"}
  /\ entries = << >>
  /\ ret = Nothing

\* A new entry.  addSPD_entry adds none under a name that is there.
AddName(n) ==
  /\ kind = "spd" => n \notin ToSet(entries)
  /\ entries' = Append(entries, n)
  /\ ret' = Returned(n, "ok")
  /\ UNCHANGED kind

\* addSPD_entry for a name that is there: SR_ERR_OK, and nothing changes.
AddExisting(n) ==
  /\ kind = "spd"
  /\ n \in ToSet(entries)
  /\ ret' = Returned(n, "ok")
  /\ UNCHANGED <<kind, entries>>

\* The first entry under a name goes.
RemoveName(n) ==
  /\ n \in ToSet(entries)
  /\ entries' = RemoveFirst(entries, n)
  /\ ret' = Returned(n, "ok")
  /\ UNCHANGED kind

\* SR_ERR_OPERATION_FAILED, which fails the callback and its commit.
RemoveMissing(n) ==
  /\ n \notin ToSet(entries)
  /\ ret' = Returned(n, "failed")
  /\ UNCHANGED <<kind, entries>>

ListNext ==
  \E n \in Names : AddName(n) \/ AddExisting(n) \/ RemoveName(n) \/ RemoveMissing(n)

ListSpec == ListInit /\ [][ListNext]_listVars

=============================================================================
