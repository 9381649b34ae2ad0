----------------------------- MODULE Datastore ------------------------------
(***************************************************************************)
(* The running datastore of sysrepo, as far as the agent depends on it.    *)
(* sysrepo is not part of the repository; what is modelled here is what    *)
(* spd_entry_change_cb, sad_entry_change_cb and send_delete_SAD_request    *)
(* rely on:                                                                *)
(*  - commits are serialised;                                              *)
(*  - a commit hands the subscriber of a list the entries that change and  *)
(*    becomes the running configuration when the callback has succeeded;   *)
(*  - a callback that fails undoes the commit in the datastore only; the   *)
(*    agent ignores the abort event that follows;                          *)
(*  - a callback that takes longer than the timeout of the commit is given *)
(*    up: the commit is undone and whoever made it told so, while the      *)
(*    callback goes on with the changes it has been handed.                *)
(* A commit changes one of the two lists, as the repository's own edits    *)
(* under tests/sysrepo_load_config do; ChangeFeed has commits that change  *)
(* both.                                                                   *)
(***************************************************************************)
EXTENDS IpsecEntries

CONSTANTS
  MaxOps,      \* bound: entries changed by one controller commit
  MaxCommits,  \* bound: commits the controller makes
  Edits        \* kinds of change the controller makes, subset of AllEdits

AllEdits == {"create", "delete", "modify"}

ASSUME EditsAssumption == Edits \subseteq AllEdits

ASSUME BoundsAssumption == MaxOps \in Nat /\ MaxCommits \in Nat

VARIABLES
  runSad, runSpd,  \* the running configuration
  newSad, newSpd,  \* what it becomes if the commit under way succeeds
  tx,              \* the commit under way
  commits          \* commits the controller has made

dsVars == <<runSad, runSpd, newSad, newSpd, tx, commits>>

NoTx == [by |-> "nobody"]

\* by: who made the commit and waits for it, "late" if nobody does any more;
\* todo: the names the callback has not handled yet.
Txs ==
  {NoTx}
    \cup [by : {"controller", "thread", "late"}, list : {"sad"}, todo : SUBSET SadNames]
    \cup [by : {"controller", "late"}, list : {"spd"}, todo : SUBSET SpdNames]

SadConfigs == [SadNames -> SadCfg \cup {ABSENT}]

SpdConfigs == [SpdNames -> SpdCfg \cup {ABSENT}]

DsTypeOK ==
  /\ runSad \in SadConfigs
  /\ runSpd \in SpdConfigs
  /\ newSad \in SadConfigs
  /\ newSpd \in SpdConfigs
  /\ tx \in Txs
  /\ commits \in 0..MaxCommits

DsInit ==
  /\ runSad = [n \in SadNames |-> ABSENT]
  /\ runSpd = [n \in SpdNames |-> ABSENT]
  /\ newSad = runSad
  /\ newSpd = runSpd
  /\ tx = NoTx
  /\ commits = 0

Idle == tx = NoTx

Late == ~Idle /\ tx.by = "late"

\* What happens to entry n between configurations old and new.
EditOf(old, new, n) ==
  CASE old[n] = new[n]                    -> "none"
    [] old[n] = ABSENT /\ new[n] # ABSENT -> "create"
    [] old[n] # ABSENT /\ new[n] = ABSENT -> "delete"
    [] OTHER                              -> "modify"

Changed(old, new) == {n \in DOMAIN old : old[n] # new[n]}

Present(conf) == {n \in DOMAIN conf : conf[n] # ABSENT}

\* The configurations the controller may ask for.
SadWanted ==
  {new \in [SadNames -> UNION {SadCfgsOf[n] : n \in SadNames} \cup {ABSENT}] :
     \A n \in SadNames : new[n] \in SadCfgsOf[n] \cup {ABSENT}}

SpdWanted ==
  {new \in [SpdNames -> UNION {SpdCfgsOf[n] : n \in SpdNames} \cup {ABSENT}] :
     \A n \in SpdNames : new[n] \in SpdCfgsOf[n] \cup {ABSENT}}

\* An edit the controller may commit.
Legal(old, new) ==
  /\ Changed(old, new) # {}
  /\ Cardinality(Changed(old, new)) <= MaxOps
  /\ \A n \in Changed(old, new) : EditOf(old, new, n) \in Edits

-----------------------------------------------------------------------------
\* A commit begins; todo is empty when nobody is subscribed to the list.
ControllerEditsSad(new, subscribed) ==
  /\ Idle
  /\ commits < MaxCommits
  /\ Legal(runSad, new)
  /\ newSad' = new
  /\ tx' = [by |-> "controller", list |-> "sad",
            todo |-> IF subscribed THEN Changed(runSad, new) ELSE {}]
  /\ commits' = commits + 1
  /\ UNCHANGED <<runSad, runSpd, newSpd>>

ControllerEditsSpd(new, subscribed) ==
  /\ Idle
  /\ commits < MaxCommits
  /\ Legal(runSpd, new)
  /\ newSpd' = new
  /\ tx' = [by |-> "controller", list |-> "spd",
            todo |-> IF subscribed THEN Changed(runSpd, new) ELSE {}]
  /\ commits' = commits + 1
  /\ UNCHANGED <<runSad, runSpd, newSad>>

\* sr_delete_item and sr_apply_changes by the register thread, for an entry
\* that is there.
ThreadDeletes(n) ==
  /\ Idle
  /\ runSad[n] # ABSENT
  /\ newSad' = [runSad EXCEPT ![n] = ABSENT]
  /\ tx' = [by |-> "thread", list |-> "sad", todo |-> {n}]
  /\ UNCHANGED <<runSad, runSpd, newSpd, commits>>

\* The callback has handled entry n of the commit under way.
Handled(n) ==
  /\ tx' = [tx EXCEPT !.todo = @ \ {n}]
  /\ UNCHANGED <<runSad, runSpd, newSad, newSpd, commits>>

\* Entry n is next: sr_get_change_next returns a record for it.
ChangeNext(list, n) == ~Idle /\ tx.list = list /\ n \in tx.todo

\* The timeout of the commit is over.  The handler thread of the subscription
\* is still in the callback, so the next commit's changes wait for it.
TimesOut ==
  /\ "late" \in MayHappen
  /\ ~Idle
  /\ ~Late
  /\ tx.todo # {}
  /\ tx' = [tx EXCEPT !.by = "late"]
  /\ UNCHANGED <<runSad, runSpd, newSad, newSpd, commits>>

\* The callback has reached the end of the changes and returned SR_ERR_OK.
Commit ==
  /\ ~Idle
  /\ ~Late
  /\ tx.todo = {}
  /\ runSad' = newSad
  /\ runSpd' = newSpd
  /\ tx' = NoTx
  /\ UNCHANGED <<newSad, newSpd, commits>>

\* The callback has failed, has returned too late, or its process is gone.
Abort ==
  /\ newSad' = runSad
  /\ newSpd' = runSpd
  /\ tx' = NoTx
  /\ UNCHANGED <<runSad, runSpd, commits>>

\* The entries a commit that is undone leaves applied in the agent.
Applied(old, new) == Changed(old, new) \ tx.todo

=============================================================================
