------------------------------ MODULE Orphans -------------------------------
(***************************************************************************)
(* What the register thread may be told of after the entry is gone.  The   *)
(* thread takes no lock and no reference: between the kernel's EXPIRE      *)
(* message and send_delete_SAD_request the entry of the SA may be removed  *)
(* or replaced by the controller, who is told of the expiry as well, its   *)
(* creation may be undone, or the message may come from an SA that an      *)
(* earlier process left in the kernel.                                     *)
(*                                                                         *)
(* The module adds to Agent a history variable and leaves its steps as     *)
(* they are: the entries this has happened to.  The two properties say     *)
(* that nothing else leads the thread astray.                              *)
(***************************************************************************)
EXTENDS Agent

VARIABLES
  orphans   \* entries taken away while something is still heard of them

orphanVars == <<vars, orphans>>

SpisOf(n) == {c.spi : c \in SadCfgsOf[n]}

\* Nothing is or will be heard of entry n: no SA in the kernel has an SPI of
\* it, no message with one waits, and the thread is not at work on one.
Settled(n) ==
  /\ \A k \in ksad : k[2] \notin SpisOf(n)
  /\ \A j \in 1..Len(evq) : evq[j] # Other => evq[j].id[2] \notin SpisOf(n)
  /\ thr.pc \in {"notify", "delete", "apply"} => thr.ev.id[2] \notin SpisOf(n)

\* The controller deletes entry n.
TakenAway(n) == commits' # commits /\ runSad[n] # ABSENT /\ newSad'[n] = ABSENT

\* The creation of entry n is undone, with its SA in the kernel or not.
CreationUndone(n) ==
  /\ ~Idle /\ tx' = NoTx
  /\ runSad[n] = ABSENT /\ newSad[n] # ABSENT /\ runSad'[n] = ABSENT

\* The process ends, and all the nodes with it.
NodesLost == up # "down" /\ up' = "down"

\* An entry is an orphan from then on until it is settled.
NoteOrphans ==
  orphans' = {n \in SadNames : /\ n \in orphans \/ TakenAway(n)
                                    \/ CreationUndone(n) \/ NodesLost
                               /\ ~Settled(n)'}

OrphanInit == Init /\ orphans = {}

OrphanSpec == OrphanInit /\ [][Next /\ NoteOrphans]_orphanVars

-----------------------------------------------------------------------------
(***************************************************************************)
(* send_delete_SAD_request reads the name of a node that is not there only *)
(* for an orphan, or for an SA of another program: no order of the         *)
(* kernel's messages, the callbacks, the failures and the thread's own     *)
(* deletions takes the node of any other entry away from under it.         *)
(***************************************************************************)
DiesOverOrphans ==
  NullDereference =>
    \/ \E n \in orphans : thr.ev.id[2] \in SpisOf(n)
    \/ \A n \in SadNames : thr.ev.id[2] \notin SpisOf(n)

(***************************************************************************)
(* The register thread deletes the entry of an SA that has expired, or an  *)
(* orphan: only an entry that was re-created under its old name, while the *)
(* expiry of the old SA was on its way, loses a live SA.                   *)
(***************************************************************************)
DeletesTheExpired ==
  [][tx' # tx /\ tx'.by = "thread" /\ thr.name \notin orphans
       => AddId(runSad[thr.name]) \notin ksad]_orphanVars

=============================================================================
