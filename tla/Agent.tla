------------------------------- MODULE Agent --------------------------------
(***************************************************************************)
(* The daemon (test_not_trusted.c): the SPD and SAD callbacks, the         *)
(* register thread, the running datastore and the kernel, composed.  The   *)
(* callbacks run in the handler threads of their subscriptions; one commit *)
(* is under way at a time, so at most one callback runs, concurrently with *)
(* the register thread, the kernel and the controller.                     *)
(***************************************************************************)
EXTENDS Spd, RegisterThread

CONSTANTS
  MaxStarts    \* bound: times the process is started

ASSUME StartsAssumption == MaxStarts \in Nat

VARIABLES
  up,        \* how far main has come
  starts,    \* times the process was started
  astraySpd, \* SPD entries whose nodes need not follow running any more
  astraySad  \* SAD entries whose nodes need not follow running any more

(***************************************************************************)
(* An entry is astray if running had it before the callback was subscribed *)
(* (entries are not loaded), or if a commit that was undone had reached it *)
(* already (SR_EV_ABORT is ignored).                                       *)
(***************************************************************************)
astrayVars == <<astraySpd, astraySad>>

mainVars == <<up, starts>>

vars == <<sadVars, spdVars, dsVars, threadVars, mainVars, astrayVars>>

TypeOK ==
  /\ SadTypeOK
  /\ SpdTypeOK
  /\ DsTypeOK
  /\ ThreadTypeOK
  /\ up \in {"down", "spd", "sad", "reg", "up"}
  /\ starts \in 0..MaxStarts
  /\ astraySpd \subseteq SpdNames
  /\ astraySad \subseteq SadNames

Init ==
  /\ SadInit
  /\ SpdInit
  /\ DsInit
  /\ ThreadInit
  /\ up = "down"
  /\ starts = 0
  /\ astraySpd = {}
  /\ astraySad = {}

SubscribedSpd == up # "down"

SubscribedSad == up \in {"sad", "reg", "up"}

Registered == up \in {"reg", "up"}

\* The commit under way is undone.
Undo ==
  /\ Abort
  /\ astraySad' = astraySad \cup Applied(runSad, newSad)
  /\ astraySpd' = astraySpd \cup Applied(runSpd, newSpd)

-----------------------------------------------------------------------------
(* main *)

\* main up to the first sr_module_change_subscribe.  The running
\* configuration is printed, not loaded into the lists.
SubscribeSpd ==
  /\ up = "down"
  /\ starts < MaxStarts
  /\ Idle
  /\ up' = "spd"
  /\ starts' = starts + 1
  /\ astraySpd' = Present(runSpd)
  /\ UNCHANGED <<astraySad, sadVars, spdVars, dsVars, threadVars>>

SubscribeSad ==
  /\ up = "spd"
  /\ Idle
  /\ up' = "sad"
  /\ astraySad' = Present(runSad)
  /\ UNCHANGED <<starts, astraySpd, sadVars, spdVars, dsVars, threadVars>>

\* sadb_register is one call of pf_exec_register per process, so the mutex
\* it tries is always free.
sadb_register ==
  /\ \/ up = "sad" /\ SendRegister /\ up' = "reg"
     \/ up = "reg" /\ ReadReply /\ up' = "up"
  /\ UNCHANGED <<starts, sadVars, spdVars, dsVars, astrayVars>>

\* The process is gone: so are both lists, and a commit that needs it fails.
ProcessEnds ==
  /\ up # "down"
  /\ up' = "down"
  /\ SadLost
  /\ SpdLost
  /\ ThreadLost
  /\ IF ~Idle /\ (tx.todo # {} \/ tx.by # "controller")
       THEN Abort ELSE UNCHANGED dsVars
  /\ UNCHANGED <<starts, astrayVars>>

\* SIGINT, a kill, or main leaving because a subscription, sadb_register or
\* its pthread_create failed.
Stop == "stop" \in MayHappen /\ ProcessEnds

Crash == NullDereference /\ ProcessEnds

-----------------------------------------------------------------------------
(* spd_entry_change_cb: one step per message sent and per list change *)

SpdChange(n, edit) == ChangeNext("spd", n) /\ EditOf(runSpd, newSpd, n) = edit

SpdRest == UNCHANGED <<sadVars, threadVars, mainVars>>

SpdGoesOn == SpdRest /\ UNCHANGED astrayVars

SpdCreate(n) ==
  /\ SpdChange(n, "create")
  /\ \/ AddSpdNode(n, newSpd[n]) /\ UNCHANGED dsVars
     \/ SpdExists(n) /\ Handled(n)
  /\ SpdGoesOn

SpdPfAdd ==
  /\ PfAddPolicy
  /\ IF Inbound(spdOp.node) THEN UNCHANGED dsVars ELSE Handled(spdOp.node.name)
  /\ SpdGoesOn

\* Mutant of SpdPfAddForward: the callback reports an error and leaves the
\* entry it has added.
SpdPfAddForwardFails == PfAddForward /\ Undo /\ SpdRest

SpdPfAddForward == PfAddForward /\ Handled(spdOp.node.name) /\ SpdGoesOn

SpdDelete(n) ==
  /\ SpdChange(n, "delete")
  /\ \/ PfDelPolicy(n) /\ UNCHANGED <<dsVars, astrayVars>>
     \/ SpdNotFound(n) /\ Undo
  /\ SpdRest

SpdPfDelForward == PfDelForward /\ UNCHANGED dsVars /\ SpdGoesOn

SpdUnlink == DelSpdNode /\ Handled(spdOp.node.name) /\ SpdGoesOn

\* SR_OP_MODIFIED is logged as not supported and the commit goes on.
SpdModify(n) ==
  /\ SpdChange(n, "modify")
  /\ spdOp = NoSpdOp
  /\ Handled(n)
  /\ UNCHANGED spdVars
  /\ SpdGoesOn

spd_entry_change_cb ==
  \/ \E n \in SpdNames : SpdCreate(n) \/ SpdDelete(n) \/ SpdModify(n)
  \/ SpdPfAdd
  \/ SpdPfAddForward
  \/ SpdPfDelForward
  \/ SpdUnlink

-----------------------------------------------------------------------------
(* sad_entry_change_cb *)

SadChange(n, edit) == ChangeNext("sad", n) /\ EditOf(runSad, newSad, n) = edit

SadRest == UNCHANGED <<spdVars, threadVars, mainVars>>

SadGoesOn == SadRest /\ UNCHANGED astrayVars

SadCreate(n) ==
  SadChange(n, "create") /\ AddSadNode(n, newSad[n]) /\ UNCHANGED dsVars /\ SadGoesOn

\* Mutant of SadPfAdd: likewise.
SadPfAddFails == PfAddSad /\ Undo /\ SadRest

SadPfAdd == PfAddSad /\ Handled(sadOp.node.name) /\ SadGoesOn

\* Mutant of SadDelete: the callback does not return for a missing node.
SadDeleteStuck(n) ==
  SadChange(n, "delete") /\ PfDelSad(n) /\ UNCHANGED dsVars /\ SadGoesOn

SadDelete(n) ==
  /\ SadChange(n, "delete")
  /\ \/ PfDelSad(n) /\ UNCHANGED <<dsVars, astrayVars>>
     \/ SadNotFound(n) /\ Undo
  /\ SadRest

SadUnlink == DelSadNode /\ Handled(sadOp.node.name) /\ SadGoesOn

SadModify(n) ==
  /\ SadChange(n, "modify")
  /\ sadOp = NoSadOp
  /\ Handled(n)
  /\ UNCHANGED sadVars
  /\ SadGoesOn

sad_entry_change_cb ==
  \/ \E n \in SadNames : SadCreate(n) \/ SadDelete(n) \/ SadModify(n)
  \/ SadPfAdd
  \/ SadUnlink

-----------------------------------------------------------------------------
(* the register thread *)

pf_sadb_esp_register_run ==
  /\ \/ /\ \/ ReadExpire
           \/ ReadNotRemove
           \/ ReadOther
           \/ SendExpireNotification
           \/ NotifyFails
           \/ ExpireNotFound
           \/ SendDeleteRequest
           \/ ApplyReturns
        /\ UNCHANGED dsVars
     \/ ApplyDelete
     \/ ApplyNothing
  /\ UNCHANGED <<sadVars, spdVars, mainVars, astrayVars>>

-----------------------------------------------------------------------------
(* the controller, the kernel and sysrepo *)

Controller ==
  /\ \/ \E new \in SadWanted : ControllerEditsSad(new, SubscribedSad)
     \/ \E new \in SpdWanted : ControllerEditsSpd(new, SubscribedSpd)
  /\ UNCHANGED <<sadVars, spdVars, threadVars, mainVars, astrayVars>>

FinishCommit ==
  /\ \/ Commit /\ UNCHANGED astrayVars
     \/ Late /\ tx.todo = {} /\ Undo
  /\ UNCHANGED <<sadVars, spdVars, threadVars, mainVars>>

GivesUp ==
  /\ TimesOut
  /\ UNCHANGED <<sadVars, spdVars, threadVars, mainVars, astrayVars>>

\* The kernel tells the registered socket, if there is one.
Tell(ev) ==
  /\ IF Registered THEN Deliver(ev) ELSE UNCHANGED evq
  /\ UNCHANGED <<thr, notif>>

KernelExpires(k) ==
  /\ up = "sad" => "early" \in MayHappen
  /\ \/ SoftExpire(k) /\ Tell([kind |-> "soft", id |-> k])
     \/ HardExpire(k) /\ Tell([kind |-> "hard", id |-> k])
  /\ UNCHANGED <<spdVars, dsVars, mainVars, astrayVars>>

KernelTellsOther ==
  /\ "noise" \in MayHappen
  /\ Registered
  /\ Deliver(Other)
  /\ UNCHANGED <<thr, notif, sadVars, spdVars, dsVars, mainVars, astrayVars>>

OtherProgramAdds(k) ==
  ForeignAdd(k) /\ UNCHANGED <<spdVars, dsVars, threadVars, mainVars, astrayVars>>

Environment ==
  \/ Controller
  \/ \E k \in SaIds : KernelExpires(k) \/ OtherProgramAdds(k)
  \/ KernelTellsOther
  \/ GivesUp
  \/ Stop

Next ==
  \/ SubscribeSpd \/ SubscribeSad \/ sadb_register
  \/ Crash
  \/ spd_entry_change_cb
  \/ sad_entry_change_cb
  \/ pf_sadb_esp_register_run
  \/ FinishCommit
  \/ Environment

Spec == Init /\ [][Next]_vars

(***************************************************************************)
(* Fairness: the scheduler runs main, the handler threads and the register *)
(* thread, and sysrepo finishes a commit whose callbacks are done.  The    *)
(* controller, the kernel and whoever stops the process owe nothing.       *)
(***************************************************************************)
Fairness ==
  /\ WF_vars(SubscribeSpd \/ SubscribeSad \/ sadb_register)
  /\ WF_vars(spd_entry_change_cb)
  /\ WF_vars(sad_entry_change_cb)
  /\ WF_vars(pf_sadb_esp_register_run \/ Crash)
  /\ WF_vars(FinishCommit)

FairSpec == Spec /\ Fairness

-----------------------------------------------------------------------------
(* Properties *)

\* What the list of a subscribed callback should hold of entry n: the new
\* configuration once the callback has handled n, the running one before.
SadTarget(n) ==
  IF ~Idle /\ tx.list = "sad" /\ n \notin tx.todo THEN newSad[n] ELSE runSad[n]

SpdTarget(n) ==
  IF ~Idle /\ tx.list = "spd" /\ n \notin tx.todo THEN newSpd[n] ELSE runSpd[n]

SadBusy(n) == sadOp # NoSadOp /\ sadOp.node.name = n

SpdBusy(n) == spdOp # NoSpdOp /\ spdOp.node.name = n

\* What the SAD list is to hold of entry n: exactly one node if the entry is
\* there or an operation is at work on it, with the configuration of the
\* entry unless an edit modified it, which the callback skips.
SadTracks(n) ==
  /\ n \in NamesIn(sad) <=> SadTarget(n) # ABSENT \/ SadBusy(n)
  /\ \A i, j \in 1..Len(sad) : sad[i].name = n /\ sad[j].name = n => i = j
  /\ "modify" \notin Edits =>
       \A i \in 1..Len(sad) : sad[i].name = n => sad[i].cfg \in {runSad[n], newSad[n]}

(***************************************************************************)
(* Once the SAD callback is subscribed, its list follows the running       *)
(* configuration, commit by commit and entry by entry within a commit, for *)
(* every entry that was created since and that no undone commit has gone   *)
(* over: failures, timeouts and restarts lead only those entries astray    *)
(* they have touched.                                                      *)
(***************************************************************************)
SadTracksRunning ==
  SubscribedSad => \A n \in SadNames \ astraySad : SadTracks(n)

\* The same of an SPD entry.
SpdTracks(n) ==
  /\ n \in NamesIn(spd) <=> SpdTarget(n) # ABSENT \/ SpdBusy(n)
  /\ "modify" \notin Edits =>
       \A i \in 1..Len(spd) : spd[i].name = n => spd[i].cfg \in {runSpd[n], newSpd[n]}

(***************************************************************************)
(* The same of the SPD list.                                               *)
(***************************************************************************)
SpdTracksRunning ==
  SubscribedSpd => \A n \in SpdNames \ astraySpd : SpdTracks(n)

\* A hard EXPIRE message about SA k.
HardFor(k) == [kind |-> "hard", id |-> k]

\* The register thread has yet to read, or is at work on, SA k's expiry.
ExpiryPending(k) ==
  \/ \E j \in 1..Len(evq) : evq[j] = HardFor(k)
  \/ thr.pc \in {"notify", "delete", "apply", "commit"} /\ thr.ev = HardFor(k)

(***************************************************************************)
(* No node is left behind by the expiry of its SA: once the socket is      *)
(* registered, a node whose SA the kernel no longer has is being worked on *)
(* by the callback, or the register thread is still going to handle the    *)
(* EXPIRE message.  It relates the list, the kernel, the socket's queue,   *)
(* the registration and the thread through every interleaving of commits   *)
(* and expirations.                                                        *)
(***************************************************************************)
ExpiredNodePending ==
  Registered =>
    \A i \in 1..Len(sad) :
      \/ AddId(sad[i].cfg) \in ksad
      \/ SadBusy(sad[i].name)
      \/ ExpiryPending(AddId(sad[i].cfg))

(***************************************************************************)
(* send_delete_SAD_request never dereferences a null node: whenever the    *)
(* register thread gets to it, the list has a node with the SPI of the     *)
(* EXPIRE message.  Module Orphans has when this fails.                    *)
(***************************************************************************)
NodeThereForDelete == ~NullDereference

(***************************************************************************)
(* A sadb-expire notification names the SAD entry of the SA that expires.  *)
(***************************************************************************)
NotifiesTheExpired ==
  [][notif' # notif /\ notif' # NoNotif
       => \E i \in 1..Len(sad) : /\ sad[i].name = notif'.name
                                 /\ AddId(sad[i].cfg) = thr.ev.id]_vars

(***************************************************************************)
(* The register thread finds the node of an expired SA if there is one:    *)
(* no SPI is changed on its way from the message to the lookup.            *)
(***************************************************************************)
ExpiredIsFound ==
  thr.pc = "notify" /\ (\E i \in 1..Len(sad) : sad[i].cfg.spi = thr.ev.id[2])
    => Expired(thr.ev) # 0

\* Entry n is configured and the message that its SA hard-expired is queued.
ExpiredEntry(n) ==
  /\ Registered
  /\ runSad[n] # ABSENT
  /\ \E j \in 1..Len(evq) : evq[j] = HardFor(AddId(runSad[n]))

(***************************************************************************)
(* A hard expiry the kernel has reported ends with the entry deleted from  *)
(* the running configuration.                                              *)
(***************************************************************************)
HardExpiryDeletes ==
  \A n \in SadNames : ExpiredEntry(n) ~> (runSad[n] = ABSENT)

(***************************************************************************)
(* Every commit ends: no callback is left waiting half way through its     *)
(* changes, whether the agent fails, crashes or is stopped meanwhile.      *)
(***************************************************************************)
CommitsEnd == ~Idle ~> Idle

=============================================================================
