--------------------------- MODULE RegisterThread ---------------------------
(***************************************************************************)
(* The thread behind pf_sadb_esp_register_run.  It reads the messages the  *)
(* kernel sends to the registered PF_KEY socket, notifies the controller   *)
(* of an expired SA, and deletes the entry of a hard-expired one from the  *)
(* running datastore by a commit of its own, whose callback then removes   *)
(* the node of the list the thread has been reading.                       *)
(*                                                                         *)
(* The thread takes no lock: between any two of its steps the callbacks,   *)
(* the controller and the kernel may run.                                  *)
(***************************************************************************)
EXTENDS Sad, Datastore

CONSTANTS
  QueueMax     \* capacity of the socket's receive queue, in messages

ASSUME QueueAssumption == QueueMax \in Nat \ {0}

VARIABLES
  evq,    \* messages waiting at the registered socket
  thr,    \* the thread: where it is and its local variables
  notif   \* the notification sent for the message in hand

threadVars == <<evq, thr, notif>>

\* An EXPIRE message carries the SPI only; the rest of the identity is kept
\* to say which SA it was about.  "other" is any message the thread drops:
\* SADB_ACQUIRE, and the echoes of other programs' requests.
Other == [kind |-> "other"]

Expires == [kind : {"soft", "hard"}, id : SaIds]

NoNotif == [name |-> ABSENT]

Notifs == {NoNotif} \cup [name : SadNames, soft : BOOLEAN]

Off == [pc |-> "off", rc |-> "ok", ev |-> Other, name |-> ABSENT]

Reading(rc) == [pc |-> "read", rc |-> rc, ev |-> Other, name |-> ABSENT]

ThreadTypeOK ==
  /\ evq \in Seq(Expires \cup {Other})
  /\ Len(evq) <= QueueMax
  /\ thr \in [pc : {"off", "read", "notify", "delete", "apply", "commit"},
              rc : {"ok", "failed"},
              ev : Expires \cup {Other},
              name : SadNames \cup {ABSENT}]
  /\ thr.pc \in {"notify", "delete", "apply", "commit"} => thr.ev \in Expires
  /\ thr.pc \in {"apply", "commit"} => thr.name \in SadNames
  /\ notif \in Notifs

ThreadInit ==
  /\ evq = << >>
  /\ thr = Off
  /\ notif = NoNotif

\* The node of the SA an EXPIRE message is about, as the thread finds it.
Expired(ev) == get_sad_node_by_spi(EventSpi(ev.id[2]))

-----------------------------------------------------------------------------
\* The kernel queues a message at the socket, or drops it when the queue is
\* full.  Without "drop" a message waits for room.
Deliver(ev) ==
  \/ /\ Len(evq) < QueueMax
     /\ evq' = Append(evq, ev)
  \/ /\ Len(evq) = QueueMax
     /\ "drop" \in MayHappen
     /\ evq' = evq

\* Read returns an EXPIRE message to act on: any soft one, and a hard one if
\* rc, which outlives the loop's iterations, is SR_ERR_OK.
ReadExpire ==
  /\ thr.pc = "read"
  /\ evq # << >>
  /\ \/ Head(evq).kind = "soft"
     \/ Head(evq).kind = "hard" /\ thr.rc = "ok"
  /\ evq' = Tail(evq)
  /\ thr' = [thr EXCEPT !.pc = "notify", !.ev = Head(evq)]
  /\ notif' = NoNotif

\* A hard EXPIRE with rc left over from a failed notification: "not remove".
ReadNotRemove ==
  /\ thr.pc = "read"
  /\ evq # << >>
  /\ Head(evq).kind = "hard"
  /\ thr.rc # "ok"
  /\ evq' = Tail(evq)
  /\ notif' = NoNotif
  /\ UNCHANGED thr

\* Mutant of ReadOther: the thread returns from its loop.
ReadOtherLeaves ==
  /\ thr.pc = "read"
  /\ evq # << >>
  /\ Head(evq).kind = "other"
  /\ evq' = Tail(evq)
  /\ notif' = NoNotif
  /\ thr' = Off

\* Any other message.  The acquire notification is commented out.
ReadOther ==
  /\ thr.pc = "read"
  /\ evq # << >>
  /\ Head(evq).kind = "other"
  /\ evq' = Tail(evq)
  /\ notif' = NoNotif
  /\ UNCHANGED thr

\* Mutants of AfterNotify: a soft expiry deletes as well; a hard one does not.
AfterNotifyDelete(rc) == thr' = [thr EXCEPT !.pc = "delete", !.rc = rc]

AfterNotifyOnly(rc) == thr' = Reading(rc)

AfterNotify(rc) ==
  thr' = IF thr.ev.kind = "hard"
           THEN [thr EXCEPT !.pc = "delete", !.rc = rc]
           ELSE Reading(rc)

\* Mutant of SendExpireNotification: the name is that of the list's head.
SendExpireHead ==
  /\ thr.pc = "notify"
  /\ Expired(thr.ev) # 0
  /\ notif' = [name |-> sad[1].name, soft |-> thr.ev.kind = "soft"]
  /\ AfterNotify("ok")
  /\ UNCHANGED evq

\* send_sa_expire_notification for an SA with a node.
SendExpireNotification ==
  /\ thr.pc = "notify"
  /\ Expired(thr.ev) # 0
  /\ notif' = [name |-> sad[Expired(thr.ev)].name, soft |-> thr.ev.kind = "soft"]
  /\ AfterNotify("ok")
  /\ UNCHANGED evq

\* send_sa_expire_notification: the notification cannot be created, which
\* leaves rc at SR_ERR_OK, or cannot be sent, which does not.
NotifyFails ==
  /\ thr.pc = "notify"
  /\ "notif" \in MayHappen
  /\ \/ AfterNotify("ok")
     \/ Expired(thr.ev) # 0 /\ AfterNotify("failed")
  /\ UNCHANGED <<evq, notif>>

\* send_sa_expire_notification: SR_ERR_NOT_FOUND.
ExpireNotFound ==
  /\ thr.pc = "notify"
  /\ Expired(thr.ev) = 0
  /\ AfterNotify("failed")
  /\ UNCHANGED <<evq, notif>>

\* Mutant of SendDeleteRequest: the name is not copied from the node.
SendDeleteNameless ==
  /\ thr.pc = "delete"
  /\ Expired(thr.ev) # 0
  /\ thr' = [thr EXCEPT !.pc = "apply"]
  /\ UNCHANGED <<evq, notif>>

\* send_delete_SAD_request up to sr_delete_item: connect, find the node
\* again, and copy its name.
SendDeleteRequest ==
  /\ thr.pc = "delete"
  /\ \/ /\ Expired(thr.ev) # 0
        /\ thr' = [thr EXCEPT !.pc = "apply",
                              !.name = sad[Expired(thr.ev)].name]
     \/ /\ "request" \in MayHappen
        /\ thr' = Reading(thr.rc)
  /\ UNCHANGED <<evq, notif>>

\* send_delete_SAD_request reads the name through a null pointer.
NullDereference == thr.pc = "delete" /\ Expired(thr.ev) = 0

\* sr_apply_changes: the entry is there and its deletion begins.
ApplyDelete ==
  /\ thr.pc = "apply"
  /\ ThreadDeletes(thr.name)
  /\ thr' = [thr EXCEPT !.pc = "commit"]
  /\ UNCHANGED <<evq, notif>>

\* sr_apply_changes with nothing to delete, or failing.
ApplyNothing ==
  /\ thr.pc = "apply"
  /\ \/ Idle /\ runSad[thr.name] = ABSENT
     \/ "request" \in MayHappen
  /\ thr' = Reading(thr.rc)
  /\ UNCHANGED <<evq, notif, dsVars>>

\* Mutant of ApplyReturns: the request is sent again after its commit.
ApplyReturnsRetry ==
  /\ thr.pc = "commit"
  /\ tx.by # "thread"
  /\ thr' = [thr EXCEPT !.pc = "delete"]
  /\ UNCHANGED <<evq, notif>>

\* sr_apply_changes returns: the commit has succeeded or been undone.
ApplyReturns ==
  /\ thr.pc = "commit"
  /\ tx.by # "thread"
  /\ thr' = Reading(thr.rc)
  /\ UNCHANGED <<evq, notif>>

\* The process ends and its socket with it.
ThreadLost ==
  /\ evq' = << >>
  /\ thr' = Off
  /\ notif' = NoNotif

\* pf_exec_register up to its Write: the kernel answers on the socket, which
\* may hold a message broadcast before the request.
SendRegister ==
  /\ thr = Off
  /\ evq' \in {<<Other>>} \cup
       (IF "noise" \in MayHappen /\ QueueMax > 1 THEN {<<Other, Other>>} ELSE {})
  /\ UNCHANGED <<thr, notif>>

\* Mutant of ReadReply: the socket is drained before the thread is created.
ReadReplies ==
  /\ thr = Off
  /\ evq # << >>
  /\ evq' = << >>
  /\ thr' = Reading("ok")
  /\ UNCHANGED notif

\* The rest of pf_exec_register: it reads one message, whatever it is, and
\* creates the thread.
ReadReply ==
  /\ thr = Off
  /\ evq # << >>
  /\ evq' = Tail(evq)
  /\ thr' = Reading("ok")
  /\ UNCHANGED notif

=============================================================================
