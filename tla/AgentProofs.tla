---------------------------- MODULE AgentProofs -----------------------------
(***************************************************************************)
(* The daemon uses its two lists as Sad and Spd say: every step of Agent   *)
(* is a step of Sad or leaves it alone, and likewise for Spd, so that what *)
(* is proved of the components holds of the daemon with all its threads.   *)
(***************************************************************************)
EXTENDS Agent, SadSpdProofs

\* Both the running configuration and the one under way are made of
\* configurations the controller may give.
Given ==
  /\ \A n \in SadNames : /\ runSad[n] \in SadCfgsOf[n] \cup {ABSENT}
                         /\ newSad[n] \in SadCfgsOf[n] \cup {ABSENT}
  /\ \A n \in SpdNames : /\ runSpd[n] \in SpdCfgsOf[n] \cup {ABSENT}
                         /\ newSpd[n] \in SpdCfgsOf[n] \cup {ABSENT}
  /\ DOMAIN runSad = SadNames /\ DOMAIN newSad = SadNames

\* The datastore only ever holds configurations the controller has given.
LEMMA GivenCorrect == Spec => []Given
<1>1. Init => Given
  BY DEF Init, DsInit, Given
<1>2. Given /\ [Next]_vars => Given'
  <2> SUFFICES ASSUME Given, [Next]_vars
               PROVE  Given'
    OBVIOUS
  <2>1. CASE UNCHANGED <<runSad, runSpd, newSad, newSpd>>
    BY <2>1 DEF Given
  <2>2. CASE Commit
    BY <2>2 DEF Commit, Given
  <2>3. CASE Abort
    BY <2>3 DEF Abort, Given
  <2> USE DEF Undo
  <2>4. ASSUME NEW new \in SadWanted, NEW s, ControllerEditsSad(new, s)
        PROVE  Given'
    BY <2>4 DEF ControllerEditsSad, SadWanted, Given
  <2>5. ASSUME NEW new \in SpdWanted, NEW s, ControllerEditsSpd(new, s)
        PROVE  Given'
    BY <2>5 DEF ControllerEditsSpd, SpdWanted, Given
  <2>6. CASE ApplyDelete
    <3>1. PICK n : newSad' = [runSad EXCEPT ![n] = ABSENT]
                   /\ UNCHANGED <<runSad, runSpd, newSpd>>
      BY <2>6 DEF ApplyDelete, ThreadDeletes
    <3>2. QED
      BY <3>1 DEF Given
  <2>7. CASE ProcessEnds
    BY <2>1, <2>3, <2>7 DEF ProcessEnds, dsVars
  <2>8. CASE spd_entry_change_cb
    BY <2>1, <2>3, <2>8
    DEF spd_entry_change_cb, SpdCreate, SpdDelete, SpdModify, SpdPfAdd,
        SpdPfAddForward, SpdPfDelForward, SpdUnlink, Handled, dsVars
  <2>9. CASE sad_entry_change_cb
    BY <2>1, <2>3, <2>9
    DEF sad_entry_change_cb, SadCreate, SadDelete, SadModify, SadPfAdd,
        SadUnlink, Handled, dsVars
  <2>10. CASE pf_sadb_esp_register_run
    BY <2>1, <2>6, <2>10
    DEF pf_sadb_esp_register_run, ApplyNothing, dsVars
  <2>11. CASE Environment
    BY <2>1, <2>4, <2>5, <2>7, <2>11
    DEF Environment, Controller, KernelExpires, OtherProgramAdds,
        KernelTellsOther, GivesUp, TimesOut, Stop, dsVars
  <2>12. CASE SubscribeSpd \/ SubscribeSad \/ sadb_register
    BY <2>1, <2>12 DEF SubscribeSpd, SubscribeSad, sadb_register, dsVars
  <2>13. CASE UNCHANGED vars
    BY <2>1, <2>13 DEF vars, dsVars
  <2>14. QED
    BY <2>2, <2>3, <2>7, <2>8, <2>9, <2>10, <2>11, <2>12, <2>13
    DEF Next, Crash, FinishCommit
<1>3. QED
  BY <1>1, <1>2, PTL DEF Spec

-----------------------------------------------------------------------------
(***************************************************************************)
(* The daemon implements Sad: sad_entry_change_cb, restarts, the kernel    *)
(* and other programs change the SAD only by Sad's steps, and the register *)
(* thread not at all.                                                      *)
(***************************************************************************)
THEOREM AgentImplementsSad == Spec => SadSpec
<1>1. Init => SadInit
  BY DEF Init
<1>2. Given /\ [Next]_vars => [SadNext]_sadVars
  <2> SUFFICES ASSUME Given, [Next]_vars
               PROVE  [SadNext]_sadVars
    OBVIOUS
  <2>1. ASSUME NEW n \in SadNames, SadCreate(n)
        PROVE  SadNext
    <3>1. newSad[n] \in SadCfgsOf[n]
      BY <2>1 DEF SadCreate, SadChange, EditOf, Given
    <3>2. QED
      BY <2>1, <3>1 DEF SadCreate, SadNext
  <2>2. ASSUME NEW n \in SadNames, SadDelete(n)
        PROVE  [SadNext]_sadVars
    BY <2>2 DEF SadDelete, SadNotFound, SadNext
  <2>3. CASE sad_entry_change_cb
    BY <2>1, <2>2, <2>3
    DEF sad_entry_change_cb, SadModify, SadPfAdd, SadUnlink, SadNext, SadGoesOn
  <2>4. CASE spd_entry_change_cb
    BY <2>4
    DEF spd_entry_change_cb, SpdCreate, SpdDelete, SpdModify, SpdPfAdd,
        SpdPfAddForward, SpdPfDelForward, SpdUnlink, SpdGoesOn, SpdRest
  <2>5. CASE ProcessEnds
    BY <2>5 DEF ProcessEnds, SadNext
  <2>6. ASSUME NEW k \in SaIds, KernelExpires(k) \/ OtherProgramAdds(k)
        PROVE  SadNext
    BY <2>6 DEF KernelExpires, OtherProgramAdds, SadNext
  <2>7. CASE Environment
    BY <2>5, <2>6, <2>7
    DEF Environment, Controller, KernelTellsOther, GivesUp, Stop
  <2>8. CASE UNCHANGED vars
    BY <2>8 DEF vars
  <2>9. QED
    BY <2>3, <2>4, <2>5, <2>7, <2>8
    DEF Next, Crash, FinishCommit, SubscribeSpd, SubscribeSad, sadb_register,
        pf_sadb_esp_register_run
<1>3. QED
  BY <1>1, <1>2, GivenCorrect, PTL DEF Spec, SadSpec

(***************************************************************************)
(* The daemon implements Spd: only spd_entry_change_cb and restarts change *)
(* the SPD, by Spd's steps.                                                *)
(***************************************************************************)
THEOREM AgentImplementsSpd == Spec => SpdSpec
<1>1. Init => SpdInit
  BY DEF Init
<1>2. Given /\ [Next]_vars => [SpdNext]_spdVars
  <2> SUFFICES ASSUME Given, [Next]_vars
               PROVE  [SpdNext]_spdVars
    OBVIOUS
  <2>1. ASSUME NEW n \in SpdNames, SpdCreate(n)
        PROVE  [SpdNext]_spdVars
    <3>1. newSpd[n] \in SpdCfgsOf[n]
      BY <2>1 DEF SpdCreate, SpdChange, EditOf, Given
    <3>2. QED
      BY <2>1, <3>1 DEF SpdCreate, SpdExists, SpdNext
  <2>2. ASSUME NEW n \in SpdNames, SpdDelete(n)
        PROVE  [SpdNext]_spdVars
    BY <2>2 DEF SpdDelete, SpdNotFound, SpdNext
  <2>3. CASE spd_entry_change_cb
    BY <2>1, <2>2, <2>3
    DEF spd_entry_change_cb, SpdModify, SpdPfAdd, SpdPfAddForward,
        SpdPfDelForward, SpdUnlink, SpdNext
  <2>4. CASE sad_entry_change_cb
    BY <2>4
    DEF sad_entry_change_cb, SadCreate, SadDelete, SadModify, SadPfAdd,
        SadUnlink, SadGoesOn, SadRest
  <2>5. CASE ProcessEnds
    BY <2>5 DEF ProcessEnds, SpdNext
  <2>6. CASE Environment
    BY <2>5, <2>6
    DEF Environment, Controller, KernelExpires, OtherProgramAdds,
        KernelTellsOther, GivesUp, Stop
  <2>7. CASE UNCHANGED vars
    BY <2>7 DEF vars
  <2>8. QED
    BY <2>3, <2>4, <2>5, <2>6, <2>7
    DEF Next, Crash, FinishCommit, SubscribeSpd, SubscribeSad, sadb_register,
        pf_sadb_esp_register_run
<1>3. QED
  BY <1>1, <1>2, GivenCorrect, PTL DEF Spec, SpdSpec

-----------------------------------------------------------------------------
(***************************************************************************)
(* In the daemon, with its threads, the controller, expirations, failures  *)
(* and restarts, an SA this run has put in the kernel has a node, if       *)
(* pf_delsad names the SAs as pf_addsad does.                              *)
(***************************************************************************)
THEOREM AgentSaHasNode ==
  ASSUME SameIds
  PROVE  Spec => []SaHasNode
BY AgentImplementsSad, SaHasNodeCorrect, PTL

(***************************************************************************)
(* In the daemon the names of the SPD list stay apart and no policy loses  *)
(* its node.                                                               *)
(***************************************************************************)
THEOREM AgentSpdSafe == Spec => [](SpdNamesUnique /\ PolicyHasNode)
BY AgentImplementsSpd, SpdNamesCorrect, PolicyHasNodeCorrect, PTL

(***************************************************************************)
(* And every node has its policies in the kernel, provided that the kernel *)
(* refuses none and that entries do not share them.                        *)
(***************************************************************************)
THEOREM AgentSpdInstalled ==
  ASSUME OwnPolicies, "reject" \notin MayHappen
  PROVE  Spec => []SpdInstalled
BY AgentImplementsSpd, SpdInstalledCorrect, PTL

-----------------------------------------------------------------------------
(* The register thread *)

\* The thread's types, and that it runs in a process that has come up.
ThreadInv ==
  /\ ThreadTypeOK
  /\ thr.pc # "off" => up = "up"

\* Where the thread may be.
Threads ==
  [pc : {"off", "read", "notify", "delete", "apply", "commit"},
   rc : {"ok", "failed"}, ev : Expires \cup {Other}, name : SadNames \cup {ABSENT}]

\* The thread between two messages, and after a notification.
LEMMA ReadingType ==
  ASSUME NEW rc \in {"ok", "failed"}
  PROVE  Reading(rc) \in Threads /\ Reading(rc).pc = "read" /\ Off \in Threads
BY DEF Reading, Off, Threads

\* A message queued at the socket leaves a queue of messages.
LEMMA DeliverType ==
  ASSUME ThreadTypeOK, NEW ev \in Expires \cup {Other}, Deliver(ev)
  PROVE  evq' \in Seq(Expires \cup {Other}) /\ Len(evq') <= QueueMax
<1>1. Len(evq) \in Nat /\ QueueMax \in Nat
  BY QueueAssumption, LenProperties DEF ThreadTypeOK
<1>2. CASE evq' = Append(evq, ev) /\ Len(evq) < QueueMax
  <2>1. evq' \in Seq(Expires \cup {Other}) /\ Len(evq') = Len(evq) + 1
    BY <1>2, AppendProperties DEF ThreadTypeOK
  <2>2. QED
    BY <1>1, <1>2, <2>1
<1>3. CASE evq' = evq
  BY <1>3 DEF ThreadTypeOK
<1>4. QED
  BY <1>2, <1>3 DEF Deliver

\* A message read from the socket leaves a queue of messages.
LEMMA ReadType ==
  ASSUME ThreadTypeOK, evq # << >>
  PROVE  /\ Head(evq) \in Expires \cup {Other}
         /\ Tail(evq) \in Seq(Expires \cup {Other})
         /\ Len(Tail(evq)) <= QueueMax
<1>1. Len(evq) \in Nat /\ QueueMax \in Nat
  BY QueueAssumption, LenProperties DEF ThreadTypeOK
<1>2. /\ Head(evq) \in Expires \cup {Other}
      /\ Tail(evq) \in Seq(Expires \cup {Other})
      /\ Len(Tail(evq)) = Len(evq) - 1
  BY HeadTailProperties DEF ThreadTypeOK
<1>3. QED
  BY <1>1, <1>2 DEF ThreadTypeOK

\* Handling a notification leaves the thread at the deletion or at its loop.
LEMMA AfterNotifyType ==
  ASSUME ThreadTypeOK, thr.pc = "notify", NEW rc \in {"ok", "failed"}, AfterNotify(rc)
  PROVE  /\ thr' \in Threads
         /\ thr'.pc \in {"read", "delete"}
         /\ thr'.pc = "delete" => thr'.ev = thr.ev
<1>1. thr \in Threads
  BY DEF ThreadTypeOK, Threads
<1>2. CASE thr.ev.kind = "hard"
  <2>1. thr' = [pc |-> "delete", rc |-> rc, ev |-> thr.ev, name |-> thr.name]
    BY <1>1, <1>2 DEF AfterNotify, Threads
  <2>2. QED
    BY <1>1, <2>1 DEF Threads
<1>3. CASE thr.ev.kind # "hard"
  BY <1>3, ReadingType DEF AfterNotify
<1>4. QED
  BY <1>2, <1>3

\* The thread keeps its types: it acts on EXPIRE messages only and deletes
\* entries by the name of a node.
LEMMA ThreadInvKept ==
  ASSUME SadTypeOK, ThreadInv, [Next]_vars
  PROVE  ThreadInv'
<1>0. /\ evq \in Seq(Expires \cup {Other}) /\ Len(evq) <= QueueMax
      /\ thr \in Threads /\ notif \in Notifs
      /\ thr.pc \in {"notify", "delete", "apply", "commit"} => thr.ev \in Expires
      /\ thr.pc \in {"apply", "commit"} => thr.name \in SadNames
      /\ thr.pc # "off" => up = "up"
      /\ ThreadTypeOK
  BY DEF ThreadInv, ThreadTypeOK, Threads
<1>1. QueueMax \in Nat \ {0}
  BY QueueAssumption
<1>2. CASE UNCHANGED threadVars /\ (up' = up \/ thr.pc = "off")
  BY <1>0, <1>2 DEF threadVars, ThreadInv, ThreadTypeOK
<1>3. ASSUME NEW f \in 1..Len(sad)
      PROVE  sad[f].name \in SadNames
  <2>1. sad[f] \in SadNode
    BY ElementOfSeq DEF SadTypeOK
  <2>2. QED
    BY <2>1 DEF SadNode
<1>4. Expired(thr.ev) # 0 => sad[Expired(thr.ev)].name \in SadNames
  BY <1>3, GetNodeBySpiFinds DEF Expired, get_sad_node_by_spi, SadTypeOK
<1>5. CASE ReadExpire /\ UNCHANGED up
  <2>1. /\ Head(evq) \in Expires
        /\ evq' \in Seq(Expires \cup {Other}) /\ Len(evq') <= QueueMax
    BY <1>0, <1>5, ReadType DEF ReadExpire, Other
  <2>2. thr' = [pc |-> "notify", rc |-> thr.rc, ev |-> Head(evq), name |-> thr.name]
    BY <1>0, <1>5 DEF ReadExpire, Threads
  <2>3. thr' \in Threads /\ thr'.pc = "notify" /\ thr'.ev \in Expires
    BY <1>0, <2>1, <2>2 DEF Threads
  <2>4. QED
    BY <1>0, <1>5, <2>1, <2>3 DEF ReadExpire, ThreadInv, ThreadTypeOK, Threads, Notifs
<1>6. CASE (ReadNotRemove \/ ReadOther) /\ UNCHANGED up
  <2>1. evq' \in Seq(Expires \cup {Other}) /\ Len(evq') <= QueueMax
    BY <1>0, <1>6, ReadType DEF ReadNotRemove, ReadOther
  <2>2. QED
    BY <1>0, <1>6, <2>1
    DEF ReadNotRemove, ReadOther, ThreadInv, ThreadTypeOK, Threads, Notifs
<1>7. CASE SendExpireNotification /\ UNCHANGED up
  <2>1. /\ thr' \in Threads
        /\ thr'.pc \in {"read", "delete"}
        /\ thr'.pc = "delete" => thr'.ev = thr.ev
    BY <1>0, <1>7, AfterNotifyType DEF SendExpireNotification
  <2>2. notif' \in Notifs
    BY <1>4, <1>7 DEF SendExpireNotification, Notifs
  <2>3. QED
    BY <1>0, <1>7, <2>1, <2>2
    DEF SendExpireNotification, ThreadInv, ThreadTypeOK, Threads
<1>8. CASE (NotifyFails \/ ExpireNotFound) /\ UNCHANGED up
  <2>1. /\ thr' \in Threads
        /\ thr'.pc \in {"read", "delete"}
        /\ thr'.pc = "delete" => thr'.ev = thr.ev
    BY <1>0, <1>8, AfterNotifyType DEF NotifyFails, ExpireNotFound
  <2>2. QED
    BY <1>0, <1>8, <2>1 DEF NotifyFails, ExpireNotFound, ThreadInv, ThreadTypeOK, Threads
<1>9. CASE SendDeleteRequest /\ UNCHANGED up
  <2>1. CASE /\ Expired(thr.ev) # 0
             /\ thr' = [thr EXCEPT !.pc = "apply", !.name = sad[Expired(thr.ev)].name]
    <3>1. thr' = [pc |-> "apply", rc |-> thr.rc, ev |-> thr.ev,
                  name |-> sad[Expired(thr.ev)].name]
      BY <1>0, <2>1 DEF Threads
    <3>2. thr' \in Threads /\ thr'.ev = thr.ev /\ thr'.name \in SadNames
      BY <1>0, <1>4, <2>1, <3>1 DEF Threads
    <3>3. QED
      BY <1>0, <1>9, <3>1, <3>2 DEF SendDeleteRequest, ThreadInv, ThreadTypeOK, Threads
  <2>2. CASE thr' = Reading(thr.rc)
    <3>1. thr' \in Threads /\ thr'.pc = "read"
      BY <1>0, <2>2, ReadingType DEF Threads
    <3>2. QED
      BY <1>0, <1>9, <3>1 DEF SendDeleteRequest, ThreadInv, ThreadTypeOK, Threads
  <2>3. QED
    BY <1>9, <2>1, <2>2 DEF SendDeleteRequest
<1>10. CASE ApplyDelete /\ UNCHANGED up
  <2>1. thr' = [pc |-> "commit", rc |-> thr.rc, ev |-> thr.ev, name |-> thr.name]
    BY <1>0, <1>10 DEF ApplyDelete, Threads
  <2>2. thr' \in Threads
    BY <1>0, <2>1 DEF Threads
  <2>3. QED
    BY <1>0, <1>10, <2>1, <2>2 DEF ApplyDelete, ThreadInv, ThreadTypeOK, Threads
<1>11. CASE (ApplyNothing \/ ApplyReturns) /\ UNCHANGED up
  <2>1. thr' \in Threads /\ thr'.pc = "read"
    BY <1>0, <1>11, ReadingType DEF ApplyNothing, ApplyReturns, Threads
  <2>2. QED
    BY <1>0, <1>11, <2>1 DEF ApplyNothing, ApplyReturns, ThreadInv, ThreadTypeOK, Threads
<1>12. CASE ProcessEnds
  <2>1. evq' = << >> /\ thr' = Off /\ notif' = NoNotif
    BY <1>12 DEF ProcessEnds, ThreadLost
  <2>2. Off \in Threads /\ Off.pc = "off"
    BY DEF Off, Threads
  <2>3. QED
    BY <1>1, <2>1, <2>2, EmptySeq DEF ThreadInv, ThreadTypeOK, Threads, Notifs
<1>13. CASE sadb_register
  <2>1. CASE SendRegister
    <3>1. Other \in Expires \cup {Other}
      OBVIOUS
    <3>2. \/ evq' = <<Other>>
          \/ evq' = <<Other, Other>> /\ QueueMax > 1
      BY <2>1 DEF SendRegister
    <3>3. evq' \in Seq(Expires \cup {Other}) /\ Len(evq') <= QueueMax
      <4> DEFINE T == Expires \cup {Other}
      <4> HIDE DEF Other
      <4>1. CASE evq' = <<Other>>
        <5>1. evq' \in Seq(T) /\ Len(evq') = 1
          BY <4>1
        <5>2. QED
          BY <1>1, <5>1
      <4>2. CASE evq' = <<Other, Other>> /\ QueueMax > 1
        <5>1. evq' \in Seq(T) /\ Len(evq') = 2
          BY <4>2
        <5>2. QED
          BY <1>1, <4>2, <5>1
      <4>3. QED
        BY <3>2, <4>1, <4>2
    <3>4. thr.pc = "off"
      BY <2>1 DEF SendRegister, Off
    <3>5. QED
      BY <1>0, <2>1, <3>3, <3>4 DEF SendRegister, ThreadInv, ThreadTypeOK, Threads
  <2>2. CASE ReadReply /\ up' = "up"
    <3>1. evq' \in Seq(Expires \cup {Other}) /\ Len(evq') <= QueueMax
      BY <1>0, <2>2, ReadType DEF ReadReply
    <3>2. thr' \in Threads /\ thr'.pc = "read"
      BY <2>2, ReadingType DEF ReadReply
    <3>3. QED
      BY <1>0, <2>2, <3>1, <3>2 DEF ReadReply, ThreadInv, ThreadTypeOK, Threads
  <2>3. QED
    BY <1>13, <2>1, <2>2 DEF sadb_register
<1>14. ASSUME NEW k \in SaIds, KernelExpires(k)
       PROVE  ThreadInv'
  <2>1. PICK ev \in Expires : Tell(ev)
    <3>1. \A s \in {"soft", "hard"} : [kind |-> s, id |-> k] \in Expires
      BY DEF Expires
    <3>2. QED
      BY <1>14, <3>1 DEF KernelExpires
  <2>2. evq' \in Seq(Expires \cup {Other}) /\ Len(evq') <= QueueMax
    BY <1>0, <2>1, DeliverType DEF Tell
  <2>3. QED
    BY <1>0, <1>14, <2>1, <2>2
    DEF KernelExpires, Tell, mainVars, ThreadInv, ThreadTypeOK, Threads
<1>15. CASE KernelTellsOther
  <2>1. evq' \in Seq(Expires \cup {Other}) /\ Len(evq') <= QueueMax
    BY <1>0, <1>15, DeliverType DEF KernelTellsOther
  <2>2. QED
    BY <1>0, <1>15, <2>1
    DEF KernelTellsOther, mainVars, ThreadInv, ThreadTypeOK, Threads
<1>16. CASE pf_sadb_esp_register_run
  BY <1>5, <1>6, <1>7, <1>8, <1>9, <1>10, <1>11, <1>16
  DEF pf_sadb_esp_register_run, mainVars
<1>17. CASE SubscribeSpd \/ SubscribeSad
  <2>1. thr.pc = "off"
    BY <1>0, <1>17 DEF SubscribeSpd, SubscribeSad
  <2>2. QED
    BY <1>2, <1>17, <2>1 DEF SubscribeSpd, SubscribeSad
<1>18. CASE spd_entry_change_cb \/ sad_entry_change_cb
  BY <1>2, <1>18
  DEF spd_entry_change_cb, SpdCreate, SpdDelete, SpdModify, SpdPfAdd,
      SpdPfAddForward, SpdPfDelForward, SpdUnlink, SpdGoesOn, SpdRest,
      sad_entry_change_cb, SadCreate, SadDelete, SadModify, SadPfAdd,
      SadUnlink, SadGoesOn, SadRest, mainVars
<1>19. CASE Environment
  BY <1>2, <1>12, <1>14, <1>15, <1>19
  DEF Environment, Controller, OtherProgramAdds, GivesUp, Stop, mainVars
<1>20. CASE FinishCommit \/ UNCHANGED vars
  BY <1>2, <1>20 DEF FinishCommit, mainVars, vars
<1>21. QED
  BY <1>12, <1>13, <1>16, <1>17, <1>18, <1>19, <1>20 DEF Next, Crash

-----------------------------------------------------------------------------
(* The commit under way *)

\* A commit creates or deletes entries only, if the controller does so.
OneEditEach(old, new) ==
  "modify" \notin Edits =>
    \A n \in DOMAIN old : old[n] = new[n] \/ old[n] = ABSENT \/ new[n] = ABSENT

\* The configurations before and after the commit under way, and the entries
\* of it still to be handled.
CommitInv ==
  /\ DsTypeOK
  /\ Idle => newSad = runSad /\ newSpd = runSpd
  /\ ~Idle /\ tx.list = "sad" => newSpd = runSpd /\ tx.todo \subseteq Changed(runSad, newSad)
  /\ ~Idle /\ tx.list = "spd" => newSad = runSad /\ tx.todo \subseteq Changed(runSpd, newSpd)
  /\ OneEditEach(runSad, newSad)
  /\ OneEditEach(runSpd, newSpd)

\* A commit under way concerns one list and entries of that list.
LEMMA CommitShape ==
  ASSUME DsTypeOK, ~Idle
  PROVE  /\ tx = [by |-> tx.by, list |-> tx.list, todo |-> tx.todo]
         /\ tx.by \in {"controller", "thread", "late"}
         /\ tx.list \in {"sad", "spd"}
         /\ tx.list = "sad" => tx.todo \subseteq SadNames
         /\ tx.list = "spd" => tx.todo \subseteq SpdNames /\ tx.by # "thread"
<1>1. CASE tx \in [by : {"controller", "thread", "late"}, list : {"sad"}, todo : SUBSET SadNames]
  BY <1>1
<1>2. CASE tx \in [by : {"controller", "late"}, list : {"spd"}, todo : SUBSET SpdNames]
  BY <1>2
<1>3. QED
  BY <1>1, <1>2 DEF DsTypeOK, Txs, Idle

\* A record with such fields is a commit.
LEMMA CommitType ==
  ASSUME NEW by, NEW l, NEW todo,
         \/ /\ by \in {"controller", "thread", "late"} /\ l = "sad"
            /\ todo \subseteq SadNames
         \/ by \in {"controller", "late"} /\ l = "spd" /\ todo \subseteq SpdNames
  PROVE  /\ [by |-> by, list |-> l, todo |-> todo] \in Txs
         /\ [by |-> by, list |-> l, todo |-> todo] # NoTx
<1>1. [by |-> by, list |-> l, todo |-> todo] \in Txs
  BY DEF Txs
<1>2. [by |-> by, list |-> l, todo |-> todo].by # NoTx.by
  BY DEF NoTx
<1>3. QED
  BY <1>1, <1>2

\* What handling an entry does to the commit under way.
LEMMA HandledCommit ==
  ASSUME DsTypeOK, ~Idle, NEW n, Handled(n)
  PROVE  /\ tx' \in Txs /\ tx' # NoTx
         /\ tx'.by = tx.by /\ tx'.list = tx.list /\ tx'.todo = tx.todo \ {n}
<1>1. tx' = [by |-> tx.by, list |-> tx.list, todo |-> tx.todo \ {n}]
  BY CommitShape DEF Handled
<1>2. QED
  BY <1>1, CommitShape, CommitType

\* What a timeout does to the commit under way.
LEMMA TimedOutCommit ==
  ASSUME DsTypeOK, TimesOut
  PROVE  /\ tx' \in Txs /\ tx' # NoTx
         /\ tx'.by = "late" /\ tx'.list = tx.list /\ tx'.todo = tx.todo
<1>1. tx' = [by |-> "late", list |-> tx.list, todo |-> tx.todo] /\ ~Idle
  BY CommitShape DEF TimesOut
<1>2. QED
  BY <1>1, CommitShape, CommitType

\* The configurations the controller asks for are configurations.
LEMMA WantedType ==
  /\ \A new \in SadWanted : new \in SadConfigs
  /\ \A new \in SpdWanted : new \in SpdConfigs
<1>1. ASSUME NEW new \in SadWanted
      PROVE  new \in SadConfigs
  <2>1. DOMAIN new = SadNames /\ new = [n \in SadNames |-> new[n]]
    BY DEF SadWanted
  <2>2. \A n \in SadNames : new[n] \in SadCfg \cup {ABSENT}
    BY NamesAssumption DEF SadWanted
  <2>3. QED
    BY <2>1, <2>2 DEF SadConfigs
<1>2. ASSUME NEW new \in SpdWanted
      PROVE  new \in SpdConfigs
  <2>1. DOMAIN new = SpdNames /\ new = [n \in SpdNames |-> new[n]]
    BY DEF SpdWanted
  <2>2. \A n \in SpdNames : new[n] \in SpdCfg \cup {ABSENT}
    BY NamesAssumption DEF SpdWanted
  <2>3. QED
    BY <2>1, <2>2 DEF SpdConfigs
<1>3. QED
  BY <1>1, <1>2

\* A legal edit creates or deletes if the controller modifies nothing.
LEMMA LegalEdits ==
  ASSUME NEW old, NEW new, Legal(old, new)
  PROVE  OneEditEach(old, new)
<1>1. \A n \in DOMAIN old : old[n] # new[n] => EditOf(old, new, n) \in Edits
  BY DEF Legal, Changed
<1>2. ASSUME NEW n \in DOMAIN old, old[n] # new[n], old[n] # ABSENT, new[n] # ABSENT
      PROVE  "modify" \in Edits
  <2>1. EditOf(old, new, n) = "modify"
    BY <1>2 DEF EditOf
  <2>2. QED
    BY <1>1, <1>2, <2>1
<1>3. QED
  BY <1>2 DEF OneEditEach

\* What the daemon lets the datastore do to the commit under way.
DatastoreStep ==
  \/ UNCHANGED dsVars
  \/ ~Idle /\ \E n \in SadNames \cup SpdNames : Handled(n)
  \/ TimesOut
  \/ Commit
  \/ Abort
  \/ \E new \in SadWanted : ControllerEditsSad(new, SubscribedSad)
  \/ \E new \in SpdWanted : ControllerEditsSpd(new, SubscribedSpd)
  \/ SubscribedSad /\ ApplyDelete /\ \E n \in SadNames : n = thr.name /\ ThreadDeletes(n)

\* Every step of the datastore keeps the commit under way in order.
LEMMA CommitInvKept ==
  ASSUME CommitInv, DatastoreStep
  PROVE  CommitInv'
<1>0. /\ runSad \in SadConfigs /\ newSad \in SadConfigs
      /\ runSpd \in SpdConfigs /\ newSpd \in SpdConfigs
      /\ tx \in Txs /\ commits \in 0..MaxCommits /\ MaxCommits \in Nat
      /\ Idle => newSad = runSad /\ newSpd = runSpd
      /\ OneEditEach(runSad, newSad) /\ OneEditEach(runSpd, newSpd)
  BY BoundsAssumption DEF CommitInv, DsTypeOK
<1>1. NoTx \in Txs
  BY DEF Txs
<1>2. \A c : OneEditEach(c, c)
  BY DEF OneEditEach
<1>3. ASSUME UNCHANGED <<runSad, runSpd, newSad, newSpd, commits>>,
             ~Idle, tx' \in Txs, tx' # NoTx, tx'.list = tx.list,
             tx'.todo \subseteq tx.todo
      PROVE  CommitInv'
  BY <1>0, <1>3 DEF CommitInv, DsTypeOK, OneEditEach, Changed, Idle
<1>4. CASE UNCHANGED dsVars
  BY <1>4 DEF dsVars, CommitInv, DsTypeOK, OneEditEach, Changed, Idle
<1>5. ASSUME ~Idle, NEW n, Handled(n)
      PROVE  CommitInv'
  <2>1. /\ tx' \in Txs /\ tx' # NoTx
        /\ tx'.list = tx.list /\ tx'.todo \subseteq tx.todo
    BY <1>5, HandledCommit DEF CommitInv
  <2>2. QED
    BY <1>3, <1>5, <2>1 DEF Handled
<1>6. CASE TimesOut
  <2>1. /\ tx' \in Txs /\ tx' # NoTx
        /\ tx'.list = tx.list /\ tx'.todo \subseteq tx.todo
    BY <1>6, TimedOutCommit DEF CommitInv
  <2>2. QED
    BY <1>3, <1>6, <2>1 DEF TimesOut
<1>7. CASE Commit
  BY <1>0, <1>1, <1>2, <1>7 DEF Commit, CommitInv, DsTypeOK, Idle
<1>8. CASE Abort
  BY <1>0, <1>1, <1>2, <1>8 DEF Abort, CommitInv, DsTypeOK, Idle
<1>9. ASSUME NEW new \in SadWanted, NEW s, ControllerEditsSad(new, s)
      PROVE  CommitInv'
  <2> DEFINE todo == IF s THEN Changed(runSad, new) ELSE {}
  <2>1. todo \subseteq Changed(runSad, new) /\ Changed(runSad, new) \subseteq SadNames
    BY <1>0 DEF Changed, SadConfigs
  <2>2. tx' = [by |-> "controller", list |-> "sad", todo |-> todo]
    BY <1>9 DEF ControllerEditsSad
  <2>3. newSad' = new /\ new \in SadConfigs /\ OneEditEach(runSad, new)
    BY <1>9, WantedType, LegalEdits DEF ControllerEditsSad
  <2>4. /\ UNCHANGED <<runSad, runSpd, newSpd>> /\ newSpd = runSpd
        /\ commits' \in 0..MaxCommits
    BY <1>0, <1>9 DEF ControllerEditsSad
  <2> HIDE DEF todo
  <2>5. tx' \in Txs /\ tx' # NoTx /\ tx'.list = "sad" /\ tx'.todo = todo
    BY <2>1, <2>2, CommitType
  <2>6. QED
    BY <1>0, <2>1, <2>3, <2>4, <2>5 DEF CommitInv, DsTypeOK, Idle
<1>10. ASSUME NEW new \in SpdWanted, NEW s, ControllerEditsSpd(new, s)
       PROVE  CommitInv'
  <2> DEFINE todo == IF s THEN Changed(runSpd, new) ELSE {}
  <2>1. todo \subseteq Changed(runSpd, new) /\ Changed(runSpd, new) \subseteq SpdNames
    BY <1>0 DEF Changed, SpdConfigs
  <2>2. tx' = [by |-> "controller", list |-> "spd", todo |-> todo]
    BY <1>10 DEF ControllerEditsSpd
  <2>3. newSpd' = new /\ new \in SpdConfigs /\ OneEditEach(runSpd, new)
    BY <1>10, WantedType, LegalEdits DEF ControllerEditsSpd
  <2>4. /\ UNCHANGED <<runSad, runSpd, newSad>> /\ newSad = runSad
        /\ commits' \in 0..MaxCommits
    BY <1>0, <1>10 DEF ControllerEditsSpd
  <2> HIDE DEF todo
  <2>5. tx' \in Txs /\ tx' # NoTx /\ tx'.list = "spd" /\ tx'.todo = todo
    BY <2>1, <2>2, CommitType
  <2>6. QED
    BY <1>0, <2>1, <2>3, <2>4, <2>5 DEF CommitInv, DsTypeOK, Idle
<1>11. ASSUME NEW n \in SadNames, ThreadDeletes(n)
       PROVE  CommitInv'
  <2>1. tx' = [by |-> "thread", list |-> "sad", todo |-> {n}]
    BY <1>11 DEF ThreadDeletes
  <2>2. tx' \in Txs /\ tx' # NoTx /\ tx'.list = "sad" /\ tx'.todo = {n}
    BY <2>1, CommitType
  <2>3. newSad' = [runSad EXCEPT ![n] = ABSENT] /\ runSad[n] # ABSENT
    BY <1>11 DEF ThreadDeletes
  <2>4. newSad' \in SadConfigs /\ OneEditEach(runSad, newSad') /\ n \in Changed(runSad, newSad')
    BY <1>0, <2>3 DEF SadConfigs, OneEditEach, Changed
  <2>5. UNCHANGED <<runSad, runSpd, newSpd, commits>> /\ newSpd = runSpd
    BY <1>0, <1>11 DEF ThreadDeletes
  <2>6. QED
    BY <1>0, <2>2, <2>4, <2>5 DEF CommitInv, DsTypeOK, Idle
<1>12. QED
  BY <1>4, <1>5, <1>6, <1>7, <1>8, <1>9, <1>10, <1>11 DEF DatastoreStep

-----------------------------------------------------------------------------
(* The callbacks at work on the commit *)

\* An operation on the SAD is the callback's work on an entry of the commit
\* under way, and nobody is at work before the callback is subscribed.
SadWork ==
  /\ sadOp # NoSadOp => ChangeNext("sad", sadOp.node.name)
  /\ sadOp.op = "add" => newSad[sadOp.node.name] = sadOp.node.cfg
  /\ sadOp.op = "del" => newSad[sadOp.node.name] = ABSENT
  /\ ~SubscribedSad => sad = << >> /\ \A n \in SadNames : ~ChangeNext("sad", n)

\* The same of the SPD.
SpdWork ==
  /\ spdOp # NoSpdOp => ChangeNext("spd", spdOp.node.name)
  /\ spdOp.op \in {"add", "addForward"} => newSpd[spdOp.node.name] = spdOp.node.cfg
  /\ spdOp.op \in {"delForward", "del"} => newSpd[spdOp.node.name] = ABSENT
  /\ ~SubscribedSpd => spd = << >> /\ \A n \in SpdNames : ~ChangeNext("spd", n)

WorkInv == CommitInv /\ SadWork /\ SpdWork

\* The kind of an edit says which of the two configurations has the entry.
LEMMA EditKinds ==
  ASSUME NEW old, NEW new, NEW n
  PROVE  /\ EditOf(old, new, n) = "create" => old[n] = ABSENT /\ new[n] # ABSENT
         /\ EditOf(old, new, n) = "delete" => old[n] # ABSENT /\ new[n] = ABSENT
         /\ EditOf(old, new, n) = "modify" => old[n] # ABSENT /\ new[n] # ABSENT
<1>1. CASE old[n] = new[n]
  BY <1>1 DEF EditOf
<1>2. CASE old[n] # new[n] /\ old[n] = ABSENT
  BY <1>2 DEF EditOf
<1>3. CASE old[n] # new[n] /\ old[n] # ABSENT
  BY <1>3 DEF EditOf
<1>4. QED
  BY <1>1, <1>2, <1>3

\* The node of an operation on the SAD is a node.
LEMMA SadOpNode ==
  ASSUME SadTypeOK, sadOp # NoSadOp
  PROVE  /\ sadOp.node \in SadNode
         /\ sadOp.node.name \in SadNames /\ sadOp.node.cfg \in SadCfg
         /\ sadOp.op \in {"add", "del"}
BY DEF SadTypeOK, SadOps, SadNode

\* Every step of the daemon is a step of the datastore or leaves it alone.
LEMMA AgentDatastoreStep ==
  ASSUME SadTypeOK, SpdTypeOK, ThreadInv, WorkInv, [Next]_vars
  PROVE  DatastoreStep
<1>1. spdOp # NoSpdOp => ~Idle /\ spdOp.node.name \in SpdNames
  BY SpdOpNode DEF WorkInv, SpdWork, ChangeNext, SpdNode
<1>2. sadOp # NoSadOp => ~Idle /\ sadOp.node.name \in SadNames
  BY SadOpNode DEF WorkInv, SadWork, ChangeNext
<1>3. CASE spd_entry_change_cb
  <2>1. ASSUME NEW n \in SpdNames, SpdCreate(n) \/ SpdDelete(n) \/ SpdModify(n)
        PROVE  DatastoreStep
    BY <2>1 DEF SpdCreate, SpdDelete, SpdModify, SpdChange, ChangeNext, Undo, DatastoreStep
  <2>2. CASE SpdPfAdd \/ SpdPfAddForward \/ SpdPfDelForward \/ SpdUnlink
    <3>1. spdOp # NoSpdOp
      BY <2>2 DEF SpdPfAdd, SpdPfAddForward, SpdPfDelForward, SpdUnlink, PfAddPolicy,
                  PfAddForward, PfDelForward, DelSpdNode, NoSpdOp
    <3>2. QED
      BY <1>1, <2>2, <3>1
      DEF SpdPfAdd, SpdPfAddForward, SpdPfDelForward, SpdUnlink, DatastoreStep
  <2>3. QED
    BY <1>3, <2>1, <2>2 DEF spd_entry_change_cb
<1>4. CASE sad_entry_change_cb
  <2>1. ASSUME NEW n \in SadNames, SadCreate(n) \/ SadDelete(n) \/ SadModify(n)
        PROVE  DatastoreStep
    BY <2>1 DEF SadCreate, SadDelete, SadModify, SadChange, ChangeNext, Undo, DatastoreStep
  <2>2. CASE SadPfAdd \/ SadUnlink
    <3>1. sadOp # NoSadOp
      BY <2>2 DEF SadPfAdd, SadUnlink, PfAddSad, DelSadNode, NoSadOp
    <3>2. QED
      BY <1>2, <2>2, <3>1 DEF SadPfAdd, SadUnlink, DatastoreStep
  <2>3. QED
    BY <1>4, <2>1, <2>2 DEF sad_entry_change_cb
<1>5. CASE pf_sadb_esp_register_run
  <2>1. ApplyDelete =>
          SubscribedSad /\ \E n \in SadNames : n = thr.name /\ ThreadDeletes(n)
    BY DEF ApplyDelete, ThreadInv, ThreadTypeOK, SubscribedSad
  <2>2. QED
    BY <1>5, <2>1 DEF pf_sadb_esp_register_run, ApplyNothing, DatastoreStep
<1>6. CASE ProcessEnds
  BY <1>6 DEF ProcessEnds, DatastoreStep
<1>7. CASE Environment
  BY <1>6, <1>7
  DEF Environment, Controller, KernelExpires, OtherProgramAdds,
      KernelTellsOther, GivesUp, Stop, DatastoreStep
<1>8. CASE UNCHANGED vars
  BY <1>8 DEF vars, DatastoreStep
<1>9. QED
  BY <1>3, <1>4, <1>5, <1>6, <1>7, <1>8
  DEF Next, Crash, FinishCommit, Undo, SubscribeSpd, SubscribeSad, sadb_register,
      DatastoreStep

\* Only a commit that begins gives a callback more to do, and the callback
\* is subscribed then.
LEMMA WorkBegins ==
  ASSUME CommitInv, DatastoreStep, NEW l, NEW n, ~ChangeNext(l, n), ChangeNext(l, n)'
  PROVE  /\ Idle
         /\ \/ l = "sad" /\ SubscribedSad
            \/ l = "spd" /\ SubscribedSpd
<1>1. ~UNCHANGED dsVars
  BY DEF dsVars, ChangeNext, Idle
<1>2. ~Idle => \A m : ~Handled(m)
  BY HandledCommit DEF ChangeNext, CommitInv, Idle
<1>3. ~TimesOut
  BY TimedOutCommit DEF ChangeNext, CommitInv, Idle, TimesOut
<1>4. ~Commit /\ ~Abort
  BY DEF Commit, Abort, ChangeNext, Idle
<1>5. ASSUME NEW new \in SadWanted, ControllerEditsSad(new, SubscribedSad)
      PROVE  SubscribedSad /\ l = "sad" /\ Idle
  BY <1>5 DEF ControllerEditsSad, ChangeNext
<1>6. ASSUME NEW new \in SpdWanted, ControllerEditsSpd(new, SubscribedSpd)
      PROVE  SubscribedSpd /\ l = "spd" /\ Idle
  BY <1>6 DEF ControllerEditsSpd, ChangeNext
<1>7. ASSUME NEW m, ThreadDeletes(m)
      PROVE  l = "sad" /\ Idle
  BY <1>7 DEF ThreadDeletes, ChangeNext
<1>8. QED
  BY <1>1, <1>2, <1>3, <1>4, <1>5, <1>6, <1>7, Zenon DEF DatastoreStep

\* The work on an entry goes on while the datastore does nothing about the
\* commit but give it up.
LEMMA WorkGoesOn ==
  ASSUME CommitInv, NEW l, NEW n, ChangeNext(l, n), UNCHANGED dsVars \/ TimesOut
  PROVE  ChangeNext(l, n)' /\ newSad' = newSad /\ newSpd' = newSpd
<1>1. CASE UNCHANGED dsVars
  BY <1>1 DEF dsVars, ChangeNext, Idle
<1>2. CASE TimesOut
  BY <1>2, TimedOutCommit DEF CommitInv, ChangeNext, Idle, TimesOut
<1>3. QED
  BY <1>1, <1>2

\* While a callback is at work on an entry its commit is under way, so no
\* other begins and this one does not end.
LEMMA NoOtherWork ==
  ASSUME NEW l, NEW n, ChangeNext(l, n)
  PROVE  /\ ~Idle /\ ~Commit /\ ~(Late /\ tx.todo = {})
         /\ \A m : ~ThreadDeletes(m)
         /\ \A new, s : ~ControllerEditsSad(new, s) /\ ~ControllerEditsSpd(new, s)
         /\ \A m : ChangeNext("sad", m) => l = "sad"
         /\ \A m : ChangeNext("spd", m) => l = "spd"
BY DEF ChangeNext, Commit, ThreadDeletes, ControllerEditsSad, ControllerEditsSpd

\* Every step of the daemon keeps the SAD callback's work in order.
LEMMA SadWorkKept ==
  ASSUME SadTypeOK, SpdTypeOK, ThreadInv, WorkInv, [Next]_vars
  PROVE  SadWork'
<1>0. CommitInv /\ SadWork /\ SpdWork /\ DatastoreStep
  BY AgentDatastoreStep DEF WorkInv
<1>1. ASSUME SubscribedSad => SubscribedSad', sad' = sad
      PROVE  ~SubscribedSad' => sad' = << >> /\ \A n \in SadNames : ~ChangeNext("sad", n)'
  BY <1>0, <1>1, WorkBegins DEF SadWork
<1>2. ASSUME sad' = sad, sadOp' = sadOp, SubscribedSad => SubscribedSad',
             sadOp # NoSadOp => UNCHANGED dsVars \/ TimesOut
      PROVE  SadWork'
  <2>1. CASE sadOp = NoSadOp
    BY <1>1, <1>2, <2>1 DEF SadWork, NoSadOp
  <2>2. CASE sadOp # NoSadOp
    <3>1. /\ ChangeNext("sad", sadOp.node.name)'
          /\ newSad' = newSad
      BY <1>0, <1>2, <2>2, WorkGoesOn DEF SadWork
    <3>2. QED
      BY <1>0, <1>1, <1>2, <3>1 DEF SadWork
  <2>3. QED
    BY <2>1, <2>2
<1>3. \A n \in SadNames : ChangeNext("sad", n) => SubscribedSad
  BY <1>0 DEF SadWork
<1>4. up' = up => (SubscribedSad' <=> SubscribedSad)
  BY DEF SubscribedSad
<1>5. ASSUME NEW n \in SadNames, SadCreate(n)
      PROVE  SadWork'
  <2>1. ChangeNext("sad", n) /\ UNCHANGED dsVars /\ up' = up
    BY <1>5 DEF SadCreate, SadChange, SadGoesOn, SadRest, mainVars
  <2>2. sadOp' = [op |-> "add", node |-> [name |-> n, cfg |-> newSad[n]]]
    BY <1>5 DEF SadCreate, AddSadNode
  <2>3. ChangeNext("sad", n)' /\ newSad' = newSad
    BY <1>0, <2>1, WorkGoesOn
  <2>4. QED
    BY <1>3, <1>4, <2>1, <2>2, <2>3 DEF SadWork
<1>6. ASSUME NEW n \in SadNames, SadDelete(n)
      PROVE  SadWork'
  <2>1. ChangeNext("sad", n) /\ newSad[n] = ABSENT /\ up' = up
    BY <1>6, EditKinds DEF SadDelete, SadChange, SadRest, mainVars
  <2>2. CASE PfDelSad(n) /\ UNCHANGED dsVars
    <3> DEFINE node == sad[get_sad_node(n)]
    <3>1. sadOp' = [op |-> "del", node |-> node] /\ node.name = n
      BY <2>2, FoundSadNode DEF PfDelSad
    <3>2. ChangeNext("sad", n)' /\ newSad' = newSad
      BY <1>0, <2>1, <2>2, WorkGoesOn
    <3> HIDE DEF node
    <3>3. QED
      BY <1>3, <1>4, <2>1, <3>1, <3>2 DEF SadWork
  <2>3. CASE SadNotFound(n)
    <3>1. sadOp = NoSadOp /\ UNCHANGED <<sad, sadOp>>
      BY <2>3 DEF SadNotFound, sadVars
    <3>2. QED
      BY <1>2, <1>4, <2>1, <3>1
  <2>4. QED
    BY <1>6, <2>2, <2>3 DEF SadDelete
<1>7. CASE SadPfAdd \/ SadUnlink
  <2>1. sadOp # NoSadOp /\ sadOp' = NoSadOp /\ up' = up
    BY <1>7 DEF SadPfAdd, SadUnlink, PfAddSad, DelSadNode, NoSadOp, SadGoesOn, SadRest, mainVars
  <2>2. SubscribedSad
    BY <1>0, <1>3, <2>1, SadOpNode DEF SadWork
  <2>3. QED
    BY <1>4, <2>1, <2>2 DEF SadWork, NoSadOp
<1>8. ASSUME NEW n \in SadNames, SadModify(n)
      PROVE  SadWork'
  BY <1>2, <1>4, <1>8 DEF SadModify, sadVars, SadGoesOn, SadRest, mainVars
<1>9. CASE sad_entry_change_cb
  BY <1>5, <1>6, <1>7, <1>8, <1>9 DEF sad_entry_change_cb
<1>10. CASE spd_entry_change_cb
  <2>1. UNCHANGED sadVars /\ up' = up
    BY <1>10
    DEF spd_entry_change_cb, SpdCreate, SpdDelete, SpdModify, SpdPfAdd,
        SpdPfAddForward, SpdPfDelForward, SpdUnlink, SpdGoesOn, SpdRest, mainVars
  <2>2. \E n : ChangeNext("spd", n)
    <3>1. CASE SpdPfAdd \/ SpdPfAddForward \/ SpdPfDelForward \/ SpdUnlink
      <4>1. spdOp # NoSpdOp
        BY <3>1 DEF SpdPfAdd, SpdPfAddForward, SpdPfDelForward, SpdUnlink, PfAddPolicy,
                    PfAddForward, PfDelForward, DelSpdNode, NoSpdOp
      <4>2. QED
        BY <1>0, <4>1 DEF SpdWork
    <3>2. QED
      BY <1>10, <3>1 DEF spd_entry_change_cb, SpdCreate, SpdDelete, SpdModify, SpdChange
  <2>3. sadOp = NoSadOp
    BY <1>0, <2>2, NoOtherWork DEF SadWork
  <2>4. QED
    BY <1>2, <1>4, <2>1, <2>3 DEF sadVars
<1>11. CASE pf_sadb_esp_register_run
  <2>1. UNCHANGED sadVars /\ up' = up
    BY <1>11 DEF pf_sadb_esp_register_run, mainVars
  <2>2. sadOp # NoSadOp => UNCHANGED dsVars
    BY <1>0, <1>11, NoOtherWork
    DEF SadWork, pf_sadb_esp_register_run, ApplyDelete, ApplyNothing
  <2>3. QED
    BY <1>2, <1>4, <2>1, <2>2 DEF sadVars
<1>12. CASE ProcessEnds
  <2>1. up' = "down" /\ sad' = << >> /\ sadOp' = NoSadOp
    BY <1>12 DEF ProcessEnds, SadLost
  <2>2. \A n : ~ChangeNext("sad", n)'
    <3>1. CASE ~Idle /\ tx.todo # {}
      BY <1>12, <3>1 DEF ProcessEnds, Abort, ChangeNext, Idle
    <3>2. CASE Idle \/ tx.todo = {}
      BY <1>12, <3>2 DEF ProcessEnds, Abort, ChangeNext, Idle, dsVars
    <3>3. QED
      BY <3>1, <3>2
  <2>3. QED
    BY <2>1, <2>2 DEF SadWork, NoSadOp
<1>13. ASSUME NEW k \in SaIds, KernelExpires(k) \/ OtherProgramAdds(k)
       PROVE  SadWork'
  <2>1. UNCHANGED <<sad, sadOp, dsVars, up>>
    BY <1>13 DEF KernelExpires, OtherProgramAdds, SoftExpire, HardExpire, ForeignAdd, mainVars
  <2>2. QED
    BY <1>2, <1>4, <2>1
<1>14. CASE Controller
  <2>1. UNCHANGED sadVars /\ up' = up /\ (sadOp # NoSadOp => FALSE)
    BY <1>0, <1>14, NoOtherWork DEF SadWork, Controller, mainVars
  <2>2. QED
    BY <1>2, <1>4, <2>1 DEF sadVars
<1>15. CASE Environment
  BY <1>2, <1>4, <1>12, <1>13, <1>14, <1>15
  DEF Environment, KernelTellsOther, GivesUp, Stop, sadVars, mainVars
<1>16. CASE FinishCommit
  <2>1. UNCHANGED sadVars /\ up' = up /\ (sadOp # NoSadOp => FALSE)
    BY <1>0, <1>16, NoOtherWork DEF SadWork, FinishCommit, mainVars
  <2>2. QED
    BY <1>2, <1>4, <2>1 DEF sadVars
<1>17. CASE SubscribeSpd \/ SubscribeSad \/ sadb_register \/ UNCHANGED vars
  <2>1. UNCHANGED <<sad, sadOp, dsVars>>
    BY <1>17 DEF SubscribeSpd, SubscribeSad, sadb_register, vars, sadVars
  <2>2. SubscribedSad => SubscribedSad'
    BY <1>17 DEF SubscribeSpd, SubscribeSad, sadb_register, vars, mainVars, SubscribedSad
  <2>3. QED
    BY <1>2, <2>1, <2>2
<1>18. QED
  BY <1>9, <1>10, <1>11, <1>12, <1>15, <1>16, <1>17 DEF Next, Crash

\* Every step of the daemon keeps the SPD callback's work in order.
LEMMA SpdWorkKept ==
  ASSUME SadTypeOK, SpdTypeOK, ThreadInv, WorkInv, [Next]_vars
  PROVE  SpdWork'
<1>0. CommitInv /\ SadWork /\ SpdWork /\ DatastoreStep
  BY AgentDatastoreStep DEF WorkInv
<1>1. ASSUME SubscribedSpd => SubscribedSpd', spd' = spd
      PROVE  ~SubscribedSpd' => spd' = << >> /\ \A n \in SpdNames : ~ChangeNext("spd", n)'
  BY <1>0, <1>1, WorkBegins DEF SpdWork
<1>2. ASSUME spd' = spd, spdOp' = spdOp, SubscribedSpd => SubscribedSpd',
             spdOp # NoSpdOp => UNCHANGED dsVars \/ TimesOut
      PROVE  SpdWork'
  <2>1. CASE spdOp = NoSpdOp
    BY <1>1, <1>2, <2>1 DEF SpdWork, NoSpdOp
  <2>2. CASE spdOp # NoSpdOp
    <3>1. /\ ChangeNext("spd", spdOp.node.name)'
          /\ newSpd' = newSpd
      BY <1>0, <1>2, <2>2, WorkGoesOn DEF SpdWork
    <3>2. QED
      BY <1>0, <1>1, <1>2, <3>1 DEF SpdWork
  <2>3. QED
    BY <2>1, <2>2
<1>3. \A n \in SpdNames : ChangeNext("spd", n) => SubscribedSpd
  BY <1>0 DEF SpdWork
<1>4. up' = up => (SubscribedSpd' <=> SubscribedSpd)
  BY DEF SubscribedSpd
<1>5. ASSUME NEW n \in SpdNames, SpdCreate(n)
      PROVE  SpdWork'
  <2>1. ChangeNext("spd", n) /\ up' = up
    BY <1>5 DEF SpdCreate, SpdChange, SpdGoesOn, SpdRest, mainVars
  <2>2. CASE AddSpdNode(n, newSpd[n]) /\ UNCHANGED dsVars
    <3>1. spdOp' = [op |-> "add", node |-> [name |-> n, cfg |-> newSpd[n]]]
      BY <2>2 DEF AddSpdNode
    <3>2. ChangeNext("spd", n)' /\ newSpd' = newSpd
      BY <1>0, <2>1, <2>2, WorkGoesOn
    <3>3. QED
      BY <1>3, <1>4, <2>1, <3>1, <3>2 DEF SpdWork
  <2>3. CASE SpdExists(n)
    BY <1>3, <1>4, <2>1, <2>3 DEF SpdExists, spdVars, SpdWork, NoSpdOp
  <2>4. QED
    BY <1>5, <2>2, <2>3 DEF SpdCreate
<1>6. ASSUME NEW n \in SpdNames, SpdDelete(n)
      PROVE  SpdWork'
  <2>1. ChangeNext("spd", n) /\ newSpd[n] = ABSENT /\ up' = up
    BY <1>6, EditKinds DEF SpdDelete, SpdChange, SpdRest, mainVars
  <2>2. CASE PfDelPolicy(n) /\ UNCHANGED dsVars
    <3> DEFINE node == spd[get_spd_node(n)]
    <3>1. /\ spdOp'.op \in {"delForward", "del"}
          /\ spdOp'.node = node /\ node.name = n
      BY <2>2, FoundSpdNode DEF PfDelPolicy
    <3>2. ChangeNext("spd", n)' /\ newSpd' = newSpd
      BY <1>0, <2>1, <2>2, WorkGoesOn
    <3> HIDE DEF node
    <3>3. QED
      BY <1>3, <1>4, <2>1, <3>1, <3>2 DEF SpdWork
  <2>3. CASE SpdNotFound(n)
    BY <1>3, <1>4, <2>1, <2>3 DEF SpdNotFound, spdVars, SpdWork, NoSpdOp
  <2>4. QED
    BY <1>6, <2>2, <2>3 DEF SpdDelete
<1>7. ASSUME spdOp # NoSpdOp, up' = up
      PROVE  SubscribedSpd'
  BY <1>0, <1>3, <1>4, <1>7, SpdOpNode DEF SpdWork, SpdNode
<1>8. CASE SpdPfAdd \/ SpdPfAddForward \/ SpdPfDelForward \/ SpdUnlink
  <2>1. spdOp # NoSpdOp /\ up' = up
    BY <1>8
    DEF SpdPfAdd, SpdPfAddForward, SpdPfDelForward, SpdUnlink, PfAddPolicy,
        PfAddForward, PfDelForward, DelSpdNode, NoSpdOp, SpdGoesOn, SpdRest, mainVars
  <2>2. CASE spdOp' = NoSpdOp
    BY <1>7, <2>1, <2>2 DEF SpdWork, NoSpdOp
  <2>3. CASE spdOp' # NoSpdOp
    <3>1. /\ UNCHANGED dsVars
          /\ \/ spdOp.op = "add" /\ spdOp' = [spdOp EXCEPT !.op = "addForward"]
             \/ spdOp.op = "delForward" /\ spdOp' = [spdOp EXCEPT !.op = "del"]
      BY <1>8, <2>3
      DEF SpdPfAdd, SpdPfAddForward, SpdPfDelForward, SpdUnlink, PfAddPolicy,
          PfAddForward, PfDelForward, DelSpdNode
    <3>2. /\ spdOp'.node = spdOp.node
          /\ \/ spdOp.op = "add" /\ spdOp'.op = "addForward"
             \/ spdOp.op = "delForward" /\ spdOp'.op = "del"
      BY <2>1, <3>1, SpdOpNode
    <3>3. ChangeNext("spd", spdOp.node.name)' /\ newSpd' = newSpd
      <4> DEFINE n == spdOp.node.name
      <4>1. ChangeNext("spd", n)
        BY <1>0, <2>1 DEF SpdWork
      <4> HIDE DEF n
      <4>2. tx' = tx /\ newSpd' = newSpd
        BY <3>1 DEF dsVars
      <4>3. tx' # NoTx /\ tx'.list = "spd" /\ n \in tx'.todo
        BY <4>1, <4>2 DEF ChangeNext, Idle
      <4>4. spdOp'.node.name = n
        BY <3>2 DEF n
      <4>5. ChangeNext("spd", spdOp.node.name)'
        BY <4>3, <4>4 DEF ChangeNext, Idle
      <4>6. QED
        BY <4>2, <4>5
    <3>4. QED
      BY <1>0, <1>7, <2>1, <3>2, <3>3 DEF SpdWork
  <2>4. QED
    BY <2>2, <2>3
<1>9. ASSUME NEW n \in SpdNames, SpdModify(n)
      PROVE  SpdWork'
  BY <1>2, <1>4, <1>9 DEF SpdModify, spdVars, SpdGoesOn, SpdRest, mainVars
<1>10. CASE spd_entry_change_cb
  BY <1>5, <1>6, <1>8, <1>9, <1>10 DEF spd_entry_change_cb
<1>11. CASE sad_entry_change_cb
  <2>1. UNCHANGED spdVars /\ up' = up
    BY <1>11
    DEF sad_entry_change_cb, SadCreate, SadDelete, SadModify, SadPfAdd, SadUnlink,
        SadGoesOn, SadRest, mainVars
  <2>2. \E n : ChangeNext("sad", n)
    <3>1. CASE SadPfAdd \/ SadUnlink
      <4>1. sadOp # NoSadOp
        BY <3>1 DEF SadPfAdd, SadUnlink, PfAddSad, DelSadNode, NoSadOp
      <4>2. QED
        BY <1>0, <4>1 DEF SadWork
    <3>2. QED
      BY <1>11, <3>1 DEF sad_entry_change_cb, SadCreate, SadDelete, SadModify, SadChange
  <2>3. spdOp = NoSpdOp
    BY <1>0, <2>2, NoOtherWork DEF SpdWork
  <2>4. QED
    BY <1>2, <1>4, <2>1, <2>3 DEF spdVars
<1>12. CASE pf_sadb_esp_register_run
  <2>1. UNCHANGED spdVars /\ up' = up
    BY <1>12 DEF pf_sadb_esp_register_run, mainVars
  <2>2. spdOp # NoSpdOp => UNCHANGED dsVars
    BY <1>0, <1>12, NoOtherWork
    DEF SpdWork, pf_sadb_esp_register_run, ApplyDelete, ApplyNothing
  <2>3. QED
    BY <1>2, <1>4, <2>1, <2>2 DEF spdVars
<1>13. CASE ProcessEnds
  <2>1. up' = "down" /\ spd' = << >> /\ spdOp' = NoSpdOp
    BY <1>13 DEF ProcessEnds, SpdLost
  <2>2. \A n : ~ChangeNext("spd", n)'
    <3>1. CASE ~Idle /\ tx.todo # {}
      BY <1>13, <3>1 DEF ProcessEnds, Abort, ChangeNext, Idle
    <3>2. CASE Idle \/ tx.todo = {}
      BY <1>13, <3>2 DEF ProcessEnds, Abort, ChangeNext, Idle, dsVars
    <3>3. QED
      BY <3>1, <3>2
  <2>3. QED
    BY <2>1, <2>2 DEF SpdWork, NoSpdOp
<1>14. CASE Controller \/ FinishCommit
  <2>1. UNCHANGED spdVars /\ up' = up /\ (spdOp # NoSpdOp => FALSE)
    BY <1>0, <1>14, NoOtherWork DEF SpdWork, Controller, FinishCommit, mainVars
  <2>2. QED
    BY <1>2, <1>4, <2>1 DEF spdVars
<1>15. CASE Environment
  BY <1>2, <1>4, <1>13, <1>14, <1>15
  DEF Environment, KernelTellsOther, KernelExpires, OtherProgramAdds, GivesUp, Stop,
      spdVars, mainVars
<1>16. CASE SubscribeSpd \/ SubscribeSad \/ sadb_register \/ UNCHANGED vars
  <2>1. UNCHANGED <<spd, spdOp, dsVars>>
    BY <1>16 DEF SubscribeSpd, SubscribeSad, sadb_register, vars, spdVars
  <2>2. SubscribedSpd => SubscribedSpd'
    BY <1>16 DEF SubscribeSpd, SubscribeSad, sadb_register, vars, mainVars, SubscribedSpd
  <2>3. QED
    BY <1>2, <2>1, <2>2
<1>17. QED
  BY <1>10, <1>11, <1>12, <1>13, <1>14, <1>15, <1>16 DEF Next, Crash

-----------------------------------------------------------------------------
(***************************************************************************)
(* The lists and the commit keep step: an operation on a list is always    *)
(* the work of its callback on an entry of the commit under way, of which  *)
(* there is one; what is to be done of a commit is a change of one list;   *)
(* and nothing is handed to a callback that is not subscribed, through     *)
(* timeouts, failures and restarts.                                        *)
(***************************************************************************)
LEMMA WorkCorrect == Spec => [](SadTypeOK /\ SpdTypeOK /\ ThreadInv /\ WorkInv)
<1>1. Init => ThreadInv /\ WorkInv
  <2> SUFFICES ASSUME Init
               PROVE  ThreadInv /\ WorkInv
    OBVIOUS
  <2>1. ThreadInv
    <3>1. evq = << >> /\ thr = Off /\ notif = NoNotif
      BY DEF Init, ThreadInit
    <3>2. Off \in Threads /\ Off.pc = "off"
      BY DEF Off, Threads
    <3>3. Len(evq) <= QueueMax
      BY <3>1, QueueAssumption
    <3>4. QED
      BY <3>1, <3>2, <3>3 DEF ThreadInv, ThreadTypeOK, Threads, Notifs
  <2>2. CommitInv
    BY BoundsAssumption
    DEF Init, DsInit, CommitInv, DsTypeOK, Txs, SadConfigs, SpdConfigs, Idle, OneEditEach
  <2>3. SadWork /\ SpdWork
    BY DEF Init, SadInit, SpdInit, DsInit, SadWork, SpdWork, NoSadOp, NoSpdOp, ChangeNext, Idle
  <2>4. QED
    BY <2>1, <2>2, <2>3 DEF WorkInv
<1>2. SadTypeOK /\ SpdTypeOK /\ ThreadInv /\ WorkInv /\ [Next]_vars => ThreadInv' /\ WorkInv'
  <2> SUFFICES ASSUME SadTypeOK, SpdTypeOK, ThreadInv, WorkInv, [Next]_vars
               PROVE  ThreadInv' /\ WorkInv'
    OBVIOUS
  <2>1. CommitInv'
    BY AgentDatastoreStep, CommitInvKept DEF WorkInv
  <2>2. QED
    BY <2>1, ThreadInvKept, SadWorkKept, SpdWorkKept DEF WorkInv
<1>3. Spec => []SadTypeOK /\ []SpdTypeOK
  BY AgentImplementsSad, AgentImplementsSpd, SadTypeCorrect, SpdTypeCorrect, PTL
<1>4. QED
  BY <1>1, <1>2, <1>3, PTL DEF Spec

(***************************************************************************)
(* The daemon keeps its types: the register thread acts on EXPIRE messages *)
(* only and deletes by the name of an entry, no queue outgrows its bound,  *)
(* and the callbacks leave a commit what a commit is.                      *)
(***************************************************************************)
THEOREM AgentTypeCorrect == Spec => []TypeOK
<1> DEFINE Main == /\ up \in {"down", "spd", "sad", "reg", "up"}
                   /\ starts \in 0..MaxStarts
                   /\ astraySpd \subseteq SpdNames
                   /\ astraySad \subseteq SadNames
<1>1. Init => Main
  BY StartsAssumption DEF Init
<1>2. DsTypeOK /\ Main /\ [Next]_vars => Main'
  <2> SUFFICES ASSUME DsTypeOK, Main, [Next]_vars
               PROVE  Main'
    OBVIOUS
  <2>0. /\ DOMAIN runSad = SadNames /\ DOMAIN runSpd = SpdNames
        /\ MaxStarts \in Nat
    BY StartsAssumption DEF DsTypeOK, SadConfigs, SpdConfigs
  <2>1. CASE UNCHANGED <<mainVars, astrayVars>>
    BY <2>1 DEF mainVars, astrayVars
  <2>2. CASE Undo /\ UNCHANGED mainVars
    <3>1. Applied(runSad, newSad) \subseteq SadNames /\ Applied(runSpd, newSpd) \subseteq SpdNames
      BY <2>0 DEF Applied, Changed
    <3>2. QED
      BY <2>2, <3>1 DEF Undo, mainVars
  <2>3. CASE SubscribeSpd \/ SubscribeSad
    BY <2>0, <2>3 DEF SubscribeSpd, SubscribeSad, Present
  <2>4. CASE sadb_register \/ ProcessEnds
    BY <2>4 DEF sadb_register, ProcessEnds, astrayVars
  <2>5. CASE spd_entry_change_cb
    BY <2>1, <2>2, <2>5
    DEF spd_entry_change_cb, SpdCreate, SpdDelete, SpdModify, SpdPfAdd,
        SpdPfAddForward, SpdPfDelForward, SpdUnlink, SpdGoesOn, SpdRest, astrayVars
  <2>6. CASE sad_entry_change_cb
    BY <2>1, <2>2, <2>6
    DEF sad_entry_change_cb, SadCreate, SadDelete, SadModify, SadPfAdd, SadUnlink,
        SadGoesOn, SadRest, astrayVars
  <2>7. CASE Environment
    BY <2>1, <2>4, <2>7
    DEF Environment, Controller, KernelExpires, OtherProgramAdds, KernelTellsOther,
        GivesUp, Stop
  <2>8. CASE FinishCommit \/ pf_sadb_esp_register_run \/ UNCHANGED vars
    BY <2>1, <2>2, <2>8 DEF FinishCommit, pf_sadb_esp_register_run, vars
  <2>9. QED
    BY <2>3, <2>4, <2>5, <2>6, <2>7, <2>8 DEF Next, Crash
<1>3. SadTypeOK /\ SpdTypeOK /\ ThreadInv /\ WorkInv => DsTypeOK /\ (Main => TypeOK)
  BY DEF ThreadInv, WorkInv, CommitInv, TypeOK
<1> HIDE DEF Main
<1>4. QED
  BY <1>1, <1>2, <1>3, WorkCorrect, PTL DEF Spec

=============================================================================
