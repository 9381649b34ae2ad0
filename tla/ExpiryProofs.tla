---------------------------- MODULE ExpiryProofs ----------------------------
(***************************************************************************)
(* What becomes of an SA that expires: the messages about it, from the     *)
(* kernel to the register thread, and its node and its entry.  First for   *)
(* a controller that leaves expired entries to the agent, then for one     *)
(* that deletes and replaces them itself.                                  *)
(***************************************************************************)
EXTENDS TracksProofs, Orphans

-----------------------------------------------------------------------------
(* The messages waiting at a socket *)

Messages(msgs) == {msgs[j] : j \in 1..Len(msgs)}

\* The SAs they are about, and those they say have hard-expired.
IdsAbout(msgs) == {m.id : m \in Messages(msgs) \ {Other}}

HardIds(msgs) == {m.id : m \in {e \in Messages(msgs) : e.kind = "hard"}}

\* After the hard EXPIRE of one of the SAs given nothing follows about it.
HardIsLast(msgs, ids) ==
  \A i, j \in 1..Len(msgs) :
    i < j /\ msgs[i].kind = "hard" /\ msgs[j] # Other /\ msgs[i].id \in ids
      => msgs[i].id # msgs[j].id

\* What one message is about.
AboutId(ev) == IF ev = Other THEN {} ELSE {ev.id}

HardId(ev) == IF ev.kind = "hard" THEN {ev.id} ELSE {}

\* An EXPIRE message is not one that the thread drops.
LEMMA MessageKinds ==
  ASSUME NEW ev \in Expires \cup {Other}
  PROVE  /\ ev = Other <=> ev.kind = "other"
         /\ ev = Other <=> ev \notin Expires
         /\ ev # Other => ev.kind \in {"soft", "hard"} /\ ev.id \in SaIds
         /\ HardId(ev) \subseteq AboutId(ev)
BY DEF Expires, Other, HardId, AboutId

\* No message waits at an empty queue.
LEMMA NoMessages ==
  /\ Messages(<< >>) = {} /\ IdsAbout(<< >>) = {} /\ HardIds(<< >>) = {}
  /\ \A ids : HardIsLast(<< >>, ids)
BY DEF Messages, IdsAbout, HardIds, HardIsLast

\* A message queued comes after those that wait.
LEMMA QueuedMessage ==
  ASSUME NEW msgs \in Seq(Expires \cup {Other}), NEW ev \in Expires \cup {Other}
  PROVE  /\ IdsAbout(Append(msgs, ev)) = IdsAbout(msgs) \cup AboutId(ev)
         /\ HardIds(Append(msgs, ev)) = HardIds(msgs) \cup HardId(ev)
         /\ \A ids :
              HardIsLast(msgs, ids) /\ AboutId(ev) \cap HardIds(msgs) \cap ids = {}
                => HardIsLast(Append(msgs, ev), ids)
<1> DEFINE app == Append(msgs, ev)
<1>1. /\ Len(msgs) \in Nat /\ Len(app) = Len(msgs) + 1
      /\ \A j \in 1..Len(msgs) : app[j] = msgs[j]
      /\ app[Len(msgs) + 1] = ev
  BY AppendProperties, LenProperties
<1> HIDE DEF app
<1>2. \A j : j \in 1..Len(app) <=> j \in 1..Len(msgs) \/ j = Len(msgs) + 1
  BY <1>1
<1>3. Messages(app) = Messages(msgs) \cup {ev}
  BY <1>1, <1>2 DEF Messages
<1>4. IdsAbout(app) = IdsAbout(msgs) \cup AboutId(ev)
  BY <1>3 DEF IdsAbout, AboutId
<1>5. HardIds(app) = HardIds(msgs) \cup HardId(ev)
  BY <1>3 DEF HardIds, HardId
<1>6. ASSUME NEW ids, HardIsLast(msgs, ids), AboutId(ev) \cap HardIds(msgs) \cap ids = {},
             NEW i \in 1..Len(app), NEW j \in 1..Len(app),
             i < j, app[i].kind = "hard", app[j] # Other, app[i].id \in ids
      PROVE  app[i].id # app[j].id
  <2>1. i \in 1..Len(msgs) /\ app[i] = msgs[i]
    BY <1>1, <1>2, <1>6
  <2>2. CASE j \in 1..Len(msgs)
    BY <1>1, <1>6, <2>1, <2>2 DEF HardIsLast
  <2>3. CASE j = Len(msgs) + 1
    <3>1. msgs[i].id \in HardIds(msgs)
      BY <1>6, <2>1 DEF HardIds, Messages
    <3>2. app[j].id \in AboutId(ev)
      BY <1>1, <1>6, <2>3 DEF AboutId
    <3>3. QED
      BY <1>6, <2>1, <3>1, <3>2
  <2>4. QED
    BY <1>2, <2>2, <2>3
<1>7. \A ids : HardIsLast(msgs, ids) /\ AboutId(ev) \cap HardIds(msgs) \cap ids = {}
                => HardIsLast(app, ids)
  BY <1>6 DEF HardIsLast
<1>8. QED
  BY <1>4, <1>5, <1>7 DEF app

\* The message read is the first, and what follows the hard EXPIRE of an SA
\* is not about it.
LEMMA ReadMessage ==
  ASSUME NEW msgs \in Seq(Expires \cup {Other}), msgs # << >>
  PROVE  /\ Head(msgs) \in Expires \cup {Other} /\ Head(msgs) = msgs[1]
         /\ IdsAbout(msgs) = AboutId(Head(msgs)) \cup IdsAbout(Tail(msgs))
         /\ HardIds(msgs) = HardId(Head(msgs)) \cup HardIds(Tail(msgs))
         /\ \A ids : HardIsLast(msgs, ids) =>
              /\ HardIsLast(Tail(msgs), ids)
              /\ HardId(Head(msgs)) \cap IdsAbout(Tail(msgs)) \cap ids = {}
<1> DEFINE rest == Tail(msgs)
           ev == Head(msgs)
<1>1. /\ Len(msgs) \in Nat \ {0} /\ Len(rest) = Len(msgs) - 1
      /\ \A j \in 1..Len(rest) : rest[j] = msgs[j + 1]
      /\ ev = msgs[1] /\ ev \in Expires \cup {Other}
  BY HeadTailProperties, LenProperties, EmptySeq
<1> HIDE DEF rest, ev
<1>2. \A j \in 1..Len(rest) : j + 1 \in 1..Len(msgs) /\ 1 < j + 1
  BY <1>1
<1>3. \A j \in 1..Len(msgs) : j = 1 \/ (j - 1 \in 1..Len(rest) /\ (j - 1) + 1 = j)
  BY <1>1
<1>4. Messages(msgs) = {ev} \cup Messages(rest)
  <2>1. ASSUME NEW m \in Messages(msgs)
        PROVE  m \in {ev} \cup Messages(rest)
    <3>1. PICK j \in 1..Len(msgs) : m = msgs[j]
      BY <2>1 DEF Messages
    <3>2. CASE j = 1
      BY <1>1, <3>1, <3>2
    <3>3. CASE j # 1
      <4>1. m = rest[j - 1] /\ j - 1 \in 1..Len(rest)
        BY <1>1, <1>3, <3>1, <3>3
      <4>2. QED
        BY <4>1 DEF Messages
    <3>4. QED
      BY <3>2, <3>3
  <2>2. ev \in Messages(msgs)
    BY <1>1 DEF Messages
  <2>3. Messages(rest) \subseteq Messages(msgs)
    BY <1>1, <1>2 DEF Messages
  <2>4. QED
    BY <2>1, <2>2, <2>3
<1>5. IdsAbout(msgs) = AboutId(ev) \cup IdsAbout(rest)
  BY <1>4 DEF IdsAbout, AboutId
<1>6. HardIds(msgs) = HardId(ev) \cup HardIds(rest)
  BY <1>4 DEF HardIds, HardId
<1>7. ASSUME NEW ids, HardIsLast(msgs, ids)
      PROVE  HardIsLast(rest, ids) /\ HardId(ev) \cap IdsAbout(rest) \cap ids = {}
  <2>1. ASSUME NEW i \in 1..Len(rest), NEW j \in 1..Len(rest),
               i < j, rest[i].kind = "hard", rest[j] # Other, rest[i].id \in ids
        PROVE  rest[i].id # rest[j].id
    <3>1. i + 1 < j + 1
      BY <1>1, <2>1
    <3>2. QED
      BY <1>1, <1>2, <1>7, <2>1, <3>1 DEF HardIsLast
  <2>2. ASSUME ev.kind = "hard", ev.id \in ids, NEW j \in 1..Len(rest), rest[j] # Other
        PROVE  ev.id # rest[j].id
    BY <1>1, <1>2, <1>7, <2>2 DEF HardIsLast
  <2>3. HardIsLast(rest, ids)
    BY <2>1 DEF HardIsLast
  <2>4. HardId(ev) \cap IdsAbout(rest) \cap ids = {}
    BY <2>2 DEF HardId, IdsAbout, Messages
  <2>5. QED
    BY <2>3, <2>4
<1>8. QED
  BY <1>1, <1>5, <1>6, <1>7 DEF rest, ev

-----------------------------------------------------------------------------
(* Finding the node of an SA by its SPI alone *)

\* The SAs the kernel may have.
KnownIds ==
  {k \in SaIds :
     k \in ForeignIds \/ \E n \in SadNames : \E c \in SadCfgsOf[n] : AddId(c) = k}

\* No two of them have the same SPI: an SPI is unique for its destination
\* only, but the agent looks a node up by nothing else.
SpisTell == \A k, l \in KnownIds : k[2] = l[2] => k = l

\* SPIs that fit in the int which holds them.
SmallSpis == \A s \in Spis : s < SpiHalf

\* A node has an SA the kernel may have.
LEMMA NodesKnown ==
  ASSUME SadTypeOK, SadGiven
  PROVE  /\ \A i \in 1..Len(sad) : /\ AddId(sad[i].cfg) \in KnownIds
                                   /\ AddId(sad[i].cfg)[2] = sad[i].cfg.spi
         /\ sadOp # NoSadOp => AddId(sadOp.node.cfg) \in KnownIds
<1>1. ASSUME NEW n \in SadNames, NEW c \in SadCfgsOf[n]
      PROVE  AddId(c) \in KnownIds /\ AddId(c)[2] = c.spi
  <2>1. c \in SadCfg
    BY NamesAssumption
  <2>2. AddId(c) \in SaIds
    BY <2>1, AddIdType
  <2>3. QED
    BY <2>2 DEF KnownIds, AddId
<1>2. QED
  BY <1>1 DEF SadGiven

\* The messages are about SAs the kernel may have.
EventsKnown ==
  /\ ksad \subseteq KnownIds
  /\ IdsAbout(evq) \subseteq KnownIds
  /\ thr.pc = "notify" => thr.ev.id \in KnownIds

\* A message that is queued, or dropped, adds no other.
LEMMA DeliveredMessage ==
  ASSUME ThreadTypeOK, NEW ev \in Expires \cup {Other}, Deliver(ev)
  PROVE  IdsAbout(evq)' \subseteq IdsAbout(evq) \cup AboutId(ev)
<1>1. evq \in Seq(Expires \cup {Other})
  BY DEF ThreadTypeOK
<1>2. evq' = Append(evq, ev) \/ evq' = evq
  BY DEF Deliver
<1>3. IdsAbout(evq') \subseteq IdsAbout(evq) \cup AboutId(ev)
  BY <1>1, <1>2, QueuedMessage
<1>4. IdsAbout(evq') = IdsAbout(evq)'
  BY DEF IdsAbout, Messages
<1>5. QED
  BY <1>3, <1>4

\* After asking for a deletion the thread is at another step of it or at its
\* loop.
LEMMA AfterRequest ==
  ASSUME thr \in Threads, SendDeleteRequest \/ ApplyDelete \/ ApplyNothing \/ ApplyReturns
  PROVE  thr'.pc \in {"apply", "commit", "read"}
<1>1. thr = [pc |-> thr.pc, rc |-> thr.rc, ev |-> thr.ev, name |-> thr.name]
  BY DEF Threads
<1>2. CASE SendDeleteRequest
  <2>1. CASE thr' = [thr EXCEPT !.pc = "apply", !.name = sad[Expired(thr.ev)].name]
    BY <1>1, <2>1
  <2>2. CASE thr' = Reading(thr.rc)
    BY <2>2 DEF Reading
  <2>3. QED
    BY <1>2, <2>1, <2>2 DEF SendDeleteRequest
<1>3. CASE ApplyDelete
  BY <1>1, <1>3 DEF ApplyDelete
<1>4. CASE ApplyNothing \/ ApplyReturns
  BY <1>4 DEF ApplyNothing, ApplyReturns, Reading
<1>5. QED
  BY <1>2, <1>3, <1>4

\* Nothing but the kernel's SAs gets into the messages.
LEMMA EventsKnownKept ==
  ASSUME SadTypeOK, SadGiven, ThreadInv, EventsKnown, [Next]_vars
  PROVE  EventsKnown'
<1> DEFINE Ids == IdsAbout(evq)
<1>0. /\ ThreadTypeOK /\ evq \in Seq(Expires \cup {Other})
      /\ thr \in Threads
      /\ ForeignIds \subseteq KnownIds
      /\ Ids' = IdsAbout(evq')
  BY ForeignAssumption
  DEF ThreadInv, ThreadTypeOK, Threads, KnownIds, IdsAbout, Messages
<1>1. ksad' \subseteq KnownIds
  <2>1. CASE SadPfAdd
    <3>1. AddId(sadOp.node.cfg) \in KnownIds
      BY <2>1, NodesKnown DEF SadPfAdd, PfAddSad, NoSadOp
    <3>2. QED
      BY <2>1, <3>1 DEF SadPfAdd, PfAddSad, EventsKnown
  <2>2. CASE \E k \in SaIds : KernelExpires(k) \/ OtherProgramAdds(k)
    BY <1>0, <2>2
    DEF KernelExpires, OtherProgramAdds, SoftExpire, HardExpire, ForeignAdd, KernelForgets,
        EventsKnown
  <2>3. CASE ProcessEnds
    BY <2>3 DEF ProcessEnds, SadLost, EventsKnown
  <2>4. CASE sad_entry_change_cb /\ ~SadPfAdd
    BY <2>4
    DEF sad_entry_change_cb, SadCreate, SadDelete, SadModify, SadUnlink, AddSadNode,
        PfDelSad, SadNotFound, DelSadNode, KernelForgets, sadVars, EventsKnown
  <2>5. CASE UNCHANGED ksad
    BY <2>5 DEF EventsKnown
  <2>6. QED
    BY <2>1, <2>2, <2>3, <2>4, <2>5
    DEF Next, SubscribeSpd, SubscribeSad, sadb_register, Crash, spd_entry_change_cb,
        SpdCreate, SpdDelete, SpdModify, SpdPfAdd, SpdPfAddForward, SpdPfDelForward,
        SpdUnlink, SpdGoesOn, SpdRest, pf_sadb_esp_register_run, FinishCommit, Environment,
        Controller, KernelTellsOther, GivesUp, Stop, vars, sadVars
<1>2. Ids' \subseteq KnownIds /\ (thr'.pc = "notify" => thr'.ev.id \in KnownIds)
  <2>1. CASE UNCHANGED <<evq, thr>>
    BY <2>1 DEF EventsKnown, IdsAbout, Messages
  <2>2. CASE ReadExpire
    <3>1. /\ thr' = [pc |-> "notify", rc |-> thr.rc, ev |-> Head(evq), name |-> thr.name]
          /\ evq' = Tail(evq) /\ evq # << >>
      BY <1>0, <2>2 DEF ReadExpire, Threads
    <3>2. Ids = AboutId(Head(evq)) \cup Ids'
      BY <1>0, <3>1, ReadMessage
    <3>3. Head(evq) # Other
      BY <2>2 DEF ReadExpire, Other
    <3>4. QED
      BY <3>1, <3>2, <3>3 DEF EventsKnown, AboutId
  <2>3. CASE ReadNotRemove \/ ReadOther \/ (sadb_register /\ ReadReply)
    <3>1. evq' = Tail(evq) /\ evq # << >>
      BY <2>3 DEF ReadNotRemove, ReadOther, ReadReply
    <3>2. Ids = AboutId(Head(evq)) \cup Ids'
      BY <1>0, <3>1, ReadMessage
    <3>3. thr'.pc # "notify"
      BY <2>3 DEF ReadNotRemove, ReadOther, ReadReply, Reading
    <3>4. QED
      BY <3>2, <3>3 DEF EventsKnown
  <2>4. CASE SendExpireNotification \/ NotifyFails \/ ExpireNotFound
    <3>1. thr.pc = "notify" /\ \E rc \in {"ok", "failed"} : AfterNotify(rc)
      BY <2>4 DEF SendExpireNotification, NotifyFails, ExpireNotFound
    <3>2. thr'.pc # "notify"
      BY <1>0, <3>1, AfterNotifyType
    <3>3. UNCHANGED evq
      BY <2>4 DEF SendExpireNotification, NotifyFails, ExpireNotFound
    <3>4. QED
      BY <3>2, <3>3 DEF EventsKnown, IdsAbout, Messages
  <2>5. CASE SendDeleteRequest \/ ApplyDelete \/ ApplyNothing \/ ApplyReturns
    <3>1. thr'.pc # "notify"
      BY <1>0, <2>5, AfterRequest
    <3>2. UNCHANGED evq
      BY <2>5 DEF SendDeleteRequest, ApplyDelete, ApplyNothing, ApplyReturns
    <3>3. QED
      BY <3>1, <3>2 DEF EventsKnown, IdsAbout, Messages
  <2>6. CASE sadb_register /\ SendRegister
    <3>1. evq' = <<Other>> \/ evq' = <<Other, Other>>
      BY <2>6 DEF SendRegister
    <3>2. Messages(evq') \subseteq {Other}
      BY <3>1 DEF Messages
    <3>3. Ids' = {} /\ thr'.pc # "notify"
      BY <1>0, <2>6, <3>2 DEF IdsAbout, SendRegister, Off
    <3>4. QED
      BY <3>3
  <2>7. ASSUME NEW k \in SaIds, KernelExpires(k)
        PROVE  Ids' \subseteq KnownIds /\ UNCHANGED thr
    <3>1. k \in KnownIds
      BY <2>7 DEF KernelExpires, SoftExpire, HardExpire, EventsKnown
    <3>2. PICK s \in {"soft", "hard"} : Tell([kind |-> s, id |-> k])
      BY <2>7 DEF KernelExpires
    <3>3. [kind |-> s, id |-> k] \in Expires
      BY DEF Expires
    <3>4. AboutId([kind |-> s, id |-> k]) \subseteq {k}
      BY DEF AboutId
    <3>5. Ids' \subseteq Ids \cup {k}
      <4>1. CASE Deliver([kind |-> s, id |-> k])
        BY <1>0, <3>3, <3>4, <4>1, DeliveredMessage
      <4>2. CASE UNCHANGED evq
        BY <4>2 DEF IdsAbout, Messages
      <4>3. QED
        BY <3>2, <4>1, <4>2 DEF Tell
    <3>6. QED
      BY <3>1, <3>2, <3>5 DEF EventsKnown, Tell
  <2>8. CASE KernelTellsOther
    <3>1. Ids' \subseteq Ids \cup AboutId(Other)
      BY <1>0, <2>8, DeliveredMessage DEF KernelTellsOther
    <3>2. QED
      BY <2>8, <3>1 DEF AboutId, KernelTellsOther, EventsKnown
  <2>9. CASE ProcessEnds
    <3>1. evq' = << >> /\ thr' = Off
      BY <2>9 DEF ProcessEnds, ThreadLost
    <3>2. QED
      BY <1>0, <3>1, NoMessages DEF Off
  <2>10. CASE pf_sadb_esp_register_run
    <3>1. \/ ReadExpire
          \/ ReadNotRemove \/ ReadOther
          \/ SendExpireNotification \/ NotifyFails \/ ExpireNotFound
          \/ SendDeleteRequest \/ ApplyDelete \/ ApplyNothing \/ ApplyReturns
      BY <2>10 DEF pf_sadb_esp_register_run
    <3>2. QED
      BY <2>2, <2>3, <2>4, <2>5, <3>1
  <2>11. CASE sadb_register
    BY <2>3, <2>6, <2>11 DEF sadb_register
  <2>12. CASE Environment
    BY <2>1, <2>7, <2>8, <2>9, <2>12
    DEF Environment, Controller, OtherProgramAdds, GivesUp, Stop, threadVars, EventsKnown
  <2>13. CASE sad_entry_change_cb \/ spd_entry_change_cb
    BY <2>1, <2>13
    DEF sad_entry_change_cb, SadCreate, SadDelete, SadModify, SadPfAdd, SadUnlink,
        SadGoesOn, SadRest, spd_entry_change_cb, SpdCreate, SpdDelete, SpdModify, SpdPfAdd,
        SpdPfAddForward, SpdPfDelForward, SpdUnlink, SpdGoesOn, SpdRest, threadVars
  <2>14. QED
    BY <2>1, <2>9, <2>10, <2>11, <2>12, <2>13
    DEF Next, SubscribeSpd, SubscribeSad, Crash, FinishCommit, threadVars, vars
<1>3. QED
  BY <1>1, <1>2 DEF EventsKnown

\* The messages are about SAs the kernel may have, in every run.
LEMMA EventsKnownCorrect ==
  Spec => [](SadTypeOK /\ SadGiven /\ ThreadInv /\ EventsKnown)
<1>1. Init => EventsKnown
  BY NoMessages DEF Init, SadInit, ThreadInit, EventsKnown, Off
<1>2. SadTypeOK /\ SadGiven /\ ThreadInv /\ EventsKnown /\ [Next]_vars => EventsKnown'
  BY EventsKnownKept
<1>3. Spec => []SadGiven
  BY AgentImplementsSad, SadGivenCorrect, PTL
<1>4. QED
  BY <1>1, <1>2, <1>3, WorkCorrect, PTL DEF Spec

(***************************************************************************)
(* A sadb-expire notification names the SAD entry of the SA that expires,  *)
(* whatever fails, is lost or restarts, as long as an SPI tells the SAs    *)
(* apart: the kernel's identity of an SA is its destination and SPI, and   *)
(* the agent looks its node up by the SPI only.                            *)
(***************************************************************************)
THEOREM NotifiesTheExpiredCorrect ==
  ASSUME SpisTell
  PROVE  Spec => NotifiesTheExpired
<1> DEFINE Right ==
      notif' # notif /\ notif' # NoNotif
        => \E i \in 1..Len(sad) : /\ sad[i].name = notif'.name
                                  /\ AddId(sad[i].cfg) = thr.ev.id
<1>1. SadTypeOK /\ SadGiven /\ ThreadInv /\ EventsKnown /\ [Next]_vars => [Right]_vars
  <2> SUFFICES ASSUME SadTypeOK, SadGiven, ThreadInv, EventsKnown, [Next]_vars,
                      notif' # notif, notif' # NoNotif
               PROVE  \E i \in 1..Len(sad) : /\ sad[i].name = notif'.name
                                             /\ AddId(sad[i].cfg) = thr.ev.id
    OBVIOUS
  <2>1. SendExpireNotification
    BY DEF Next, SubscribeSpd, SubscribeSad, sadb_register, SendRegister, ReadReply, Crash,
           ProcessEnds, ThreadLost, sad_entry_change_cb, SadCreate, SadDelete, SadModify,
           SadPfAdd, SadUnlink, SadGoesOn, SadRest, spd_entry_change_cb, SpdCreate,
           SpdDelete, SpdModify, SpdPfAdd, SpdPfAddForward, SpdPfDelForward, SpdUnlink,
           SpdGoesOn, SpdRest, pf_sadb_esp_register_run, ReadExpire, ReadNotRemove,
           ReadOther, NotifyFails, ExpireNotFound, SendDeleteRequest, ApplyReturns,
           ApplyDelete, ApplyNothing, FinishCommit, Environment, Controller, KernelExpires,
           Tell, OtherProgramAdds, KernelTellsOther, GivesUp, Stop, threadVars, vars
  <2> DEFINE s == thr.ev.id[2]
  <2>2. thr.ev.id \in KnownIds /\ s \in Spis
    BY <2>1 DEF SendExpireNotification, EventsKnown, KnownIds, SaIds
  <2>3. PICK f \in 1..Len(sad) : /\ f = Expired(thr.ev)
                                 /\ sad[f].cfg.spi = EventSpi(s)
    BY <2>1, GetNodeBySpiFinds
    DEF SendExpireNotification, Expired, get_sad_node_by_spi, SadTypeOK
  <2>4. /\ AddId(sad[f].cfg) \in KnownIds
        /\ AddId(sad[f].cfg)[2] = EventSpi(s)
    BY <2>3, NodesKnown
  <2>5. EventSpi(s) = s
    <3>1. EventSpi(s) \in Spis
      BY <2>4 DEF KnownIds, SaIds
    <3>2. SpiHalf \in Int /\ \A t \in Spis : t \in Int
      BY WidthAssumption
    <3>3. QED
      BY <2>2, <3>1, <3>2, SpiWidth
  <2>6. AddId(sad[f].cfg) = thr.ev.id
    BY <2>2, <2>4, <2>5 DEF SpisTell
  <2>7. sad[f].name = notif'.name
    BY <2>1, <2>3 DEF SendExpireNotification
  <2>8. QED
    BY <2>6, <2>7
<1>2. QED
  BY <1>1, EventsKnownCorrect, PTL DEF Spec, NotifiesTheExpired

(***************************************************************************)
(* The thread finds the node of an SA that expires if there is one, once   *)
(* SPIs fit in the int that holds them on the way from the message to      *)
(* get_sad_node_by_spi: that is all that stands against it.                *)
(***************************************************************************)
THEOREM ExpiredIsFoundCorrect ==
  ASSUME SmallSpis
  PROVE  Spec => []ExpiredIsFound
<1>1. SadTypeOK /\ SadGiven /\ ThreadInv /\ EventsKnown => ExpiredIsFound
  <2> SUFFICES ASSUME SadTypeOK, EventsKnown, thr.pc = "notify",
                      NEW i \in 1..Len(sad), sad[i].cfg.spi = thr.ev.id[2]
               PROVE  Expired(thr.ev) # 0
    BY DEF ExpiredIsFound
  <2>1. thr.ev.id[2] \in Spis
    BY DEF EventsKnown, KnownIds, SaIds
  <2>2. EventSpi(thr.ev.id[2]) = thr.ev.id[2]
    BY <2>1, SpiWidth DEF SmallSpis
  <2>3. QED
    BY <2>2, GetNodeBySpiFinds DEF Expired, get_sad_node_by_spi, SadTypeOK
<1>2. QED
  BY <1>1, EventsKnownCorrect, PTL

-----------------------------------------------------------------------------
(***************************************************************************)
(* The expiry of an SA is not forgotten as long as its entry is there: to  *)
(* the end of ExpiredNodePendingCorrect the controller leaves expired      *)
(* entries to the agent.                                                   *)
(***************************************************************************)

\* An SPI is never that of two entries.
OwnSpis ==
  \A m, n \in SadNames : \A c \in SadCfgsOf[m], d \in SadCfgsOf[n] :
    c.spi = d.spi => m = n

\* The controller leaves deletions and changes to the agent, no SA is left by
\* another program or an earlier run, and no commit takes so long that it is
\* undone under the callback's hands.  Messages and requests may be lost.
ExpiryAssumed ==
  /\ OwnSpis
  /\ SmallSpis
  /\ ForeignIds = {}
  /\ Edits \subseteq {"create"}
  /\ MayHappen \cap {"stop", "late"} = {}

\* Nor are messages or requests lost: nothing but noise is left.
NothingLost == MayHappen \subseteq {"noise"}

\* The SAs of the nodes in a list.
IdsOf(list) == {AddId(list[i].cfg) : i \in 1..Len(list)}

\* Nothing fails or is undone, and the controller only creates entries.  An
\* entry that was there before the subscription stays and has no node.
Calm ==
  /\ tx.by # "late"
  /\ tx.by = "controller" =>
       /\ \A n \in SadNames : newSad[n] = runSad[n] \/ runSad[n] = ABSENT
       /\ \A n \in SpdNames : newSpd[n] = runSpd[n] \/ runSpd[n] = ABSENT
  /\ \A n \in astraySad :
       n \notin NamesIn(sad) /\ runSad[n] # ABSENT /\ newSad[n] # ABSENT

\* The thread's own commit deletes the entry of the SA it was told of.
ThreadCommit ==
  tx.by = "thread" =>
    /\ thr.pc = "commit" /\ thr.ev.kind = "hard"
    /\ tx.list = "sad" /\ tx.todo \subseteq {thr.name}
    /\ runSad[thr.name] # ABSENT /\ AddId(runSad[thr.name]) = thr.ev.id
    /\ newSad[thr.name] = ABSENT
    /\ thr.name \notin astraySad

\* What the thread has found out when it asks for the deletion.
ThreadKnows ==
  /\ NothingLost => thr.rc = "ok"
  /\ thr.pc \in {"delete", "apply"} => thr.ev.kind = "hard"
  /\ thr.pc = "apply" =>
       \E i \in 1..Len(sad) : sad[i].name = thr.name /\ AddId(sad[i].cfg) = thr.ev.id

\* Nothing waits at a socket that is not registered, and what main reads of
\* it is not an EXPIRE message.
Sockets ==
  /\ ~Registered => evq = << >>
  /\ up = "reg" => evq # << >> /\ evq[1] = Other

\* The SA the thread is at work on, up to the deletion of its entry, and the
\* one it deletes the entry of.
Handling == thr.pc \in {"notify", "delete", "apply"}

InHand == IF Handling THEN {thr.ev.id} ELSE {}

HardInHand ==
  IF (Handling \/ tx.by = "thread") /\ thr.ev.kind = "hard" THEN {thr.ev.id} ELSE {}

\* The SAs there are messages about, and those that messages call expired.
Heard == IdsAbout(evq) \cup InHand

Gone == HardIds(evq) \cup HardInHand

\* The messages, the kernel and the list agree.  An SA in the kernel and one
\* that a message is about have a node; an SA called expired is not in the
\* kernel, and that is the last that is heard of it; an SA about to be added
\* has its node and is new to all others; and as long as nothing is lost an
\* SA that is neither in the kernel nor called expired is being worked on.
Told ==
  /\ ksad \cup Heard \subseteq IdsOf(sad)
  /\ Gone \cap ksad = {}
  /\ HardIsLast(evq, SaIds)
  /\ HardInHand \cap IdsAbout(evq) = {}
  /\ sadOp.op = "add" => AddId(sadOp.node.cfg) \in IdsOf(sad) \ (ksad \cup Heard)
  /\ NothingLost =>
       \A i \in 1..Len(sad) :
         AddId(sad[i].cfg) \in ksad \cup Gone \/ SadBusy(sad[i].name)

ExpiryInv == Calm /\ ThreadCommit /\ ThreadKnows /\ Sockets /\ Told

\* What is already known of every run.
Known ==
  /\ TypeOK /\ SadTypeOK /\ SpdTypeOK /\ ThreadInv /\ WorkInv
  /\ Given /\ SadGiven /\ SadTracksRunning

\* Types, work in progress and configurations are in order in every run.
LEMMA KnownCorrect == Spec => []Known
<1>1. Spec => []SadGiven
  BY AgentImplementsSad, SadGivenCorrect, PTL
<1>2. QED
  BY <1>1, AgentTypeCorrect, WorkCorrect, GivenCorrect, SadTracksCorrect, PTL DEF Known

-----------------------------------------------------------------------------
(* Nodes, entries and SAs *)

\* A node is of an entry that is not astray, has its configuration from
\* before or after the commit under way, and a name of its own.
LEMMA NodesFollow ==
  ASSUME ExpiryAssumed, Known, Calm, NEW i \in 1..Len(sad)
  PROVE  /\ SubscribedSad
         /\ sad[i].name \in SadNames \ astraySad
         /\ sad[i].cfg \in SadCfgsOf[sad[i].name]
         /\ sad[i].cfg \in {runSad[sad[i].name], newSad[sad[i].name]}
         /\ Once(sad, sad[i].name)
<1>1. SubscribedSad
  BY DEF Known, WorkInv, SadWork
<1>2. sad[i].name \in SadNames /\ sad[i].cfg \in SadCfgsOf[sad[i].name]
  BY DEF Known, SadGiven
<1>3. sad[i].name \notin astraySad
  BY DEF Calm, NamesIn
<1>4. SadTracks(sad[i].name)
  BY <1>1, <1>2, <1>3 DEF Known, SadTracksRunning
<1>5. "modify" \notin Edits
  BY DEF ExpiryAssumed
<1>6. QED
  BY <1>1, <1>2, <1>3, <1>4, <1>5 DEF SadTracks, Once

\* An entry that is not astray has a node if and only if it should have one.
LEMMA EntriesFollow ==
  ASSUME Known, SubscribedSad, NEW n \in SadNames \ astraySad
  PROVE  n \in NamesIn(sad) <=> SadTarget(n) # ABSENT \/ SadBusy(n)
BY DEF Known, SadTracksRunning, SadTracks

\* SAs of two entries are two.
LEMMA OwnIds ==
  ASSUME ExpiryAssumed, NEW m \in SadNames, NEW n \in SadNames,
         NEW c \in SadCfgsOf[m], NEW d \in SadCfgsOf[n], AddId(c) = AddId(d)
  PROVE  m = n
<1>1. c.spi = d.spi
  BY DEF AddId
<1>2. QED
  BY <1>1 DEF ExpiryAssumed, OwnSpis

\* A node is found by the SPI of its SA.
LEMMA NodeFound ==
  ASSUME ExpiryAssumed, Known, Calm, NEW ev, ev.id \in IdsOf(sad)
  PROVE  /\ Expired(ev) # 0 /\ Expired(ev) \in 1..Len(sad)
         /\ AddId(sad[Expired(ev)].cfg) = ev.id
<1>1. PICK i \in 1..Len(sad) : AddId(sad[i].cfg) = ev.id
  BY DEF IdsOf
<1>2. /\ sad \in Seq(SadNode)
      /\ sad[i].cfg.spi = ev.id[2]
  BY <1>1 DEF Known, SadTypeOK, AddId
<1>3. sad[i].cfg.spi \in Spis
  <2>1. sad[i] \in SadNode
    BY <1>2, ElementOfSeq
  <2>2. QED
    BY <2>1 DEF SadNode, SadCfg
<1>4. EventSpi(ev.id[2]) = ev.id[2]
  BY <1>2, <1>3, SpiWidth DEF ExpiryAssumed, SmallSpis
<1>5. PICK f \in 1..Len(sad) : f = Expired(ev) /\ sad[f].cfg.spi = ev.id[2]
  BY <1>2, <1>4, GetNodeBySpiFinds DEF Expired, get_sad_node_by_spi
<1>6. sad[f].name = sad[i].name
  BY <1>2, <1>5, NodesFollow DEF ExpiryAssumed, OwnSpis
<1>7. f = i
  BY <1>6, NodesFollow DEF Once
<1>8. QED
  BY <1>1, <1>5, <1>7

\* A deletion the callback is handed is the thread's.
LEMMA DeletionIsThreads ==
  ASSUME Known, Calm, ThreadCommit, NEW n \in SadNames, ChangeNext("sad", n),
         newSad[n] = ABSENT
  PROVE  /\ tx.by = "thread" /\ n = thr.name /\ n \notin astraySad
         /\ thr.pc = "commit" /\ thr.ev.kind = "hard"
         /\ runSad[n] # ABSENT /\ AddId(runSad[n]) = thr.ev.id
<1>1. ~Idle /\ n \in tx.todo /\ runSad[n] # newSad[n] /\ DsTypeOK
  BY DEF Known, WorkInv, CommitInv, ChangeNext, Changed
<1>2. tx.by \in {"controller", "thread", "late"}
  BY <1>1, CommitShape
<1>3. tx.by = "thread"
  BY <1>1, <1>2 DEF Calm
<1>4. QED
  BY <1>1, <1>3 DEF ThreadCommit

\* A creation is the controller's.
LEMMA CreationIsControllers ==
  ASSUME Known, Calm, ThreadCommit, NEW n \in SadNames, ChangeNext("sad", n),
         newSad[n] # ABSENT
  PROVE  tx.by # "thread" /\ runSad[n] = ABSENT
<1>1. ~Idle /\ n \in tx.todo /\ runSad[n] # newSad[n] /\ DsTypeOK
  BY DEF Known, WorkInv, CommitInv, ChangeNext, Changed
<1>2. tx.by \in {"controller", "thread", "late"}
  BY <1>1, CommitShape
<1>3. tx.by # "thread"
  BY <1>1 DEF ThreadCommit
<1>4. QED
  BY <1>1, <1>2, <1>3 DEF Calm

-----------------------------------------------------------------------------
(* What can still happen *)

\* The SPD's callback handles an entry, or works on it.
SpdCallbackWorks ==
  /\ UNCHANGED dsVars \/ \E n : ChangeNext("spd", n) /\ Handled(n)
  /\ UNCHANGED <<sadVars, threadVars, mainVars, astrayVars>>

\* removeSAD_entry finds its node and sends SADB_DELETE.
DeleteBegins(n) ==
  SadChange(n, "delete") /\ PfDelSad(n) /\ UNCHANGED <<dsVars, astrayVars>> /\ SadRest

\* A message or a request is lost on the thread.
ThreadLoses ==
  /\ ~NothingLost
  /\ \/ ReadNotRemove
     \/ NotifyFails
     \/ /\ thr.pc \in {"delete", "apply"}
        /\ thr' = Reading(thr.rc)
        /\ UNCHANGED evq
  /\ UNCHANGED dsVars

\* The register thread reads, notifies or deletes.
ThreadWorks ==
  /\ \/ /\ ReadExpire \/ ReadOther \/ SendExpireNotification \/ ApplyReturns
        /\ UNCHANGED dsVars
     \/ ThreadLoses
     \/ /\ SendDeleteRequest /\ Expired(thr.ev) # 0
        /\ thr' = [thr EXCEPT !.pc = "apply", !.name = sad[Expired(thr.ev)].name]
        /\ UNCHANGED dsVars
     \/ ApplyDelete
  /\ UNCHANGED <<sadVars, spdVars, mainVars, astrayVars>>

\* All callbacks of the commit are done.
CommitDone ==
  Commit /\ UNCHANGED <<sadVars, spdVars, threadVars, mainVars, astrayVars>>

\* The steps that ExpiryAssumed leaves.
CalmStep ==
  \/ SubscribeSpd \/ SubscribeSad \/ sadb_register
  \/ SpdCallbackWorks
  \/ \E n \in SadNames : SadCreate(n) \/ DeleteBegins(n)
  \/ SadPfAdd \/ SadUnlink
  \/ ThreadWorks
  \/ CommitDone
  \/ Controller
  \/ \E k \in SaIds : KernelExpires(k)
  \/ KernelTellsOther
  \/ UNCHANGED vars

\* Of the SPD's callback only creations are left, which undo nothing.
LEMMA SpdIsCalm ==
  ASSUME ExpiryAssumed, Known, ExpiryInv, spd_entry_change_cb
  PROVE  SpdCallbackWorks
<1>0. Calm /\ ThreadCommit /\ WorkInv /\ CommitInv /\ SpdWork /\ SpdTypeOK
  BY DEF ExpiryInv, Known, WorkInv
<1>1. ASSUME NEW n \in SpdNames, ChangeNext("spd", n)
      PROVE  runSpd[n] = ABSENT /\ newSpd[n] # ABSENT
  <2>1. ~Idle /\ tx.list = "spd" /\ runSpd[n] # newSpd[n] /\ DsTypeOK
    BY <1>0, <1>1 DEF CommitInv, ChangeNext, Changed
  <2>2. tx.by = "controller"
    BY <1>0, <2>1, CommitShape DEF Calm
  <2>3. QED
    BY <1>0, <2>1, <2>2 DEF Calm
<1>2. ASSUME NEW n \in SpdNames, SpdCreate(n)
      PROVE  SpdCallbackWorks
  BY <1>2 DEF SpdCreate, SpdChange, SpdGoesOn, SpdRest, SpdCallbackWorks
<1>3. ASSUME NEW n \in SpdNames
      PROVE  ~SpdDelete(n) /\ ~SpdModify(n)
  BY <1>1, EditKinds DEF SpdDelete, SpdModify, SpdChange
<1>4. CASE SpdPfAdd \/ SpdPfAddForward \/ SpdPfDelForward \/ SpdUnlink
  <2>1. spdOp # NoSpdOp
    BY <1>4 DEF SpdPfAdd, SpdPfAddForward, SpdPfDelForward, SpdUnlink, PfAddPolicy,
                PfAddForward, PfDelForward, DelSpdNode, NoSpdOp
  <2>2. ChangeNext("spd", spdOp.node.name)
    BY <1>0, <2>1 DEF SpdWork
  <2>3. QED
    BY <1>4, <2>2
    DEF SpdPfAdd, SpdPfAddForward, SpdPfDelForward, SpdUnlink, SpdGoesOn, SpdRest,
        SpdCallbackWorks
<1>5. QED
  BY <1>2, <1>3, <1>4 DEF spd_entry_change_cb

\* The SAD's callback finds the node of an entry it is to delete.
LEMMA SadIsCalm ==
  ASSUME ExpiryAssumed, Known, ExpiryInv, sad_entry_change_cb
  PROVE  CalmStep
<1>0. Calm /\ ThreadCommit /\ SadWork /\ sad \in Seq(SadNode)
  BY DEF ExpiryInv, Known, WorkInv, SadTypeOK
<1>1. ASSUME NEW n \in SadNames, SadDelete(n)
      PROVE  DeleteBegins(n)
  <2>1. ChangeNext("sad", n) /\ newSad[n] = ABSENT
    BY <1>1, EditKinds DEF SadDelete, SadChange
  <2>2. n \notin astraySad /\ runSad[n] # ABSENT /\ SubscribedSad
    BY <1>0, <2>1, DeletionIsThreads DEF SadWork
  <2>3. SadTarget(n) # ABSENT
    BY <2>1, <2>2 DEF SadTarget, ChangeNext
  <2>4. n \in NamesIn(sad)
    BY <2>2, <2>3, EntriesFollow
  <2>5. get_sad_node(n) # 0
    BY <1>0, <2>4, FoundIfThere DEF get_sad_node
  <2>6. QED
    BY <1>1, <2>5 DEF SadDelete, SadNotFound, DeleteBegins
<1>2. ASSUME NEW n \in SadNames
      PROVE  ~SadModify(n)
  BY <1>0, CreationIsControllers, EditKinds DEF SadModify, SadChange
<1>3. QED
  BY <1>1, <1>2 DEF sad_entry_change_cb, CalmStep

\* The thread finds the node of the SA it was told of, and its entry.
LEMMA ThreadIsCalm ==
  ASSUME ExpiryAssumed, Known, ExpiryInv, pf_sadb_esp_register_run
  PROVE  ThreadWorks
<1>0. Calm /\ ThreadKnows /\ Told /\ CommitInv
  BY DEF ExpiryInv, Known, WorkInv
<1>1. Handling => Expired(thr.ev) # 0
  <2>1. Handling => thr.ev.id \in IdsOf(sad)
    BY <1>0 DEF Told, Heard, InHand
  <2>2. QED
    BY <1>0, <2>1, NodeFound
<1>2. ~ExpireNotFound
  BY <1>1 DEF ExpireNotFound, Handling
<1>3. (ReadNotRemove \/ NotifyFails) /\ UNCHANGED dsVars => ThreadLoses
  BY <1>0 DEF ThreadLoses, ReadNotRemove, NotifyFails, NothingLost, ThreadKnows
<1>4. SendDeleteRequest /\ UNCHANGED dsVars =>
        \/ /\ Expired(thr.ev) # 0
           /\ thr' = [thr EXCEPT !.pc = "apply", !.name = sad[Expired(thr.ev)].name]
        \/ ThreadLoses
  BY DEF SendDeleteRequest, ThreadLoses, NothingLost
<1>5. ApplyNothing => ThreadLoses
  <2>1. ~(thr.pc = "apply" /\ Idle /\ runSad[thr.name] = ABSENT)
    <3>1. SUFFICES ASSUME thr.pc = "apply", Idle, runSad[thr.name] = ABSENT
                   PROVE  FALSE
      OBVIOUS
    <3>2. PICK i \in 1..Len(sad) : sad[i].name = thr.name
      BY <1>0, <3>1 DEF ThreadKnows
    <3>3. sad[i].cfg = ABSENT /\ thr.name \in SadNames /\ ABSENT \in SadCfgsOf[thr.name]
      BY <1>0, <3>1, <3>2, NodesFollow DEF CommitInv
    <3>4. QED
      BY <3>3, NamesAssumption
  <2>2. QED
    BY <2>1 DEF ApplyNothing, ThreadLoses, NothingLost
<1>6. QED
  BY <1>2, <1>3, <1>4, <1>5 DEF pf_sadb_esp_register_run, ThreadWorks

\* Nothing ends or is undone.
LEMMA OnlyCalmSteps ==
  ASSUME ExpiryAssumed, Known, ExpiryInv, [Next]_vars
  PROVE  CalmStep
<1>0. /\ Calm /\ Told /\ "stop" \notin MayHappen /\ "late" \notin MayHappen
      /\ ForeignIds = {}
  BY DEF ExpiryInv, ExpiryAssumed
<1>1. ~NullDereference
  <2>1. Handling => thr.ev.id \in IdsOf(sad)
    BY <1>0 DEF Told, Heard, InHand
  <2>2. QED
    BY <1>0, <2>1, NodeFound DEF NullDereference, Handling
<1>2. ~Crash /\ ~Stop /\ ~GivesUp
  BY <1>0, <1>1 DEF Crash, Stop, GivesUp, TimesOut
<1>3. \A k \in SaIds : ~OtherProgramAdds(k)
  BY <1>0 DEF OtherProgramAdds, ForeignAdd
<1>4. FinishCommit => CommitDone
  BY <1>0 DEF FinishCommit, Late, Calm, CommitDone
<1>5. QED
  BY <1>2, <1>3, <1>4, SpdIsCalm, SadIsCalm, ThreadIsCalm DEF Next, Environment, CalmStep

\* What the datastore does in such a step.
DatastoreCalm ==
  \/ UNCHANGED dsVars
  \/ ~Idle /\ \E n : Handled(n)
  \/ Commit
  \/ \E new \in SadWanted : ControllerEditsSad(new, SubscribedSad)
  \/ \E new \in SpdWanted : ControllerEditsSpd(new, SubscribedSpd)
  \/ ApplyDelete

\* A calm step does one of these to the datastore.
LEMMA CalmDatastore ==
  ASSUME Known, CalmStep
  PROVE  DatastoreCalm
<1>1. SadPfAdd \/ SadUnlink => ~Idle /\ Handled(sadOp.node.name)
  <2>1. SadPfAdd \/ SadUnlink => sadOp # NoSadOp
    BY DEF SadPfAdd, SadUnlink, PfAddSad, DelSadNode, NoSadOp
  <2>2. QED
    BY <2>1 DEF SadPfAdd, SadUnlink, Known, WorkInv, SadWork, ChangeNext
<1>2. QED
  BY <1>1
  DEF CalmStep, SubscribeSpd, SubscribeSad, sadb_register, SpdCallbackWorks, ChangeNext,
      SadCreate, DeleteBegins, ThreadWorks, ThreadLoses, CommitDone, Controller,
      KernelExpires, KernelTellsOther, vars, DatastoreCalm

\* A controller that only creates asks for entries that were not there.
LEMMA LegalCreates ==
  ASSUME Edits \subseteq {"create"}, NEW old, NEW new, Legal(old, new), NEW n \in DOMAIN old
  PROVE  new[n] = old[n] \/ old[n] = ABSENT
<1>1. n \in Changed(old, new) => EditOf(old, new, n) = "create"
  BY DEF Legal
<1>2. QED
  BY <1>1, EditKinds DEF Changed

\* A node that is linked is of an entry that had none and is not astray.
LEMMA CreatedIsNew ==
  ASSUME ExpiryAssumed, Known, Calm, ThreadCommit, NEW n \in SadNames, SadCreate(n)
  PROVE  /\ n \notin astraySad /\ n \notin NamesIn(sad)
         /\ newSad[n] \in SadCfgsOf[n] /\ AddId(newSad[n]) \notin IdsOf(sad)
         /\ tx.by # "thread" /\ SubscribedSad /\ sadOp = NoSadOp
<1>1. /\ ChangeNext("sad", n) /\ newSad[n] # ABSENT /\ sadOp = NoSadOp
      /\ SadWork
  BY EditKinds DEF SadCreate, SadChange, AddSadNode, Known, WorkInv
<1>2. tx.by # "thread" /\ runSad[n] = ABSENT /\ SubscribedSad
  BY <1>1, CreationIsControllers DEF SadWork
<1>3. n \notin astraySad
  BY <1>2 DEF Calm
<1>4. n \notin NamesIn(sad)
  <2>1. SadTarget(n) = ABSENT /\ ~SadBusy(n)
    BY <1>1, <1>2 DEF SadTarget, ChangeNext, SadBusy
  <2>2. QED
    BY <1>2, <1>3, <2>1, EntriesFollow
<1>5. newSad[n] \in SadCfgsOf[n]
  BY <1>1 DEF Known, Given
<1>6. ASSUME NEW i \in 1..Len(sad), AddId(sad[i].cfg) = AddId(newSad[n])
      PROVE  FALSE
  <2>1. sad[i].name = n
    BY <1>5, <1>6, NodesFollow, OwnIds
  <2>2. QED
    BY <1>4, <2>1 DEF NamesIn
<1>7. QED
  BY <1>1, <1>2, <1>3, <1>4, <1>5, <1>6 DEF IdsOf

\* What a step does to the names in the list.
LEMMA NamesCalm ==
  ASSUME Known, CalmStep
  PROVE  \A m \in NamesIn(sad)' : m \in NamesIn(sad) \/ \E n \in SadNames : m = n /\ SadCreate(n)
<1>0. sad \in Seq(SadNode) /\ NamesIn(sad)' = NamesIn(sad')
  BY DEF Known, SadTypeOK, NamesIn
<1>1. ASSUME NEW n \in SadNames, SadCreate(n)
      PROVE  NamesIn(sad') = NamesIn(sad) \cup {n}
  <2> DEFINE node == [name |-> n, cfg |-> newSad[n]]
  <2>1. sad' = Append(sad, node) /\ node.name = n
    BY <1>1 DEF SadCreate, AddSadNode
  <2>2. node \in SadNode
    <3>1. newSad[n] \in SadCfg
      BY <1>1, EditKinds DEF SadCreate, SadChange, Known, WorkInv, CommitInv, DsTypeOK, SadConfigs
    <3>2. QED
      BY <3>1 DEF SadNode
  <2> HIDE DEF node
  <2>3. QED
    BY <1>0, <2>1, <2>2, AppendedNames
<1>2. CASE SadUnlink
  <2>1. PICK n : GetNode(sad, n) # 0 /\ sad' = DelNode(sad, n)
    BY <1>2 DEF SadUnlink, DelSadNode, get_sad_node
  <2>2. \A m : m # n => (m \in NamesIn(sad') <=> m \in NamesIn(sad))
    BY <1>0, <2>1, UnlinkedNames
  <2>3. n \in NamesIn(sad)
    BY <1>0, <2>1, FoundIfThere
  <2>4. QED
    BY <1>0, <2>2, <2>3
<1>3. CASE UNCHANGED sad
  BY <1>3 DEF NamesIn
<1>4. QED
  BY <1>0, <1>1, <1>2, <1>3
  DEF CalmStep, SubscribeSpd, SubscribeSad, sadb_register, SpdCallbackWorks, DeleteBegins,
      PfDelSad, SadPfAdd, PfAddSad, ThreadWorks, CommitDone, Controller, KernelExpires,
      SoftExpire, HardExpire, KernelTellsOther, vars, sadVars

\* The thread deletes the entry of the node it has found.
LEMMA ThreadDeletesItsNode ==
  ASSUME ExpiryAssumed, Known, Calm, ThreadKnows, ApplyDelete
  PROVE  /\ thr.name \in SadNames \ astraySad
         /\ thr.ev.kind = "hard"
         /\ runSad[thr.name] # ABSENT /\ AddId(runSad[thr.name]) = thr.ev.id
         /\ tx'.by = "thread" /\ tx'.list = "sad" /\ tx'.todo = {thr.name}
         /\ newSad' = [runSad EXCEPT ![thr.name] = ABSENT] /\ newSad'[thr.name] = ABSENT
         /\ UNCHANGED <<runSad, runSpd, newSpd>>
<1>1. thr.pc = "apply" /\ ThreadDeletes(thr.name)
  BY DEF ApplyDelete
<1>2. PICK i \in 1..Len(sad) : sad[i].name = thr.name /\ AddId(sad[i].cfg) = thr.ev.id
  BY <1>1 DEF ThreadKnows
<1>3. newSad = runSad /\ runSad \in SadConfigs
  BY <1>1 DEF ThreadDeletes, Known, WorkInv, CommitInv, DsTypeOK
<1>4. thr.name \in SadNames \ astraySad /\ sad[i].cfg = runSad[thr.name]
  BY <1>2, <1>3, NodesFollow
<1>5. QED
  BY <1>1, <1>2, <1>3, <1>4 DEF ThreadDeletes, ThreadKnows, SadConfigs

\* A calm step undoes nothing and leaves astray entries alone.
LEMMA CalmKept ==
  ASSUME ExpiryAssumed, Known, ExpiryInv, CalmStep
  PROVE  Calm'
<1>0. /\ Calm /\ ThreadCommit /\ ThreadKnows /\ CommitInv /\ DatastoreCalm
      /\ DOMAIN runSad = SadNames /\ DOMAIN runSpd = SpdNames
      /\ astraySad \subseteq SadNames
      /\ Edits \subseteq {"create"}
  BY CalmDatastore
  DEF ExpiryInv, Known, TypeOK, WorkInv, CommitInv, DsTypeOK, SadConfigs, SpdConfigs, ExpiryAssumed
<1> DEFINE Creates == /\ \A n \in SadNames : newSad[n] = runSad[n] \/ runSad[n] = ABSENT
                      /\ \A n \in SpdNames : newSpd[n] = runSpd[n] \/ runSpd[n] = ABSENT
<1>2. /\ tx'.by # "late" /\ (tx'.by = "controller" => Creates')
      /\ \A n \in astraySad : runSad'[n] # ABSENT /\ newSad'[n] # ABSENT
  <2>1. CASE UNCHANGED dsVars
    BY <1>0, <2>1 DEF dsVars, Calm
  <2>2. ASSUME ~Idle, NEW n, Handled(n)
        PROVE  /\ tx'.by # "late" /\ (tx'.by = "controller" => Creates')
               /\ \A m \in astraySad : runSad'[m] # ABSENT /\ newSad'[m] # ABSENT
    <3>1. tx'.by = tx.by
      BY <1>0, <2>2, HandledCommit DEF CommitInv
    <3>2. QED
      BY <1>0, <2>2, <3>1 DEF Handled, Calm
  <2>3. CASE Commit
    <3>1. tx'.by = "nobody"
      BY <2>3 DEF Commit, NoTx
    <3>2. QED
      BY <1>0, <2>3, <3>1 DEF Commit, Calm
  <2>4. ASSUME NEW new \in SadWanted, ControllerEditsSad(new, SubscribedSad)
        PROVE  /\ tx'.by # "late" /\ Creates'
               /\ \A m \in astraySad : runSad'[m] # ABSENT /\ newSad'[m] # ABSENT
    <3>1. /\ \A n \in SadNames : new[n] = runSad[n] \/ runSad[n] = ABSENT
          /\ newSpd = runSpd
      BY <1>0, <2>4, LegalCreates DEF ControllerEditsSad, CommitInv
    <3>2. QED
      BY <1>0, <2>4, <3>1 DEF ControllerEditsSad, Calm
  <2>5. ASSUME NEW new \in SpdWanted, ControllerEditsSpd(new, SubscribedSpd)
        PROVE  /\ tx'.by # "late" /\ Creates'
               /\ \A m \in astraySad : runSad'[m] # ABSENT /\ newSad'[m] # ABSENT
    <3>1. /\ \A n \in SpdNames : new[n] = runSpd[n] \/ runSpd[n] = ABSENT
          /\ newSad = runSad
      BY <1>0, <2>5, LegalCreates DEF ControllerEditsSpd, CommitInv
    <3>2. QED
      BY <1>0, <2>5, <3>1 DEF ControllerEditsSpd, Calm
  <2>6. CASE ApplyDelete
    <3>1. /\ tx'.by = "thread" /\ runSad' = runSad /\ thr.name \notin astraySad
          /\ newSad' = [runSad EXCEPT ![thr.name] = ABSENT]
      BY <1>0, <2>6, ThreadDeletesItsNode
    <3>2. \A n \in astraySad : newSad'[n] = runSad[n]
      BY <1>0, <3>1
    <3>3. QED
      BY <1>0, <3>1, <3>2 DEF Calm
  <2>7. QED
    BY <1>0, <2>1, <2>2, <2>3, <2>4, <2>5, <2>6 DEF DatastoreCalm
<1>3. \A n \in astraySad' : n \notin NamesIn(sad)' /\ runSad'[n] # ABSENT /\ newSad'[n] # ABSENT
  <2>1. CASE SubscribeSad
    <3>1. sad = << >> /\ newSad = runSad
      BY <1>0, <2>1 DEF SubscribeSad, Known, WorkInv, SadWork, SubscribedSad, CommitInv
    <3>2. NamesIn(sad)' = {}
      BY <2>1, <3>1 DEF SubscribeSad, sadVars, NamesIn
    <3>3. QED
      BY <2>1, <3>1, <3>2 DEF SubscribeSad, dsVars, Present
  <2>2. CASE ~SubscribeSad
    <3>1. astraySad' = astraySad
      BY <2>2
      DEF CalmStep, SubscribeSpd, sadb_register, SpdCallbackWorks, SadCreate, SadGoesOn,
          DeleteBegins, SadPfAdd, SadUnlink, ThreadWorks, CommitDone, Controller,
          KernelExpires, KernelTellsOther, vars, astrayVars
    <3>2. QED
      BY <1>0, <1>2, <3>1, NamesCalm, CreatedIsNew DEF Calm
  <2>3. QED
    BY <2>1, <2>2
<1>4. QED
  BY <1>2, <1>3 DEF Calm

\* What the thread's steps do to its local variables.
LEMMA ThreadFields ==
  ASSUME ThreadInv
  PROVE  /\ ReadExpire => /\ thr.pc = "read" /\ evq # << >> /\ evq' = Tail(evq)
                          /\ Head(evq) # Other
                          /\ thr'.pc = "notify" /\ thr'.rc = thr.rc /\ thr'.ev = Head(evq)
         /\ SendExpireNotification =>
              /\ thr.pc = "notify" /\ evq' = evq /\ thr'.rc = "ok"
              /\ \/ thr.ev.kind = "hard" /\ thr'.pc = "delete" /\ thr'.ev = thr.ev
                 \/ thr.ev.kind # "hard" /\ thr'.pc = "read"
         /\ thr' = [thr EXCEPT !.pc = "apply", !.name = sad[Expired(thr.ev)].name] =>
              /\ thr'.pc = "apply" /\ thr'.rc = thr.rc /\ thr'.ev = thr.ev
              /\ thr'.name = sad[Expired(thr.ev)].name
         /\ ApplyDelete => /\ thr.pc = "apply" /\ evq' = evq
                           /\ thr'.pc = "commit" /\ thr'.rc = thr.rc /\ thr'.ev = thr.ev
                           /\ thr'.name = thr.name
         /\ ApplyReturns => /\ thr.pc = "commit" /\ tx.by # "thread" /\ evq' = evq
                            /\ thr'.pc = "read" /\ thr'.rc = thr.rc
         /\ ThreadLoses =>
              \/ /\ thr.pc = "read" /\ evq # << >> /\ evq' = Tail(evq) /\ thr' = thr
              \/ /\ thr.pc = "notify" /\ evq' = evq
                 /\ \/ thr.ev.kind = "hard" /\ thr'.pc = "delete" /\ thr'.ev = thr.ev
                    \/ thr'.pc = "read"
              \/ /\ thr.pc \in {"delete", "apply"} /\ evq' = evq /\ thr'.pc = "read"
<1>0. thr \in Threads
  BY DEF ThreadInv, ThreadTypeOK, Threads
<1>1. thr = [pc |-> thr.pc, rc |-> thr.rc, ev |-> thr.ev, name |-> thr.name]
  BY <1>0 DEF Threads
<1>2. ASSUME ReadExpire
      PROVE  /\ thr.pc = "read" /\ evq # << >> /\ evq' = Tail(evq)
             /\ Head(evq) # Other
             /\ thr'.pc = "notify" /\ thr'.rc = thr.rc /\ thr'.ev = Head(evq)
  <2>1. Head(evq) # Other
    BY <1>2 DEF ReadExpire, Other
  <2>2. thr' = [pc |-> "notify", rc |-> thr.rc, ev |-> Head(evq), name |-> thr.name]
    BY <1>1, <1>2 DEF ReadExpire
  <2>3. QED
    BY <1>2, <2>1, <2>2 DEF ReadExpire
<1>3. ASSUME SendExpireNotification
      PROVE  /\ thr.pc = "notify" /\ evq' = evq /\ thr'.rc = "ok"
             /\ \/ thr.ev.kind = "hard" /\ thr'.pc = "delete" /\ thr'.ev = thr.ev
                \/ thr.ev.kind # "hard" /\ thr'.pc = "read"
  <2>1. CASE thr.ev.kind = "hard"
    <3>1. thr' = [pc |-> "delete", rc |-> "ok", ev |-> thr.ev, name |-> thr.name]
      BY <1>1, <1>3, <2>1 DEF SendExpireNotification, AfterNotify
    <3>2. QED
      BY <1>3, <2>1, <3>1 DEF SendExpireNotification
  <2>2. CASE thr.ev.kind # "hard"
    <3>1. thr' = Reading("ok")
      BY <1>3, <2>2 DEF SendExpireNotification, AfterNotify
    <3>2. QED
      BY <1>3, <2>2, <3>1 DEF SendExpireNotification, Reading
  <2>3. QED
    BY <2>1, <2>2
<1>4. ASSUME thr' = [thr EXCEPT !.pc = "apply", !.name = sad[Expired(thr.ev)].name]
      PROVE  /\ thr'.pc = "apply" /\ thr'.rc = thr.rc /\ thr'.ev = thr.ev
             /\ thr'.name = sad[Expired(thr.ev)].name
  BY <1>1, <1>4
<1>5. ASSUME ApplyDelete
      PROVE  /\ thr.pc = "apply" /\ evq' = evq
             /\ thr'.pc = "commit" /\ thr'.rc = thr.rc /\ thr'.ev = thr.ev
             /\ thr'.name = thr.name
  BY <1>1, <1>5 DEF ApplyDelete
<1>6. ASSUME ApplyReturns
      PROVE  /\ thr.pc = "commit" /\ tx.by # "thread" /\ evq' = evq
             /\ thr'.pc = "read" /\ thr'.rc = thr.rc
  BY <1>6 DEF ApplyReturns, Reading
<1>7. ASSUME thr.pc = "notify", NEW rc, AfterNotify(rc)
      PROVE  \/ thr.ev.kind = "hard" /\ thr'.pc = "delete" /\ thr'.ev = thr.ev
             \/ thr'.pc = "read"
  <2>1. CASE thr.ev.kind = "hard"
    <3>1. thr' = [pc |-> "delete", rc |-> rc, ev |-> thr.ev, name |-> thr.name]
      BY <1>1, <1>7, <2>1 DEF AfterNotify
    <3>2. QED
      BY <2>1, <3>1
  <2>2. CASE thr.ev.kind # "hard"
    BY <1>7, <2>2 DEF AfterNotify, Reading
  <2>3. QED
    BY <2>1, <2>2
<1>8. ASSUME ThreadLoses
      PROVE  \/ /\ thr.pc = "read" /\ evq # << >> /\ evq' = Tail(evq) /\ thr' = thr
             \/ /\ thr.pc = "notify" /\ evq' = evq
                /\ \/ thr.ev.kind = "hard" /\ thr'.pc = "delete" /\ thr'.ev = thr.ev
                   \/ thr'.pc = "read"
             \/ /\ thr.pc \in {"delete", "apply"} /\ evq' = evq /\ thr'.pc = "read"
  <2>1. CASE ReadNotRemove
    BY <2>1 DEF ReadNotRemove
  <2>2. CASE NotifyFails
    BY <1>7, <2>2 DEF NotifyFails
  <2>3. CASE thr.pc \in {"delete", "apply"} /\ thr' = Reading(thr.rc) /\ UNCHANGED evq
    BY <2>3 DEF Reading
  <2>4. QED
    BY <1>8, <2>1, <2>2, <2>3 DEF ThreadLoses
<1>9. QED
  BY <1>2, <1>3, <1>4, <1>5, <1>6, <1>8

\* The thread does not move while its commit is under way.
LEMMA ThreadWaits ==
  ASSUME Known, ThreadCommit, tx.by = "thread", CalmStep
  PROVE  thr' = thr
<1>1. thr.pc = "commit" /\ ~ThreadWorks /\ ~sadb_register
  BY DEF ThreadCommit, ThreadWorks, ThreadLoses, ReadNotRemove, NotifyFails, ReadExpire,
         ReadOther, SendExpireNotification, ApplyReturns, SendDeleteRequest, ApplyDelete, sadb_register, SendRegister,
         ReadReply, Off
<1>2. QED
  BY <1>1
  DEF CalmStep, SubscribeSpd, SubscribeSad, SpdCallbackWorks, SadCreate, SadGoesOn, SadRest,
      DeleteBegins, SadPfAdd, SadUnlink, CommitDone, Controller, KernelExpires, Tell,
      KernelTellsOther, vars, threadVars

\* The thread's commit stays that of the message in its hand.
LEMMA ThreadCommitKept ==
  ASSUME ExpiryAssumed, Known, ExpiryInv, CalmStep
  PROVE  ThreadCommit'
<1> SUFFICES ASSUME tx'.by = "thread"
             PROVE  ThreadCommit'
  BY DEF ThreadCommit
<1>0. Calm /\ ThreadCommit /\ ThreadKnows /\ DatastoreCalm /\ ThreadInv /\ DsTypeOK
  BY CalmDatastore DEF ExpiryInv, Known, WorkInv, CommitInv
<1>1. SubscribeSad \/ astraySad' = astraySad
  BY DEF CalmStep, SubscribeSpd, sadb_register, SpdCallbackWorks, SadCreate, SadGoesOn,
         DeleteBegins, SadPfAdd, SadUnlink, ThreadWorks, CommitDone, Controller,
         KernelExpires, KernelTellsOther, vars, astrayVars
<1>2. ~SubscribeSad
  <2>1. SubscribeSad => tx' = NoTx
    BY DEF SubscribeSad, Idle, dsVars
  <2>2. QED
    BY <2>1 DEF NoTx
<1>3. CASE ApplyDelete
  BY <1>0, <1>1, <1>2, <1>3, ThreadDeletesItsNode, ThreadFields DEF ThreadCommit
<1>4. CASE ~ApplyDelete
  <2>1. /\ tx.by = "thread" /\ tx'.list = tx.list /\ tx'.todo \subseteq tx.todo
        /\ UNCHANGED <<runSad, newSad>>
    <3>1. CASE UNCHANGED dsVars
      BY <3>1 DEF dsVars
    <3>2. ASSUME ~Idle, NEW n, Handled(n)
          PROVE  /\ tx.by = "thread" /\ tx'.list = tx.list /\ tx'.todo \subseteq tx.todo
                 /\ UNCHANGED <<runSad, newSad>>
      BY <1>0, <3>2, HandledCommit DEF Handled
    <3>3. CASE Commit
      BY <3>3 DEF Commit, NoTx
    <3>4. /\ \A new : ~ControllerEditsSad(new, SubscribedSad)
          /\ \A new : ~ControllerEditsSpd(new, SubscribedSpd)
      BY DEF ControllerEditsSad, ControllerEditsSpd
    <3>5. QED
      BY <1>0, <1>4, <3>1, <3>2, <3>3, <3>4 DEF DatastoreCalm
  <2>2. thr' = thr
    BY <1>0, <2>1, ThreadWaits
  <2>3. QED
    BY <1>0, <1>1, <1>2, <2>1, <2>2 DEF ThreadCommit
<1>5. QED
  BY <1>3, <1>4

\* The node that the thread is about to ask the deletion of stays meanwhile.
LEMMA NodeStays ==
  ASSUME ExpiryAssumed, Known, ExpiryInv, CalmStep, thr.pc # "commit",
         NEW i \in 1..Len(sad)
  PROVE  i \in 1..Len(sad') /\ sad'[i] = sad[i]
<1>0. /\ Calm /\ ThreadCommit /\ SadWork /\ SadTypeOK
      /\ sad \in Seq(SadNode) /\ Len(sad) \in Nat
  BY LenProperties DEF ExpiryInv, Known, WorkInv, SadTypeOK
<1>1. ASSUME NEW n \in SadNames, SadCreate(n)
      PROVE  i \in 1..Len(sad') /\ sad'[i] = sad[i]
  <2> DEFINE node == [name |-> n, cfg |-> newSad[n]]
  <2>1. sad' = Append(sad, node)
    BY <1>1 DEF SadCreate, AddSadNode
  <2>2. node \in SadNode
    <3>1. newSad[n] \in SadCfg
      BY <1>1, EditKinds DEF SadCreate, SadChange, Known, WorkInv, CommitInv, DsTypeOK, SadConfigs
    <3>2. QED
      BY <3>1 DEF SadNode
  <2> HIDE DEF node
  <2>3. Len(sad') = Len(sad) + 1 /\ sad'[i] = sad[i]
    BY <1>0, <2>1, <2>2, AppendProperties
  <2>4. QED
    BY <1>0, <2>3
<1>2. ~SadUnlink
  <2>1. SUFFICES ASSUME sadOp.op = "del"
                 PROVE  FALSE
    BY DEF SadUnlink, DelSadNode
  <2>2. /\ ChangeNext("sad", sadOp.node.name) /\ newSad[sadOp.node.name] = ABSENT
        /\ sadOp.node.name \in SadNames
    BY <1>0, <2>1, SadOpNode DEF SadWork, NoSadOp
  <2>3. QED
    BY <1>0, <2>2, DeletionIsThreads
<1>3. CASE UNCHANGED sad
  BY <1>3
<1>4. QED
  BY <1>1, <1>2, <1>3
  DEF CalmStep, SubscribeSpd, SubscribeSad, sadb_register, SpdCallbackWorks, DeleteBegins,
      PfDelSad, SadPfAdd, PfAddSad, ThreadWorks, CommitDone, Controller, KernelExpires,
      SoftExpire, HardExpire, KernelTellsOther, vars, sadVars

\* What the thread found out stays true until it acts on it.
LEMMA ThreadKnowsKept ==
  ASSUME ExpiryAssumed, Known, ExpiryInv, CalmStep
  PROVE  ThreadKnows'
<1>0. Calm /\ ThreadKnows /\ Told /\ ThreadInv
  BY DEF ExpiryInv, Known
<1>1. CASE UNCHANGED thr
  <2>1. CASE thr.pc = "apply"
    <3>1. PICK i \in 1..Len(sad) : sad[i].name = thr.name /\ AddId(sad[i].cfg) = thr.ev.id
      BY <1>0, <2>1 DEF ThreadKnows
    <3>2. i \in 1..Len(sad') /\ sad'[i] = sad[i]
      BY <2>1, NodeStays
    <3>3. QED
      BY <1>0, <1>1, <3>1, <3>2 DEF ThreadKnows
  <2>2. CASE thr.pc # "apply"
    BY <1>0, <1>1, <2>2 DEF ThreadKnows
  <2>3. QED
    BY <2>1, <2>2
<1>2. CASE ThreadWorks
  <2>1. CASE ReadExpire \/ SendExpireNotification \/ ApplyDelete \/ ApplyReturns
    BY <1>0, <2>1, ThreadFields DEF ThreadKnows
  <2>2. CASE ReadOther
    BY <1>1, <2>2 DEF ReadOther
  <2>3. CASE /\ SendDeleteRequest
             /\ thr' = [thr EXCEPT !.pc = "apply", !.name = sad[Expired(thr.ev)].name]
             /\ UNCHANGED sad
    <3>1. thr.pc = "delete" /\ thr.ev.id \in IdsOf(sad)
      BY <1>0, <2>3 DEF SendDeleteRequest, Told, Heard, InHand, Handling
    <3>2. Expired(thr.ev) \in 1..Len(sad) /\ AddId(sad[Expired(thr.ev)].cfg) = thr.ev.id
      BY <1>0, <3>1, NodeFound
    <3>3. /\ thr'.pc = "apply" /\ thr'.rc = thr.rc /\ thr'.ev = thr.ev
          /\ thr'.name = sad[Expired(thr.ev)].name
      BY <1>0, <2>3, ThreadFields
    <3>4. QED
      BY <1>0, <2>3, <3>1, <3>2, <3>3 DEF ThreadKnows
  <2>4. CASE ThreadLoses
    <3>1. ~NothingLost
      BY <2>4 DEF ThreadLoses
    <3>2. CASE thr.pc = "read" /\ thr' = thr
      BY <1>1, <3>2
    <3>3. CASE \/ thr.ev.kind = "hard" /\ thr'.pc = "delete" /\ thr'.ev = thr.ev
               \/ thr'.pc = "read"
      BY <3>1, <3>3 DEF ThreadKnows
    <3>4. QED
      BY <1>0, <2>4, <3>2, <3>3, ThreadFields
  <2>5. QED
    BY <1>2, <2>1, <2>2, <2>3, <2>4 DEF ThreadWorks, sadVars
<1>3. CASE sadb_register
  <2>1. CASE SendRegister
    BY <1>1, <2>1 DEF SendRegister
  <2>2. CASE ReadReply
    BY <2>2 DEF ReadReply, Reading, ThreadKnows
  <2>3. QED
    BY <1>3, <2>1, <2>2 DEF sadb_register
<1>4. QED
  BY <1>1, <1>2, <1>3
  DEF CalmStep, SubscribeSpd, SubscribeSad, SpdCallbackWorks, SadCreate, SadGoesOn, SadRest,
      DeleteBegins, SadPfAdd, SadUnlink, CommitDone, Controller, KernelExpires, Tell,
      KernelTellsOther, vars, threadVars

\* The answer to the registration stays the first message until main reads it.
LEMMA SocketsKept ==
  ASSUME ExpiryAssumed, Known, ExpiryInv, CalmStep
  PROVE  Sockets'
<1>0. /\ Sockets /\ ThreadInv /\ evq \in Seq(Expires \cup {Other})
      /\ thr.pc # "off" => up = "up"
  BY DEF ExpiryInv, Known, ThreadInv, ThreadTypeOK
<1>1. CASE UNCHANGED <<up, evq>>
  BY <1>0, <1>1 DEF Sockets, Registered
<1>2. ASSUME up' = up, Registered, NEW ev \in Expires \cup {Other}, Deliver(ev)
      PROVE  Sockets'
  <2>1. CASE evq' = evq
    BY <1>1, <1>2, <2>1
  <2>2. CASE evq' = Append(evq, ev)
    <3>1. CASE up = "reg"
      <4>1. Len(evq) \in Nat \ {0}
        BY <1>0, <3>1, LenProperties, EmptySeq DEF Sockets
      <4>2. Len(evq') = Len(evq) + 1 /\ evq'[1] = evq[1]
        BY <1>0, <1>2, <2>2, <4>1, AppendProperties
      <4>3. evq' # << >>
        BY <4>1, <4>2
      <4>4. QED
        BY <1>0, <1>2, <3>1, <4>2, <4>3 DEF Sockets, Registered
    <3>2. CASE up # "reg"
      BY <1>2, <3>2 DEF Sockets, Registered
    <3>3. QED
      BY <3>1, <3>2
  <2>3. QED
    BY <1>2, <2>1, <2>2 DEF Deliver
<1>3. CASE SubscribeSpd \/ SubscribeSad
  BY <1>0, <1>3 DEF SubscribeSpd, SubscribeSad, threadVars, Sockets, Registered
<1>4. CASE sadb_register
  <2>1. CASE SendRegister /\ up' = "reg"
    <3>1. evq' = <<Other>> \/ evq' = <<Other, Other>>
      BY <2>1 DEF SendRegister
    <3>2. evq' # << >> /\ evq'[1] = Other
      BY <3>1
    <3>3. QED
      BY <2>1, <3>2 DEF Sockets, Registered
  <2>2. CASE up' = "up"
    BY <2>2 DEF Sockets, Registered
  <2>3. QED
    BY <1>4, <2>1, <2>2 DEF sadb_register
<1>5. CASE ThreadWorks
  <2>1. thr.pc # "off" /\ up' = up
    BY <1>5 DEF ThreadWorks, ThreadLoses, ReadNotRemove, NotifyFails, ReadExpire, ReadOther,
                SendExpireNotification, ApplyReturns,
                SendDeleteRequest, ApplyDelete, mainVars
  <2>2. QED
    BY <1>0, <2>1 DEF Sockets, Registered
<1>6. ASSUME NEW k \in SaIds, KernelExpires(k)
      PROVE  Sockets'
  <2>1. PICK s \in {"soft", "hard"} : Tell([kind |-> s, id |-> k])
    BY <1>6 DEF KernelExpires
  <2>2. [kind |-> s, id |-> k] \in Expires
    BY DEF Expires
  <2>3. QED
    BY <1>1, <1>2, <1>6, <2>1, <2>2 DEF KernelExpires, Tell, mainVars
<1>7. CASE KernelTellsOther
  BY <1>2, <1>7 DEF KernelTellsOther, mainVars
<1>8. QED
  BY <1>1, <1>3, <1>4, <1>5, <1>6, <1>7
  DEF CalmStep, SpdCallbackWorks, SadCreate, SadGoesOn, SadRest, DeleteBegins, SadPfAdd,
      SadUnlink, CommitDone, Controller, vars, mainVars, threadVars

-----------------------------------------------------------------------------
(* The messages, the kernel and the list *)

\* The entry that operation op is at work on is n.
AtWork(op, n) == op # NoSadOp /\ op.node.name = n

\* Told in terms of the next state.
LEMMA ToldNext ==
  ASSUME ksad' \cup Heard' \subseteq IdsOf(sad'), Gone' \cap ksad' = {}, HardIsLast(evq', SaIds),
         HardInHand' \cap IdsAbout(evq') = {},
         sadOp'.op = "add" =>
           AddId(sadOp'.node.cfg) \in IdsOf(sad') \ (ksad' \cup Heard'),
         NothingLost =>
           \A i \in 1..Len(sad') :
             AddId(sad'[i].cfg) \in ksad' \cup Gone' \/ AtWork(sadOp', sad'[i].name)
  PROVE  Told'
<1>1. IdsOf(sad)' = IdsOf(sad') /\ (HardIsLast(evq, SaIds)' <=> HardIsLast(evq', SaIds))
  BY DEF IdsOf, HardIsLast
<1>2. IdsAbout(evq)' = IdsAbout(evq')
  BY DEF IdsAbout, Messages
<1>3. NothingLost =>
        (\A i \in 1..Len(sad) :
           AddId(sad[i].cfg) \in ksad \cup Gone \/ SadBusy(sad[i].name))'
  BY DEF SadBusy, AtWork
<1>4. QED
  BY <1>1, <1>2, <1>3 DEF Told, NothingLost

\* The next state's messages and thread.
LEMMA HeardNext ==
  /\ Heard' = IdsAbout(evq') \cup InHand'
  /\ Gone' = HardIds(evq') \cup HardInHand'
BY DEF Heard, Gone, IdsAbout, HardIds, Messages

\* A step that leaves the list and the kernel alone, and makes no message
\* disappear but those the thread is done with.
LEMMA ToldSame ==
  ASSUME Told, UNCHANGED <<sad, sadOp, ksad>>, Heard' \subseteq Heard, Gone' \subseteq Gone,
         NothingLost => Gone' = Gone,
         HardIsLast(evq', SaIds), HardInHand' \cap IdsAbout(evq') = {}
  PROVE  Told'
<1>1. \A n : AtWork(sadOp', n) <=> SadBusy(n)
  BY DEF SadBusy, AtWork
<1>2. QED
  BY <1>1, ToldNext DEF Told

\* A step that leaves the messages and the thread's part in them alone.
LEMMA HeardSame ==
  ASSUME UNCHANGED <<evq, thr>>, tx'.by = "thread" <=> tx.by = "thread"
  PROVE  /\ Heard' = Heard /\ Gone' = Gone /\ HardInHand' = HardInHand
         /\ HardIsLast(evq', SaIds) = HardIsLast(evq, SaIds) /\ IdsAbout(evq') = IdsAbout(evq)
BY DEF Heard, Gone, InHand, HardInHand, Handling, IdsAbout, HardIds, Messages

\* Neither a controller's commit nor a callback makes one the thread's.
LEMMA ByThread ==
  ASSUME Known,
         \/ UNCHANGED dsVars
         \/ ~Idle /\ \E n : Handled(n)
         \/ \E new : \/ ControllerEditsSad(new, SubscribedSad)
                     \/ ControllerEditsSpd(new, SubscribedSpd)
  PROVE  tx'.by = "thread" <=> tx.by = "thread"
<1>1. CASE UNCHANGED dsVars
  BY <1>1 DEF dsVars
<1>2. ASSUME ~Idle, NEW n, Handled(n)
      PROVE  tx'.by = tx.by
  BY <1>2, HandledCommit DEF Known, WorkInv, CommitInv
<1>3. ASSUME NEW new, \/ ControllerEditsSad(new, SubscribedSad)
                      \/ ControllerEditsSpd(new, SubscribedSpd)
      PROVE  tx.by = "nobody" /\ tx'.by = "controller"
  <2>1. Idle /\ tx'.by = "controller"
    BY <1>3 DEF ControllerEditsSad, ControllerEditsSpd
  <2>2. QED
    BY <2>1 DEF Idle, NoTx
<1>4. QED
  BY <1>1, <1>2, <1>3

\* The thread's reading, notifying and asking keeps them in agreement.
LEMMA ToldByThread ==
  ASSUME ExpiryAssumed, Known, ExpiryInv, ThreadWorks
  PROVE  Told'
<1>0. /\ Told /\ ThreadCommit /\ ThreadKnows /\ ThreadInv
      /\ evq \in Seq(Expires \cup {Other})
      /\ UNCHANGED <<sad, sadOp, ksad>>
      /\ CalmStep
  BY DEF ExpiryInv, Known, ThreadInv, ThreadTypeOK, ThreadWorks, sadVars, CalmStep
<1>1. ~ApplyDelete => (tx'.by = "thread" <=> tx.by = "thread")
  <2>1. ~ApplyDelete => UNCHANGED dsVars
    BY DEF ThreadWorks, ThreadLoses
  <2>2. QED
    BY <2>1 DEF dsVars
<1>2. CASE ReadExpire
  <2>1. /\ thr.pc = "read" /\ evq # << >> /\ evq' = Tail(evq) /\ Head(evq) # Other
        /\ thr'.pc = "notify" /\ thr'.ev = Head(evq)
    BY <1>0, <1>2, ThreadFields
  <2>2. InHand = {} /\ HardInHand = {}
    BY <1>0, <2>1 DEF InHand, HardInHand, Handling, ThreadCommit
  <2>3. InHand' = AboutId(Head(evq)) /\ HardInHand' = HardId(Head(evq))
    BY <2>1 DEF InHand, HardInHand, Handling, AboutId, HardId
  <2>4. /\ IdsAbout(evq) = AboutId(Head(evq)) \cup IdsAbout(evq')
        /\ HardIds(evq) = HardId(Head(evq)) \cup HardIds(evq')
        /\ HardIsLast(evq', SaIds) /\ HardId(Head(evq)) \cap IdsAbout(evq') = {}
    <3>1. Head(evq) \in Expires \cup {Other}
      BY <1>0, <2>1, ReadMessage
    <3>2. HardId(Head(evq)) \subseteq SaIds
      BY <2>1, <3>1, MessageKinds DEF HardId, AboutId
    <3>3. HardIsLast(evq, SaIds)
      BY <1>0 DEF Told
    <3>4. QED
      BY <1>0, <2>1, <3>2, <3>3, ReadMessage
  <2>5. Heard' = Heard /\ Gone' = Gone
    BY <2>2, <2>3, <2>4, HeardNext DEF Heard, Gone
  <2>6. QED
    BY <1>0, <2>3, <2>4, <2>5, ToldSame
<1>3. CASE ReadOther
  <2>1. /\ evq # << >> /\ evq' = Tail(evq) /\ Head(evq).kind = "other"
        /\ thr.pc = "read" /\ thr' = thr /\ ~ApplyDelete
    BY <1>3 DEF ReadOther, ApplyDelete
  <2>2. AboutId(Head(evq)) = {} /\ HardId(Head(evq)) = {}
    BY <1>0, <2>1, ReadMessage, MessageKinds DEF AboutId, HardId
  <2>3. /\ IdsAbout(evq') = IdsAbout(evq) /\ HardIds(evq') = HardIds(evq)
        /\ HardIsLast(evq', SaIds)
    <3>1. HardIsLast(evq, SaIds)
      BY <1>0 DEF Told
    <3>2. /\ IdsAbout(evq) = AboutId(Head(evq)) \cup IdsAbout(evq')
          /\ HardIds(evq) = HardId(Head(evq)) \cup HardIds(evq')
          /\ HardIsLast(evq', SaIds)
      BY <1>0, <2>1, <3>1, ReadMessage
    <3>3. QED
      BY <2>2, <3>2
  <2>4. InHand' = InHand /\ HardInHand' = HardInHand
    BY <1>1, <2>1 DEF InHand, HardInHand, Handling
  <2>5. Heard' = Heard /\ Gone' = Gone
    BY <2>3, <2>4, HeardNext DEF Heard, Gone
  <2>6. QED
    BY <1>0, <2>3, <2>4, <2>5, ToldSame DEF Told
<1>4. ASSUME evq' = evq, InHand' \subseteq InHand, HardInHand' \subseteq HardInHand,
             NothingLost => HardInHand' = HardInHand
      PROVE  Told'
  <2>1. /\ Heard' \subseteq Heard /\ Gone' \subseteq Gone
        /\ NothingLost => Gone' = Gone
    BY <1>4, HeardNext DEF Heard, Gone
  <2>2. QED
    BY <1>0, <1>4, <2>1, ToldSame DEF Told
<1>5. CASE SendExpireNotification
  <2>1. /\ thr.pc = "notify" /\ evq' = evq /\ ~ApplyDelete /\ tx.by # "thread"
        /\ \/ thr.ev.kind = "hard" /\ thr'.pc = "delete" /\ thr'.ev = thr.ev
           \/ thr.ev.kind # "hard" /\ thr'.pc = "read"
    BY <1>0, <1>5, ThreadFields DEF ApplyDelete, ThreadCommit
  <2>2. InHand' \subseteq InHand /\ HardInHand' = HardInHand
    BY <1>1, <2>1 DEF InHand, HardInHand, Handling
  <2>3. QED
    BY <1>4, <2>1, <2>2
<1>6. CASE /\ SendDeleteRequest
           /\ thr' = [thr EXCEPT !.pc = "apply", !.name = sad[Expired(thr.ev)].name]
  <2>1. /\ thr.pc = "delete" /\ evq' = evq /\ ~ApplyDelete
        /\ thr'.pc = "apply" /\ thr'.ev = thr.ev
    BY <1>0, <1>6, ThreadFields DEF SendDeleteRequest, ApplyDelete
  <2>2. InHand' = InHand /\ HardInHand' = HardInHand
    BY <1>1, <2>1 DEF InHand, HardInHand, Handling
  <2>3. QED
    BY <1>4, <2>1, <2>2
<1>7. CASE ApplyDelete
  <2>1. /\ thr.pc = "apply" /\ evq' = evq /\ thr'.pc = "commit" /\ thr'.ev = thr.ev
        /\ thr.ev.kind = "hard" /\ tx'.by = "thread"
    BY <1>0, <1>7, ThreadFields DEF ThreadKnows, ApplyDelete, ThreadDeletes
  <2>2. InHand' \subseteq InHand /\ HardInHand' = HardInHand
    BY <2>1 DEF InHand, HardInHand, Handling
  <2>3. QED
    BY <1>4, <2>1, <2>2
<1>8. CASE ApplyReturns
  <2>1. /\ thr.pc = "commit" /\ tx.by # "thread" /\ evq' = evq /\ thr'.pc = "read"
        /\ ~ApplyDelete
    BY <1>0, <1>8, ThreadFields DEF ApplyDelete
  <2>2. InHand' = InHand /\ HardInHand' = HardInHand
    BY <1>1, <2>1 DEF InHand, HardInHand, Handling
  <2>3. QED
    BY <1>4, <2>1, <2>2
<1>9. CASE ThreadLoses
  <2>1. ~NothingLost /\ ~ApplyDelete
    <3>1. tx' = tx
      BY <1>9 DEF ThreadLoses, dsVars
    <3>2. ApplyDelete => tx.by = "nobody" /\ tx'.by = "thread"
      BY DEF ApplyDelete, ThreadDeletes, Idle, NoTx
    <3>3. QED
      BY <1>9, <3>1, <3>2 DEF ThreadLoses
  <2>2. CASE thr.pc = "read" /\ evq # << >> /\ evq' = Tail(evq) /\ thr' = thr
    <3>1. InHand = {} /\ HardInHand = {} /\ InHand' = {} /\ HardInHand' = {}
      BY <1>0, <1>1, <2>1, <2>2 DEF InHand, HardInHand, Handling, ThreadCommit
    <3>2. HardIsLast(evq, SaIds)
      BY <1>0 DEF Told
    <3>3. /\ IdsAbout(evq') \subseteq IdsAbout(evq) /\ HardIds(evq') \subseteq HardIds(evq)
          /\ HardIsLast(evq', SaIds)
      BY <1>0, <2>2, <3>2, ReadMessage
    <3>4. Heard' \subseteq Heard /\ Gone' \subseteq Gone
      BY <3>1, <3>3, HeardNext DEF Heard, Gone
    <3>5. QED
      BY <1>0, <2>1, <3>1, <3>3, <3>4, ToldSame
  <2>3. CASE /\ thr.pc \in {"notify", "delete", "apply"} /\ evq' = evq
             /\ \/ thr.pc = "notify" /\ thr.ev.kind = "hard" /\ thr'.pc = "delete" /\ thr'.ev = thr.ev
                \/ thr'.pc = "read"
    <3>1. tx.by # "thread" /\ tx'.by # "thread"
      BY <1>0, <1>1, <2>1, <2>3 DEF ThreadCommit
    <3>2. InHand' \subseteq InHand /\ HardInHand' \subseteq HardInHand
      BY <2>3, <3>1 DEF InHand, HardInHand, Handling
    <3>3. QED
      BY <1>4, <2>1, <2>3, <3>2
  <2>4. QED
    BY <1>0, <1>9, <2>2, <2>3, ThreadFields
<1>10. QED
  BY <1>2, <1>3, <1>5, <1>6, <1>7, <1>8, <1>9 DEF ThreadWorks

\* So do the steps that concern neither the list, the kernel nor a message.
LEMMA ToldByOthers ==
  ASSUME Known, ExpiryInv,
         \/ SubscribeSpd \/ SubscribeSad \/ SpdCallbackWorks \/ Controller \/ UNCHANGED vars
  PROVE  Told'
<1>1. UNCHANGED <<sad, sadOp, ksad, evq, thr>>
  BY DEF SubscribeSpd, SubscribeSad, SpdCallbackWorks, Controller, vars, sadVars, threadVars
<1>2. tx'.by = "thread" <=> tx.by = "thread"
  BY ByThread
  DEF SubscribeSpd, SubscribeSad, SpdCallbackWorks, ChangeNext, Controller, vars
<1>3. QED
  BY <1>1, <1>2, HeardSame, ToldSame DEF ExpiryInv, Told

\* A queue without EXPIRE messages.
LEMMA OnlyOthers ==
  ASSUME NEW msgs, \A j \in 1..Len(msgs) : msgs[j] = Other
  PROVE  IdsAbout(msgs) = {} /\ HardIds(msgs) = {} /\ HardIsLast(msgs, SaIds)
<1>1. Messages(msgs) \subseteq {Other}
  BY DEF Messages
<1>2. HardIds(msgs) = {} /\ HardIsLast(msgs, SaIds)
  BY <1>1 DEF HardIds, HardIsLast, Other
<1>3. QED
  BY <1>1, <1>2 DEF IdsAbout

\* A registration begins with a socket of its own, and reads no EXPIRE message.
LEMMA ToldByRegister ==
  ASSUME Known, ExpiryInv, sadb_register
  PROVE  Told'
<1>0. /\ Told /\ ThreadCommit /\ Sockets
      /\ evq \in Seq(Expires \cup {Other})
      /\ UNCHANGED <<sad, sadOp, ksad, tx>>
  BY DEF ExpiryInv, Known, ThreadInv, ThreadTypeOK, sadb_register, sadVars, dsVars
<1>1. thr = Off /\ thr'.pc \in {"off", "read"}
  BY DEF sadb_register, SendRegister, ReadReply, Off, Reading
<1>2. InHand = {} /\ HardInHand = {} /\ InHand' = {} /\ HardInHand' = {}
  <2>1. thr.pc = "off" /\ tx.by # "thread"
    BY <1>0, <1>1 DEF Off, ThreadCommit
  <2>2. QED
    BY <1>0, <1>1, <2>1 DEF InHand, HardInHand, Handling
<1>3. CASE up = "sad" /\ SendRegister
  <2>1. evq' = <<Other>> \/ evq' = <<Other, Other>>
    BY <1>3 DEF SendRegister
  <2>2. \A j \in 1..Len(evq') : evq'[j] = Other
    BY <2>1
  <2>3. IdsAbout(evq') = {} /\ HardIds(evq') = {} /\ HardIsLast(evq', SaIds)
    BY <2>2, OnlyOthers
  <2>4. evq = << >>
    BY <1>0, <1>3 DEF Sockets, Registered
  <2>5. HardIds(evq) = {}
    BY <2>4, NoMessages
  <2>6. Heard' \subseteq Heard /\ Gone' = Gone
    BY <1>2, <2>3, <2>5, HeardNext DEF Gone
  <2>7. QED
    BY <1>0, <1>2, <2>3, <2>6, ToldSame
<1>4. CASE up = "reg" /\ ReadReply
  <2>1. /\ evq # << >> /\ evq' = Tail(evq) /\ Head(evq) = Other
    BY <1>0, <1>4, ReadMessage DEF ReadReply, Sockets
  <2>2. AboutId(Head(evq)) = {} /\ HardId(Head(evq)) = {}
    BY <2>1 DEF AboutId, HardId, Other
  <2>3. HardIsLast(evq, SaIds)
    BY <1>0 DEF Told
  <2>4. /\ IdsAbout(evq) = AboutId(Head(evq)) \cup IdsAbout(evq')
        /\ HardIds(evq) = HardId(Head(evq)) \cup HardIds(evq')
        /\ HardIsLast(evq', SaIds)
    BY <1>0, <2>1, <2>3, ReadMessage
  <2>5. Heard' \subseteq Heard /\ Gone' = Gone
    BY <1>2, <2>2, <2>4, HeardNext DEF Heard, Gone
  <2>6. QED
    BY <1>0, <1>2, <2>4, <2>5, ToldSame
<1>5. QED
  BY <1>3, <1>4 DEF sadb_register

\* An SA called expired is one there is a message about, unless its entry's
\* deletion is under way.
LEMMA GoneHeard ==
  ASSUME Known, tx.by # "thread"
  PROVE  Gone \subseteq Heard
<1>1. evq \in Seq(Expires \cup {Other})
  BY DEF Known, ThreadInv, ThreadTypeOK
<1>2. \A m \in Messages(evq) : m.kind = "hard" => m # Other
  BY DEF Other
<1>3. HardIds(evq) \subseteq IdsAbout(evq)
  BY <1>2 DEF HardIds, IdsAbout
<1>4. HardInHand \subseteq InHand
  BY DEF HardInHand, InHand
<1>5. QED
  BY <1>3, <1>4 DEF Gone, Heard

\* A node is linked before its SA is added.
LEMMA ToldByCreate ==
  ASSUME ExpiryAssumed, Known, ExpiryInv, NEW n \in SadNames, SadCreate(n)
  PROVE  Told'
<1> DEFINE node == [name |-> n, cfg |-> newSad[n]]
<1>0. /\ Calm /\ ThreadCommit /\ Told
      /\ sad \in Seq(SadNode) /\ Len(sad) \in Nat
  BY LenProperties DEF ExpiryInv, Known, SadTypeOK
<1>1. /\ sad' = Append(sad, node) /\ sadOp' = [op |-> "add", node |-> node] /\ ksad' = ksad
      /\ UNCHANGED <<evq, thr, tx>>
  BY DEF SadCreate, AddSadNode, SadGoesOn, SadRest, threadVars, dsVars
<1>2. /\ newSad[n] \in SadCfgsOf[n] /\ AddId(newSad[n]) \notin IdsOf(sad)
      /\ sadOp = NoSadOp /\ tx.by # "thread"
  BY <1>0, CreatedIsNew
<1>3. node \in SadNode /\ node.name = n /\ node.cfg = newSad[n]
  BY <1>2, NamesAssumption DEF SadNode
<1>4. sadOp'.op = "add" /\ sadOp'.node = node /\ sadOp' # NoSadOp
  BY <1>1 DEF NoSadOp
<1> HIDE DEF node
<1>5. /\ Len(sad') = Len(sad) + 1 /\ sad'[Len(sad) + 1] = node
      /\ \A i \in 1..Len(sad) : sad'[i] = sad[i]
  BY <1>0, <1>1, <1>3, AppendProperties
<1>6. \A i \in 1..Len(sad') : i \in 1..Len(sad) \/ sad'[i] = node
  BY <1>0, <1>5
<1>7. IdsOf(sad) \subseteq IdsOf(sad') /\ AddId(node.cfg) \in IdsOf(sad')
  BY <1>0, <1>5 DEF IdsOf
<1>8. /\ Heard' = Heard /\ Gone' = Gone /\ HardInHand' = HardInHand
      /\ HardIsLast(evq', SaIds) = HardIsLast(evq, SaIds) /\ IdsAbout(evq') = IdsAbout(evq)
  BY <1>1, HeardSame
<1>9. AddId(sadOp'.node.cfg) \in IdsOf(sad') \ (ksad \cup Heard)
  BY <1>0, <1>2, <1>3, <1>4, <1>7 DEF Told
<1>10. ASSUME NothingLost, NEW i \in 1..Len(sad')
       PROVE  AddId(sad'[i].cfg) \in ksad' \cup Gone' \/ AtWork(sadOp', sad'[i].name)
  <2>1. CASE i \in 1..Len(sad)
    BY <1>0, <1>1, <1>2, <1>5, <1>8, <1>10, <2>1 DEF Told, SadBusy
  <2>2. CASE sad'[i] = node
    BY <1>3, <1>4, <2>2 DEF AtWork
  <2>3. QED
    BY <1>6, <2>1, <2>2
<1>11. QED
  BY <1>0, <1>1, <1>7, <1>8, <1>9, <1>10, ToldNext DEF Told

\* The SA is deleted before its node is unlinked.
LEMMA ToldByDelete ==
  ASSUME ExpiryAssumed, Known, ExpiryInv, NEW n \in SadNames, DeleteBegins(n)
  PROVE  Told'
<1> DEFINE g == get_sad_node(n)
<1>0. Calm /\ ThreadCommit /\ Told /\ sad \in Seq(SadNode)
  BY DEF ExpiryInv, Known, SadTypeOK
<1>1. /\ g # 0 /\ sad' = sad /\ ksad' = ksad \ {DelId(sad[g].cfg)}
      /\ sadOp' = [op |-> "del", node |-> sad[g]] /\ sadOp = NoSadOp
      /\ UNCHANGED <<evq, thr, tx>>
  BY DEF DeleteBegins, PfDelSad, KernelForgets, SadRest, threadVars, dsVars
<1>2. g \in 1..Len(sad) /\ sad[g].name = n
  BY <1>0, <1>1, FoundNode DEF get_sad_node
<1> HIDE DEF g
<1>3. sad[g].cfg \in SadCfgsOf[n]
  BY <1>0, <1>2, NodesFollow
<1>5. sadOp'.op = "del" /\ sadOp'.node = sad[g] /\ sadOp' # NoSadOp
  BY <1>1 DEF NoSadOp
<1>6. /\ Heard' = Heard /\ Gone' = Gone /\ HardInHand' = HardInHand
      /\ HardIsLast(evq', SaIds) = HardIsLast(evq, SaIds) /\ IdsAbout(evq') = IdsAbout(evq)
  BY <1>1, HeardSame
<1>7. ASSUME NothingLost, NEW i \in 1..Len(sad)
      PROVE  AddId(sad[i].cfg) \in ksad' \cup Gone' \/ AtWork(sadOp', sad[i].name)
  <2>1. CASE AddId(sad[i].cfg) = DelId(sad[g].cfg)
    <3>1. sad[i].name \in SadNames /\ sad[i].cfg \in SadCfgsOf[sad[i].name]
      BY <1>0, NodesFollow
    <3>2. sad[i].cfg.spi = sad[g].cfg.spi
      BY <2>1 DEF AddId, DelId
    <3>3. sad[i].name = n
      BY <1>3, <3>1, <3>2 DEF ExpiryAssumed, OwnSpis
    <3>4. QED
      BY <1>2, <1>5, <3>3 DEF AtWork
  <2>2. CASE AddId(sad[i].cfg) # DelId(sad[g].cfg)
    BY <1>0, <1>1, <1>6, <1>7, <2>2 DEF Told, SadBusy
  <2>3. QED
    BY <2>1, <2>2
<1>8. QED
  BY <1>0, <1>1, <1>5, <1>6, <1>7, ToldNext DEF Told

\* The SA of a new node is added.
LEMMA ToldByAdd ==
  ASSUME ExpiryAssumed, Known, ExpiryInv, SadPfAdd
  PROVE  Told'
<1> DEFINE node == sadOp.node
<1>0. Calm /\ ThreadCommit /\ Told /\ SadWork /\ SadTypeOK
  BY DEF ExpiryInv, Known, WorkInv
<1>1. /\ sadOp.op = "add" /\ sad' = sad /\ sadOp' = NoSadOp
      /\ ksad' \subseteq ksad \cup {AddId(node.cfg)}
      /\ NothingLost => ksad' = ksad \cup {AddId(node.cfg)}
      /\ Handled(node.name) /\ UNCHANGED <<evq, thr>>
  BY DEF SadPfAdd, PfAddSad, SadGoesOn, SadRest, threadVars, NothingLost
<1>2. node.name \in SadNames /\ node.cfg \in SadCfg /\ ChangeNext("sad", node.name)
      /\ newSad[node.name] = node.cfg /\ node.cfg # ABSENT
  BY <1>0, <1>1, SadOpNode, NamesAssumption DEF SadWork, NoSadOp
<1> HIDE DEF node
<1>3. tx.by # "thread" /\ runSad[node.name] = ABSENT
  BY <1>0, <1>2, CreationIsControllers
<1>4. tx'.by = "thread" <=> tx.by = "thread"
  BY <1>1, <1>2, ByThread DEF ChangeNext
<1>5. /\ Heard' = Heard /\ Gone' = Gone /\ HardInHand' = HardInHand
      /\ HardIsLast(evq', SaIds) = HardIsLast(evq, SaIds) /\ IdsAbout(evq') = IdsAbout(evq)
  BY <1>1, <1>4, HeardSame
<1>6. AddId(node.cfg) \in IdsOf(sad) \ Gone
  BY <1>0, <1>1, <1>3, GoneHeard DEF Told, node
<1>7. ASSUME NothingLost, NEW i \in 1..Len(sad)
      PROVE  AddId(sad[i].cfg) \in ksad' \cup Gone'
  <2>1. CASE sad[i].name = node.name
    <3>1. sad[i].cfg \in {runSad[node.name], newSad[node.name]} /\ sad[i].cfg \in SadCfgsOf[node.name]
      BY <1>0, <2>1, NodesFollow
    <3>2. sad[i].cfg = node.cfg
      BY <1>2, <1>3, <3>1, NamesAssumption
    <3>3. QED
      BY <1>1, <1>7, <3>2
  <2>2. CASE sad[i].name # node.name
    BY <1>0, <1>1, <1>5, <1>7, <2>2 DEF Told, SadBusy, node
  <2>3. QED
    BY <2>1, <2>2
<1>8. sadOp'.op # "add"
  BY <1>1 DEF NoSadOp
<1>9. QED
  BY <1>0, <1>1, <1>5, <1>6, <1>7, <1>8, ToldNext DEF Told

\* The node goes with the thread's deletion.
LEMMA ToldByUnlink ==
  ASSUME ExpiryAssumed, Known, ExpiryInv, SadUnlink
  PROVE  Told'
<1> DEFINE n == sadOp.node.name
           g == GetNode(sad, n)
<1>0. /\ Calm /\ ThreadCommit /\ Told /\ SadWork /\ SadTypeOK /\ sad \in Seq(SadNode)
  BY DEF ExpiryInv, Known, WorkInv, SadTypeOK
<1>1. /\ sadOp.op = "del" /\ sadOp # NoSadOp /\ g # 0
      /\ sad' = DelNode(sad, n) /\ sadOp' = NoSadOp /\ ksad' = ksad
      /\ Handled(n) /\ UNCHANGED <<evq, thr>>
  BY DEF SadUnlink, DelSadNode, get_sad_node, SadGoesOn, SadRest, threadVars, NoSadOp
<1>2. n \in SadNames /\ ChangeNext("sad", n) /\ newSad[n] = ABSENT
  BY <1>0, <1>1, SadOpNode DEF SadWork
<1>3. g \in 1..Len(sad) /\ sad[g].name = n
  BY <1>0, <1>1, FoundNode
<1>4. PICK from \in [1..Len(DelNode(sad, n)) -> 1..Len(sad)] :
           /\ \A j \in 1..Len(DelNode(sad, n)) :
                from[j] # g /\ DelNode(sad, n)[j] = sad[from[j]]
           /\ \A i \in 1..Len(sad) :
                i # g => \E j \in 1..Len(DelNode(sad, n)) : from[j] = i
  BY <1>0, <1>1, UnlinkedOthers
<1>5. /\ \A j \in 1..Len(sad') :
           from[j] \in 1..Len(sad) /\ from[j] # g /\ sad'[j] = sad[from[j]]
      /\ \A i \in 1..Len(sad) : i # g => \E j \in 1..Len(sad') : sad'[j] = sad[i]
  BY <1>1, <1>4
<1>6. /\ tx.by = "thread" /\ thr.pc = "commit" /\ thr.ev.kind = "hard"
      /\ runSad[n] # ABSENT /\ AddId(runSad[n]) = thr.ev.id
  BY <1>0, <1>2, DeletionIsThreads
<1> HIDE DEF g, n
<1>7. sad[g].cfg = runSad[n]
  <2>1. sad[g].cfg \in {runSad[n], newSad[n]} /\ sad[g].cfg \in SadCfgsOf[n]
    BY <1>0, <1>3, NodesFollow
  <2>2. QED
    BY <1>2, <2>1, NamesAssumption
<1>8. InHand = {} /\ HardInHand = {thr.ev.id}
  BY <1>6 DEF InHand, HardInHand, Handling
<1>9. tx'.by = "thread" <=> tx.by = "thread"
  BY <1>1, <1>2, ByThread DEF ChangeNext
<1>10. /\ Heard' = Heard /\ Gone' = Gone /\ HardInHand' = HardInHand
       /\ HardIsLast(evq', SaIds) = HardIsLast(evq, SaIds) /\ IdsAbout(evq') = IdsAbout(evq)
  BY <1>1, <1>9, HeardSame
<1>11. thr.ev.id \notin ksad \cup Heard
  BY <1>0, <1>8 DEF Told, Heard, Gone
<1>12. ksad \cup Heard \subseteq IdsOf(sad')
  <2>1. ASSUME NEW k \in ksad \cup Heard
        PROVE  k \in IdsOf(sad')
    <3>1. PICK i \in 1..Len(sad) : AddId(sad[i].cfg) = k
      BY <1>0, <2>1 DEF Told, IdsOf
    <3>2. i # g
      BY <1>6, <1>7, <1>11, <2>1, <3>1
    <3>3. PICK j \in 1..Len(sad') : sad'[j] = sad[i]
      BY <1>5, <3>2
    <3>4. QED
      BY <3>1, <3>3 DEF IdsOf
  <2>2. QED
    BY <2>1
<1>13. ASSUME NothingLost, NEW j \in 1..Len(sad')
       PROVE  AddId(sad'[j].cfg) \in ksad' \cup Gone'
  <2>1. from[j] \in 1..Len(sad) /\ from[j] # g /\ sad'[j] = sad[from[j]]
    BY <1>5
  <2>2. sad[from[j]].name # n
    BY <1>0, <1>3, <2>1, NodesFollow DEF Once
  <2>3. ~SadBusy(sad[from[j]].name)
    BY <2>2 DEF SadBusy, n
  <2>4. QED
    BY <1>0, <1>1, <1>10, <1>13, <2>1, <2>3 DEF Told
<1>14. sadOp'.op # "add"
  BY <1>1 DEF NoSadOp
<1>15. QED
  BY <1>0, <1>1, <1>10, <1>12, <1>13, <1>14, ToldNext DEF Told

\* The deletion is over, and its node is gone.
LEMMA ToldByCommit ==
  ASSUME ExpiryAssumed, Known, ExpiryInv, CommitDone
  PROVE  Told'
<1>0. /\ Calm /\ ThreadCommit /\ Told /\ SadWork
      /\ UNCHANGED <<sad, sadOp, ksad, evq, thr>>
      /\ ~Idle /\ tx.todo = {} /\ tx' = NoTx
  BY DEF ExpiryInv, Known, WorkInv, CommitDone, Commit, sadVars, threadVars
<1>1. tx'.by # "thread"
  BY <1>0 DEF NoTx
<1>2. CASE tx.by # "thread"
  BY <1>0, <1>1, <1>2, HeardSame, ToldSame DEF Told
<1>3. CASE tx.by = "thread"
  <2>1. /\ thr.pc = "commit" /\ thr.ev.kind = "hard" /\ tx.list = "sad"
        /\ runSad[thr.name] # ABSENT /\ AddId(runSad[thr.name]) = thr.ev.id
        /\ newSad[thr.name] = ABSENT /\ thr.name \notin astraySad
    BY <1>0, <1>3 DEF ThreadCommit
  <2>2. /\ InHand = {} /\ InHand' = {} /\ HardInHand = {thr.ev.id} /\ HardInHand' = {}
    BY <1>0, <1>1, <1>3, <2>1 DEF InHand, HardInHand, Handling
  <2>3. /\ IdsAbout(evq') = IdsAbout(evq) /\ HardIds(evq') = HardIds(evq)
        /\ HardIsLast(evq', SaIds)
    BY <1>0 DEF Told
  <2>4. Heard' = Heard /\ Gone' \cup {thr.ev.id} = Gone
    BY <2>2, <2>3, HeardNext DEF Heard, Gone
  <2>5. sadOp = NoSadOp
    BY <1>0 DEF SadWork, ChangeNext
  <2>6. thr.name \in SadNames /\ thr.name \in DOMAIN runSad
    BY <2>1 DEF Known, ThreadInv, ThreadTypeOK, Given
  <2>7. ASSUME NEW i \in 1..Len(sad)
        PROVE  AddId(sad[i].cfg) # thr.ev.id
    <3>1. /\ SubscribedSad /\ sad[i].name \in SadNames
          /\ sad[i].cfg \in SadCfgsOf[sad[i].name]
      BY <1>0, NodesFollow
    <3>2. thr.name \notin NamesIn(sad)
      <4>1. SadTarget(thr.name) = ABSENT /\ ~SadBusy(thr.name)
        BY <1>0, <2>1, <2>5 DEF SadTarget, SadBusy
      <4>2. QED
        BY <2>1, <2>6, <3>1, <4>1, EntriesFollow
    <3>3. runSad[thr.name] \in SadCfgsOf[thr.name]
      BY <2>1, <2>6 DEF Known, Given
    <3>4. AddId(sad[i].cfg) = AddId(runSad[thr.name]) => sad[i].name = thr.name
      BY <2>6, <3>1, <3>3, OwnIds
    <3>5. QED
      BY <2>1, <3>2, <3>4 DEF NamesIn
  <2>8. ASSUME NothingLost, NEW i \in 1..Len(sad)
        PROVE  AddId(sad[i].cfg) \in ksad \cup Gone'
    <3>1. AddId(sad[i].cfg) \in ksad \cup Gone
      BY <1>0, <2>5, <2>8 DEF Told, SadBusy
    <3>2. QED
      BY <2>4, <2>7, <3>1
  <2>9. sadOp'.op # "add"
    BY <1>0, <2>5 DEF NoSadOp
  <2>10. QED
    BY <1>0, <2>2, <2>3, <2>4, <2>8, <2>9, ToldNext DEF Told
<1>4. QED
  BY <1>2, <1>3

\* The kernel expires an SA with a node, and says so on the socket.
LEMMA ToldByKernel ==
  ASSUME Known, ExpiryInv, NEW k \in SaIds, KernelExpires(k)
  PROVE  Told'
<1>0. /\ Calm /\ Told /\ evq \in Seq(Expires \cup {Other})
  BY DEF ExpiryInv, Known, ThreadInv, ThreadTypeOK
<1>1. PICK s \in {"soft", "hard"} :
        /\ Tell([kind |-> s, id |-> k])
        /\ \/ s = "soft" /\ ksad' = ksad
           \/ s = "hard" /\ ksad' = ksad \ {k}
  BY DEF KernelExpires, SoftExpire, HardExpire, KernelForgets
<1>2. k \in ksad /\ UNCHANGED <<sad, sadOp, tx, thr>>
  BY DEF KernelExpires, SoftExpire, HardExpire, KernelForgets, Tell, dsVars
<1>3. k \in IdsOf(sad) /\ k \notin Gone
  BY <1>0, <1>2 DEF Told
<1>4. SubscribedSad
  <2>1. sad # << >>
    BY <1>3 DEF IdsOf
  <2>2. QED
    BY <2>1 DEF Known, WorkInv, SadWork
<1>5. InHand' = InHand /\ HardInHand' = HardInHand
  BY <1>2 DEF InHand, HardInHand, Handling
<1> DEFINE ev == [kind |-> s, id |-> k]
<1>6. ev \in Expires \cup {Other}
  BY DEF Expires
<1>7. AboutId(ev) = {k} /\ HardId(ev) = IF s = "hard" THEN {k} ELSE {}
  BY DEF AboutId, HardId, Other
<1>8. evq' = Append(evq, ev) \/ (evq' = evq /\ ~NothingLost)
  <2>1. CASE Registered
    BY <1>1, <2>1 DEF Tell, Deliver, NothingLost
  <2>2. CASE ~Registered
    <3>1. up = "sad" /\ evq' = evq
      BY <1>1, <1>4, <2>2 DEF Tell, SubscribedSad, Registered
    <3>2. QED
      BY <3>1 DEF KernelExpires, NothingLost
  <2>3. QED
    BY <2>1, <2>2
<1> HIDE DEF ev
<1>9. /\ IdsAbout(evq') \subseteq IdsAbout(evq) \cup {k}
      /\ HardIds(evq') \subseteq HardIds(evq) \cup HardId(ev)
      /\ NothingLost => HardIds(evq') = HardIds(evq) \cup HardId(ev)
  BY <1>0, <1>6, <1>7, <1>8, QueuedMessage
<1>10. HardIsLast(evq', SaIds)
  <2>1. HardIsLast(evq, SaIds) /\ AboutId(ev) \cap HardIds(evq) = {}
    BY <1>0, <1>3, <1>7 DEF Told, Gone
  <2>2. QED
    BY <1>0, <1>6, <1>8, <2>1, QueuedMessage
<1>11. /\ Heard' \subseteq Heard \cup {k} /\ Gone' \subseteq Gone \cup HardId(ev)
       /\ NothingLost => Gone' = Gone \cup HardId(ev)
  BY <1>5, <1>9, HeardNext DEF Heard, Gone
<1>12. Gone' \cap ksad' = {}
  BY <1>0, <1>1, <1>3, <1>7, <1>11 DEF Told
<1>13. HardInHand' \cap IdsAbout(evq') = {}
  BY <1>0, <1>3, <1>5, <1>9 DEF Told, Gone
<1>14. sadOp'.op = "add" => AddId(sadOp'.node.cfg) \in IdsOf(sad') \ (ksad' \cup Heard')
  BY <1>0, <1>1, <1>2, <1>11 DEF Told
<1>15. ASSUME NothingLost, NEW i \in 1..Len(sad')
       PROVE  AddId(sad'[i].cfg) \in ksad' \cup Gone' \/ AtWork(sadOp', sad'[i].name)
  <2>1. AddId(sad[i].cfg) \in ksad \cup Gone \/ SadBusy(sad[i].name)
    BY <1>0, <1>2, <1>15 DEF Told
  <2>2. QED
    BY <1>1, <1>2, <1>7, <1>11, <1>15, <2>1 DEF SadBusy, AtWork
<1>16. ksad' \cup Heard' \subseteq IdsOf(sad')
  BY <1>0, <1>1, <1>2, <1>3, <1>11 DEF Told
<1>17. QED
  BY <1>10, <1>12, <1>13, <1>14, <1>15, <1>16, ToldNext

\* The kernel says something else on the socket.
LEMMA ToldByNoise ==
  ASSUME Known, ExpiryInv, KernelTellsOther
  PROVE  Told'
<1>0. /\ Told /\ evq \in Seq(Expires \cup {Other}) /\ Deliver(Other)
      /\ UNCHANGED <<sad, sadOp, ksad, tx, thr>>
  BY DEF ExpiryInv, Known, ThreadInv, ThreadTypeOK, KernelTellsOther, sadVars, dsVars
<1>1. AboutId(Other) = {} /\ HardId(Other) = {}
  BY DEF AboutId, HardId, Other
<1>2. /\ IdsAbout(evq') = IdsAbout(evq) /\ HardIds(evq') = HardIds(evq)
      /\ HardIsLast(evq', SaIds)
  <2>1. HardIsLast(evq, SaIds)
    BY <1>0 DEF Told
  <2>2. CASE evq' = Append(evq, Other)
    BY ZenonT(30), <1>0, <1>1, <2>1, <2>2, QueuedMessage
  <2>3. CASE evq' = evq
    BY <2>1, <2>3
  <2>4. QED
    BY <1>0, <2>2, <2>3 DEF Deliver
<1>3. InHand' = InHand /\ HardInHand' = HardInHand
  BY <1>0 DEF InHand, HardInHand, Handling
<1>4. Heard' = Heard /\ Gone' = Gone
  BY <1>2, <1>3, HeardNext DEF Heard, Gone
<1>5. QED
  BY <1>0, <1>2, <1>3, <1>4, ToldSame DEF Told

\* Messages, kernel and list still agree after every calm step.
LEMMA ToldKept ==
  ASSUME ExpiryAssumed, Known, ExpiryInv, CalmStep
  PROVE  Told'
BY ToldByOthers, ToldByRegister, ToldByCreate, ToldByDelete, ToldByAdd, ToldByUnlink,
   ToldByThread, ToldByCommit, ToldByKernel, ToldByNoise
DEF CalmStep

-----------------------------------------------------------------------------
(* What follows *)

\* The expiry's invariant holds in every run.
LEMMA ExpiryInvCorrect ==
  ASSUME ExpiryAssumed
  PROVE  Spec => [](Known /\ ExpiryInv)
<1>1. Init => ExpiryInv
  <2> SUFFICES ASSUME Init PROVE ExpiryInv
    OBVIOUS
  <2>1. /\ sad = << >> /\ sadOp = NoSadOp /\ ksad = {} /\ strays = {} /\ evq = << >>
        /\ thr = Off /\ tx = NoTx /\ up = "down" /\ astraySad = {}
    BY DEF Init, SadInit, DsInit, ThreadInit
  <2>2. tx.by = "nobody" /\ thr.pc = "off" /\ thr.rc = "ok"
    BY <2>1 DEF NoTx, Off
  <2>3. InHand = {} /\ HardInHand = {}
    BY <2>2 DEF InHand, HardInHand, Handling
  <2>4. IdsAbout(evq) = {} /\ HardIds(evq) = {} /\ HardIsLast(evq, SaIds)
    BY <2>1, NoMessages
  <2>5. Told
    BY <2>1, <2>3, <2>4 DEF Told, Heard, Gone, NoSadOp
  <2>6. Calm /\ ThreadCommit /\ ThreadKnows /\ Sockets
    BY <2>1, <2>2 DEF Calm, ThreadCommit, ThreadKnows, Sockets, Registered
  <2>7. QED
    BY <2>5, <2>6 DEF ExpiryInv
<1>2. Known /\ ExpiryInv /\ [Next]_vars => ExpiryInv'
  BY OnlyCalmSteps, CalmKept, ThreadCommitKept, ThreadKnowsKept, SocketsKept, ToldKept
  DEF ExpiryInv
<1>3. QED
  BY <1>1, <1>2, KnownCorrect, PTL DEF Spec

(***************************************************************************)
(* No node is left behind by the expiry of its SA: while the socket is     *)
(* registered, a node whose SA is gone from the kernel is at work in the   *)
(* callback, or a message about the expiry waits or is in the thread's     *)
(* hand.                                                                   *)
(***************************************************************************)
THEOREM ExpiredNodePendingCorrect ==
  ASSUME ExpiryAssumed, NothingLost
  PROVE  Spec => []ExpiredNodePending
<1>1. Known /\ ExpiryInv => ExpiredNodePending
  <2> SUFFICES ASSUME Known, ExpiryInv, NEW k \in Gone
               PROVE  ExpiryPending(k)
    BY DEF ExpiryInv, Told, ExpiredNodePending
  <2>0. /\ evq \in Seq(Expires \cup {Other}) /\ ThreadTypeOK /\ ThreadCommit
    BY DEF Known, ThreadInv, ThreadTypeOK, ExpiryInv
  <2>1. ASSUME NEW ev \in Expires \cup {Other}, ev.kind = "hard", ev.id = k
        PROVE  ev = HardFor(k)
    BY <2>1 DEF Expires, Other, HardFor
  <2>2. CASE k \in HardIds(evq)
    <3>1. PICK j \in 1..Len(evq) : evq[j].kind = "hard" /\ evq[j].id = k
      BY <2>2 DEF HardIds, Messages
    <3>2. evq[j] \in Expires \cup {Other}
      BY <2>0, ElementOfSeq
    <3>3. QED
      BY <2>1, <3>1, <3>2 DEF ExpiryPending
  <2>3. CASE k \in HardInHand
    <3>1. /\ thr.pc \in {"notify", "delete", "apply", "commit"}
          /\ thr.ev.kind = "hard" /\ thr.ev.id = k
      BY <2>0, <2>3 DEF HardInHand, Handling, ThreadCommit
    <3>2. thr.ev \in Expires
      BY <2>0, <3>1 DEF ThreadTypeOK
    <3>3. QED
      BY <2>1, <3>1, <3>2 DEF ExpiryPending
  <2>4. QED
    BY <2>2, <2>3 DEF Gone
<1>2. QED
  BY <1>1, ExpiryInvCorrect, PTL

-----------------------------------------------------------------------------
(***************************************************************************)
(* From here on the controller deletes, changes and replaces entries as it *)
(* likes, commits fail and are undone, and the process may end and start   *)
(* again.  What can still be said of an entry, unless it is an orphan, is  *)
(* InOrder; it is kept because an entry whose node goes while something is *)
(* heard of it is noted in orphans by that very step or before.            *)
(***************************************************************************)

(* Whom the thread's messages are about *)

\* The SAs of entry n.
SasOf(n) == {k \in SaIds : k[2] \in SpisOf(n)}

\* Nor is an SPI that of an entry and of another program's SA.
OwnSas ==
  /\ OwnSpis
  /\ \A k \in ForeignIds, n \in SadNames : k[2] \notin SpisOf(n)

\* The SAs that the kernel has and those there are messages about.
Stirring == ksad \cup Heard

\* The SA whose hard expiry the thread has in hand, and all those that
\* messages call expired.
HardHeld == IF Handling /\ thr.ev.kind = "hard" THEN {thr.ev.id} ELSE {}

Finished == HardIds(evq) \cup HardHeld

\* Entry n has a node for SA k.
HasNode(list, n, k) == \E i \in 1..Len(list) : list[i].name = n /\ AddId(list[i].cfg) = k

\* The callback has not handled the creation of entry n, or its deletion is
\* under way or over.
Leaving(n) ==
  \/ runSad[n] = ABSENT /\ (newSad[n] # ABSENT => ~Idle /\ n \in tx.todo)
  \/ runSad[n] # ABSENT /\ newSad[n] = ABSENT

\* Everything that is heard of entry n is about one SA, which has its node;
\* once a message calls it expired it is not in the kernel and no message
\* follows; and nothing is heard of an entry that is not there.
InOrder(n) ==
  /\ \A k \in Stirring \cap SasOf(n) : HasNode(sad, n, k)
  /\ \A k, l \in Stirring \cap SasOf(n) : k = l
  /\ Finished \cap ksad \cap SasOf(n) = {}
  /\ HardIsLast(evq, SasOf(n))
  /\ HardHeld \cap IdsAbout(evq) \cap SasOf(n) = {}
  /\ Leaving(n) => Stirring \cap SasOf(n) = {}

\* The thread asks for the deletion of an entry of the expired SA, whose
\* commit takes that entry away.
ThreadAims ==
  /\ thr.pc \in {"delete", "apply"} => thr.ev.kind = "hard"
  /\ thr.pc = "apply" => thr.ev.id[2] \in SpisOf(thr.name)
  /\ tx.by = "thread" =>
       thr.pc = "commit" /\ runSad[thr.name] # ABSENT /\ newSad[thr.name] = ABSENT

\* addSAD_entry adds the SA of an entry that is new and has its node.
Adding ==
  sadOp.op = "add" =>
    /\ runSad[sadOp.node.name] = ABSENT
    /\ HasNode(sad, sadOp.node.name, AddId(sadOp.node.cfg))

OrphanInv == ThreadAims /\ Adding /\ \A n \in SadNames \ orphans : InOrder(n)

\* The messages and the SAs are what they are.
LEMMA StirringSas ==
  ASSUME Known
  PROVE  /\ evq \in Seq(Expires \cup {Other}) /\ thr \in Threads
         /\ Handling => thr.ev \in Expires
         /\ \A i \in 1..Len(evq) : /\ evq[i] \in Expires \cup {Other}
                                   /\ evq[i] # Other => evq[i].id \in IdsAbout(evq)
         /\ Stirring \subseteq SaIds /\ Finished \subseteq Heard
<1>1. /\ evq \in Seq(Expires \cup {Other}) /\ thr \in Threads /\ ksad \subseteq SaIds
      /\ Handling => thr.ev \in Expires
  BY DEF Known, ThreadInv, ThreadTypeOK, Threads, Handling, SadTypeOK
<1>2. \A i \in 1..Len(evq) : /\ evq[i] \in Expires \cup {Other}
                             /\ evq[i] # Other => evq[i].id \in IdsAbout(evq)
  BY <1>1, ElementOfSeq DEF IdsAbout, Messages
<1>3. IdsAbout(evq) \subseteq SaIds /\ HardIds(evq) \subseteq IdsAbout(evq)
  BY <1>2, MessageKinds DEF IdsAbout, HardIds, Messages
<1>4. InHand \subseteq SaIds /\ HardHeld \subseteq InHand
  BY <1>1, MessageKinds DEF InHand, HardHeld
<1>5. QED
  BY <1>1, <1>2, <1>3, <1>4 DEF Stirring, Finished, Heard

\* Nothing is heard of an entry that is settled.
LEMMA SettledIsInOrder ==
  ASSUME Known', NEW n \in SadNames, Settled(n)'
  PROVE  InOrder(n)'
<1>1. /\ evq' \in Seq(Expires \cup {Other}) /\ ksad' \subseteq SaIds
      /\ Handling' => thr'.ev \in Expires
  BY DEF Known, ThreadInv, ThreadTypeOK, Handling, SadTypeOK
<1>2. \A i \in 1..Len(evq') : evq'[i] \in Expires \cup {Other}
  BY <1>1, ElementOfSeq
<1> DEFINE Q == IdsAbout(evq')
<1>3. ksad' \cap SasOf(n) = {}
  BY DEF Settled, SasOf
<1>4. Q \cap SasOf(n) = {}
  BY DEF Settled, SasOf, IdsAbout, Messages
<1>5. InHand' \cap SasOf(n) = {}
  BY DEF Settled, SasOf, InHand, Handling
<1>6. HardIds(evq') \subseteq Q /\ IdsAbout(evq)' = Q /\ HardIds(evq)' = HardIds(evq')
  BY <1>2, MessageKinds DEF IdsAbout, HardIds, Messages
<1>7. HardHeld' \subseteq InHand'
  BY DEF HardHeld, InHand
<1>8. HardIsLast(evq', SasOf(n))
  <2>1. ASSUME NEW i \in 1..Len(evq'), evq'[i].kind = "hard"
        PROVE  evq'[i].id \in HardIds(evq')
    BY <2>1 DEF HardIds, Messages
  <2>2. QED
    BY <1>4, <1>6, <2>1 DEF HardIsLast
<1>9. SasOf(n)' = SasOf(n) /\ (HardIsLast(evq, SasOf(n))' <=> HardIsLast(evq', SasOf(n)))
  BY DEF SasOf, SpisOf, HardIsLast
<1> HIDE DEF Q
<1>10. (Stirring \cap SasOf(n))' = {}
  BY <1>3, <1>4, <1>5, <1>6, <1>9 DEF Stirring, Heard
<1>11. (Finished \cap ksad \cap SasOf(n))' = {} /\ (HardHeld \cap IdsAbout(evq) \cap SasOf(n))' = {}
  BY <1>3, <1>4, <1>5, <1>6, <1>7, <1>9 DEF Finished
<1>12. QED
  BY <1>8, <1>9, <1>10, <1>11 DEF InOrder

\* What an entry that is neither an orphan nor settled has been spared.
LEMMA Spared ==
  ASSUME [Next /\ NoteOrphans]_orphanVars, NEW n \in SadNames, n \notin orphans', ~Settled(n)'
  PROVE  n \notin orphans /\ ~TakenAway(n) /\ ~CreationUndone(n) /\ ~NodesLost
<1>1. CASE NoteOrphans
  BY <1>1 DEF NoteOrphans
<1>2. CASE UNCHANGED orphanVars
  <2>1. orphans' = orphans /\ commits' = commits /\ tx' = tx /\ up' = up
    BY <1>2 DEF orphanVars, vars, dsVars, mainVars
  <2>2. QED
    BY <2>1 DEF TakenAway, CreationUndone, NodesLost, Idle
<1>3. QED
  BY <1>1, <1>2

\* Only the thread takes an entry away that it has been spared.
LEMMA LeavingKept ==
  ASSUME CommitInv, DatastoreStep, NEW n \in SadNames, ~TakenAway(n), ~CreationUndone(n),
         Leaving(n)'
  PROVE  Leaving(n) \/ (ApplyDelete /\ n = thr.name)
<1>0. /\ DsTypeOK /\ (Idle => newSad = runSad) /\ n \in DOMAIN runSad
      /\ commits \in Nat
  BY DEF CommitInv, DsTypeOK, SadConfigs
<1>1. CASE UNCHANGED dsVars
  BY <1>1 DEF Leaving, dsVars, Idle
<1>2. ASSUME ~Idle, NEW m, Handled(m)
      PROVE  Leaving(n)
  <2>1. tx' # NoTx /\ tx'.todo \subseteq tx.todo
    BY <1>0, <1>2, HandledCommit
  <2>2. QED
    BY <1>2, <2>1 DEF Handled, Leaving, Idle
<1>3. CASE TimesOut
  <2>1. tx' # NoTx /\ tx'.todo = tx.todo /\ ~Idle
    BY <1>0, <1>3, TimedOutCommit DEF TimesOut
  <2>2. QED
    BY <1>3, <2>1 DEF TimesOut, Leaving, Idle
<1>4. CASE Commit
  BY <1>4 DEF Commit, Leaving, Idle
<1>5. CASE Abort
  BY <1>0, <1>5 DEF Abort, Leaving, CreationUndone, Idle
<1>6. ASSUME NEW new \in SadWanted, ControllerEditsSad(new, SubscribedSad)
      PROVE  Leaving(n)
  <2>1. commits' # commits /\ newSad' = new /\ runSad' = runSad /\ Idle
    BY <1>0, <1>6 DEF ControllerEditsSad
  <2>2. QED
    BY <1>0, <2>1 DEF Leaving, TakenAway
<1>7. ASSUME NEW new \in SpdWanted, ControllerEditsSpd(new, SubscribedSpd)
      PROVE  Leaving(n)
  <2>1. newSad' = newSad /\ runSad' = runSad /\ Idle
    BY <1>0, <1>7 DEF ControllerEditsSpd
  <2>2. QED
    BY <1>0, <2>1 DEF Leaving
<1>8. ASSUME NEW m \in SadNames, ThreadDeletes(m), m # n
      PROVE  Leaving(n)
  <2>1. newSad'[n] = newSad[n] /\ runSad' = runSad /\ Idle
    BY <1>0, <1>8 DEF ThreadDeletes
  <2>2. QED
    BY <1>0, <2>1 DEF Leaving
<1>9. QED
  BY <1>1, <1>2, <1>3, <1>4, <1>5, <1>6, <1>7, <1>8 DEF DatastoreStep

\* What keeps an entry in order.
LEMMA InOrderNext ==
  ASSUME NEW n \in SadNames, InOrder(n),
         \A k \in SaIds : HasNode(sad, n, k) => HasNode(sad', n, k),
         (ksad' \cup Heard') \cap SasOf(n) \subseteq Stirring,
         Finished' \cap ksad' \cap SasOf(n) = {},
         HardIsLast(evq', SasOf(n)),
         HardHeld' \cap IdsAbout(evq') \cap SasOf(n) = {},
         Leaving(n)' => Leaving(n)
  PROVE  InOrder(n)'
<1>1. SasOf(n)' = SasOf(n) /\ (HardIsLast(evq, SasOf(n))' <=> HardIsLast(evq', SasOf(n)))
  BY DEF SasOf, SpisOf, HardIsLast
<1>2. IdsAbout(evq)' = IdsAbout(evq') /\ \A k : HasNode(sad, n, k)' <=> HasNode(sad', n, k)
  BY DEF IdsAbout, Messages, HasNode
<1>3. Stirring' \cap SasOf(n) \subseteq Stirring \cap SasOf(n) /\ SasOf(n) \subseteq SaIds
  BY DEF Stirring, SasOf
<1>4. ASSUME NEW k \in Stirring' \cap SasOf(n)
      PROVE  HasNode(sad', n, k)
  BY <1>3 DEF InOrder
<1>5. ASSUME NEW k \in Stirring' \cap SasOf(n), NEW l \in Stirring' \cap SasOf(n)
      PROVE  k = l
  BY <1>3 DEF InOrder
<1>6. Leaving(n)' => Stirring' \cap SasOf(n) = {}
  BY <1>3 DEF InOrder
<1>7. QED
  BY <1>1, <1>2, <1>4, <1>5, <1>6 DEF InOrder

-----------------------------------------------------------------------------
(* The thread *)

\* What a step of the thread does to its message.
LEMMA ThreadMoves ==
  ASSUME Known, ThreadAims, pf_sadb_esp_register_run
  PROVE  \/ /\ thr.pc = "read" /\ evq # << >> /\ evq' = Tail(evq) /\ tx' = tx
            /\ \/ thr' = thr
               \/ thr'.pc = "notify" /\ thr'.ev = Head(evq) /\ Head(evq) # Other
         \/ /\ evq' = evq /\ tx' = tx /\ (thr.pc = "commit" => tx.by # "thread")
            /\ thr.pc \in {"notify", "delete", "apply", "commit"}
            /\ \/ thr'.pc = "read"
               \/ /\ Handling /\ thr'.pc = "delete" /\ thr'.ev = thr.ev
                  /\ thr.ev.kind = "hard"
               \/ /\ Handling /\ thr'.pc = "apply" /\ thr'.ev = thr.ev
                  /\ thr.ev.kind = "hard" /\ Expired(thr.ev) # 0
                  /\ thr'.name = sad[Expired(thr.ev)].name
         \/ /\ ApplyDelete /\ thr.pc = "apply" /\ evq' = evq
            /\ thr'.pc = "commit" /\ thr'.ev = thr.ev /\ thr'.name = thr.name
<1>0. ThreadInv /\ thr \in Threads
  BY StirringSas DEF Known
<1>1. thr = [pc |-> thr.pc, rc |-> thr.rc, ev |-> thr.ev, name |-> thr.name]
  BY <1>0 DEF Threads
<1>2. CASE ReadExpire /\ UNCHANGED dsVars
  BY <1>0, <1>2, ThreadFields DEF dsVars
<1>3. CASE (ReadNotRemove \/ ReadOther) /\ UNCHANGED dsVars
  BY <1>3 DEF ReadNotRemove, ReadOther, dsVars
<1>4. CASE (SendExpireNotification \/ NotifyFails \/ ExpireNotFound) /\ UNCHANGED dsVars
  <2>1. /\ thr.pc = "notify" /\ evq' = evq /\ tx' = tx
        /\ \E rc \in {"ok", "failed"} : AfterNotify(rc)
    BY <1>4 DEF SendExpireNotification, NotifyFails, ExpireNotFound, dsVars
  <2>2. PICK rc \in {"ok", "failed"} : AfterNotify(rc)
    BY <2>1
  <2>3. CASE thr.ev.kind = "hard"
    <3>1. thr' = [pc |-> "delete", rc |-> rc, ev |-> thr.ev, name |-> thr.name]
      BY <1>1, <2>2, <2>3 DEF AfterNotify
    <3>2. QED
      BY <2>1, <2>3, <3>1 DEF Handling
  <2>4. CASE thr.ev.kind # "hard"
    <3>1. thr'.pc = "read"
      BY <2>2, <2>4 DEF AfterNotify, Reading
    <3>2. QED
      BY <2>1, <3>1
  <2>5. QED
    BY <2>3, <2>4
<1>5. CASE SendDeleteRequest /\ UNCHANGED dsVars
  <2>1. thr.pc = "delete" /\ evq' = evq /\ tx' = tx /\ thr.ev.kind = "hard" /\ Handling
    BY <1>5 DEF SendDeleteRequest, dsVars, ThreadAims, Handling
  <2>2. CASE thr' = Reading(thr.rc)
    BY <2>1, <2>2 DEF Reading
  <2>3. CASE /\ Expired(thr.ev) # 0
             /\ thr' = [thr EXCEPT !.pc = "apply", !.name = sad[Expired(thr.ev)].name]
    BY <1>1, <2>1, <2>3
  <2>4. QED
    BY <1>5, <2>2, <2>3 DEF SendDeleteRequest
<1>6. CASE ApplyReturns /\ UNCHANGED dsVars
  BY <1>6 DEF ApplyReturns, Reading, dsVars
<1>7. CASE ApplyDelete
  BY <1>0, <1>7, ThreadFields
<1>8. CASE ApplyNothing
  BY <1>8 DEF ApplyNothing, Reading, dsVars
<1>9. QED
  BY <1>2, <1>3, <1>4, <1>5, <1>6, <1>7, <1>8 DEF pf_sadb_esp_register_run

\* The node the thread finds is one of the entry the message is about.
LEMMA FoundIsOwn ==
  ASSUME Known, Handling, Expired(thr.ev) # 0
  PROVE  thr.ev.id[2] \in SpisOf(sad[Expired(thr.ev)].name)
<1> DEFINE s == thr.ev.id[2]
<1>1. s \in Spis
  <2>1. thr.ev \in Expires
    BY StirringSas
  <2>2. QED
    BY <2>1 DEF Expires, SaIds
<1>2. PICK f \in 1..Len(sad) : f = Expired(thr.ev) /\ sad[f].cfg.spi = EventSpi(s)
  BY GetNodeBySpiFinds DEF Expired, get_sad_node_by_spi, Known, SadTypeOK
<1>3. sad[f].cfg \in SadCfgsOf[sad[f].name] /\ sad[f].cfg.spi \in Spis
  BY NodesKnown DEF Known, SadGiven, KnownIds, SaIds
<1>4. EventSpi(s) = s
  <2>1. SpiHalf \in Int /\ \A t \in Spis : t \in Int
    BY WidthAssumption
  <2>2. QED
    BY <1>1, <1>2, <1>3, <2>1, SpiWidth
<1>5. QED
  BY <1>2, <1>3, <1>4 DEF SpisOf

\* Nobody but the thread touches where it is, while its process is there.
LEMMA ThreadAlone ==
  ASSUME [Next]_vars, ~pf_sadb_esp_register_run, ~ProcessEnds, ~sadb_register
  PROVE  thr' = thr
BY DEF Next, SubscribeSpd, SubscribeSad, Crash, spd_entry_change_cb, SpdCreate, SpdDelete,
       SpdModify, SpdPfAdd, SpdPfAddForward, SpdPfDelForward, SpdUnlink, SpdGoesOn, SpdRest,
       sad_entry_change_cb, SadCreate, SadDelete, SadModify, SadPfAdd, SadUnlink, SadGoesOn,
       SadRest, FinishCommit, Environment, Controller, KernelExpires, Tell,
       OtherProgramAdds, KernelTellsOther, GivesUp, Stop, threadVars, vars

\* No other commit is the thread's.
LEMMA OthersCommits ==
  ASSUME Known, DatastoreStep, ~ApplyDelete, tx'.by = "thread"
  PROVE  tx.by = "thread" /\ runSad' = runSad /\ newSad' = newSad
<1>1. CASE UNCHANGED dsVars
  BY <1>1 DEF dsVars
<1>2. ASSUME ~Idle, NEW m, Handled(m)
      PROVE  tx.by = "thread" /\ runSad' = runSad /\ newSad' = newSad
  BY <1>2, HandledCommit DEF Known, WorkInv, CommitInv, Handled
<1>3. CASE TimesOut
  BY <1>3, TimedOutCommit DEF Known, WorkInv, CommitInv
<1>4. CASE Commit \/ Abort
  BY <1>4 DEF Commit, Abort, NoTx
<1>5. ASSUME NEW new, NEW s, ControllerEditsSad(new, s) \/ ControllerEditsSpd(new, s)
      PROVE  FALSE
  BY <1>5 DEF ControllerEditsSad, ControllerEditsSpd
<1>6. QED
  BY <1>1, <1>2, <1>3, <1>4, <1>5 DEF DatastoreStep

\* The thread deletes an entry of the SA it was told of, in every run.
LEMMA ThreadAimsKept ==
  ASSUME Known, ThreadAims, [Next]_vars
  PROVE  ThreadAims'
<1>0. DatastoreStep /\ ThreadInv
  BY AgentDatastoreStep DEF Known
<1>1. ASSUME tx'.by = "thread", ~ApplyDelete
      PROVE  tx.by = "thread" /\ thr.pc = "commit" /\ runSad' = runSad /\ newSad' = newSad
  BY <1>0, <1>1, OthersCommits DEF ThreadAims
<1>2. CASE ProcessEnds
  <2>1. thr' = Off
    BY <1>2 DEF ProcessEnds, ThreadLost
  <2>2. tx'.by # "thread"
    <3>1. SUFFICES ASSUME tx'.by = "thread" PROVE FALSE
      OBVIOUS
    <3>2. CASE ~Idle /\ (tx.todo # {} \/ tx.by # "controller")
      BY <1>2, <3>1, <3>2 DEF ProcessEnds, Abort, NoTx
    <3>3. CASE ~(~Idle /\ (tx.todo # {} \/ tx.by # "controller"))
      BY <1>2, <3>1, <3>3 DEF ProcessEnds, dsVars, Idle, NoTx
    <3>4. QED
      BY <3>2, <3>3
  <2>3. QED
    BY <2>1, <2>2 DEF ThreadAims, Off
<1>3. CASE sadb_register
  <2>1. thr.pc = "off" /\ thr'.pc \in {"off", "read"} /\ ~ApplyDelete
    BY <1>3 DEF sadb_register, SendRegister, ReadReply, Off, Reading, ApplyDelete
  <2>2. QED
    BY <1>1, <2>1 DEF ThreadAims
<1>4. CASE pf_sadb_esp_register_run /\ ApplyDelete
  <2>1. thr.pc = "apply" /\ thr'.pc = "commit" /\ thr'.name = thr.name
    BY <1>0, <1>4, ThreadFields
  <2>2. /\ runSad' = runSad /\ runSad[thr.name] # ABSENT
        /\ newSad' = [runSad EXCEPT ![thr.name] = ABSENT] /\ thr.name \in DOMAIN runSad
    <3>1. thr.name \in SadNames /\ DOMAIN runSad = SadNames
      BY <2>1 DEF Known, ThreadInv, ThreadTypeOK, Given
    <3>2. QED
      BY <1>4, <3>1 DEF ApplyDelete, ThreadDeletes
  <2>3. QED
    BY <2>1, <2>2 DEF ThreadAims
<1>5. CASE pf_sadb_esp_register_run /\ ~ApplyDelete
  <2>1. CASE thr' = thr
    BY <1>1, <1>5, <2>1 DEF ThreadAims
  <2>2. CASE thr' # thr
    <3>1. tx.by # "thread"
      BY <1>5, <2>2, ThreadMoves DEF ThreadAims
    <3>2. /\ thr'.pc \in {"delete", "apply"} => thr'.ev.kind = "hard"
          /\ thr'.pc = "apply" => thr'.ev.id[2] \in SpisOf(thr'.name)
      BY <1>5, <2>2, ThreadMoves, FoundIsOwn
    <3>3. QED
      BY <1>1, <1>5, <3>1, <3>2 DEF ThreadAims, SpisOf
  <2>3. QED
    BY <2>1, <2>2
<1>6. CASE ~pf_sadb_esp_register_run /\ ~ProcessEnds /\ ~sadb_register
  <2>1. thr' = thr
    BY <1>6, ThreadAlone
  <2>2. ApplyDelete => thr' # thr
    <3>1. ApplyDelete => thr.pc = "apply" /\ thr'.pc = "commit"
      BY <1>0, ThreadFields
    <3>2. QED
      BY <3>1
  <2>3. QED
    BY <1>1, <2>1, <2>2 DEF ThreadAims, SpisOf
<1>7. QED
  BY <1>2, <1>3, <1>4, <1>5, <1>6

-----------------------------------------------------------------------------
(* The callback *)

\* A node that is linked is there, and so are those that were.
LEMMA LinkedNode ==
  ASSUME SadTypeOK, NEW n \in SadNames, NEW c \in SadCfg,
         sad' = Append(sad, [name |-> n, cfg |-> c])
  PROVE  /\ HasNode(sad', n, AddId(c))
         /\ \A m, k : HasNode(sad, m, k) => HasNode(sad', m, k)
<1> DEFINE node == [name |-> n, cfg |-> c]
<1>1. node \in SadNode /\ sad \in Seq(SadNode)
  BY DEF SadNode, SadTypeOK
<1>2. node.name = n /\ node.cfg = c
  OBVIOUS
<1> HIDE DEF node
<1>3. /\ Len(sad) \in Nat /\ Len(sad') = Len(sad) + 1
      /\ \A j \in 1..Len(sad) : sad'[j] = sad[j]
      /\ sad'[Len(sad) + 1] = node
  <2>1. sad' = Append(sad, node)
    BY DEF node
  <2>2. QED
    BY <1>1, <2>1, AppendProperties, LenProperties
<1>4. Len(sad) + 1 \in 1..Len(sad') /\ \A j \in 1..Len(sad) : j \in 1..Len(sad')
  BY <1>3
<1>5. HasNode(sad', n, AddId(c))
  BY <1>2, <1>3, <1>4 DEF HasNode
<1>6. ASSUME NEW m, NEW k, HasNode(sad, m, k)
      PROVE  HasNode(sad', m, k)
  <2>1. PICK j \in 1..Len(sad) : sad[j].name = m /\ AddId(sad[j].cfg) = k
    BY <1>6 DEF HasNode
  <2>2. j \in 1..Len(sad') /\ sad'[j] = sad[j]
    BY <1>3, <1>4
  <2>3. QED
    BY <2>1, <2>2 DEF HasNode
<1>7. QED
  BY <1>5, <1>6

\* Unlinking a node leaves those of the other entries.
LEMMA UnlinkedLeaves ==
  ASSUME SadTypeOK, NEW n, GetNode(sad, n) # 0, sad' = DelNode(sad, n),
         NEW m, NEW k, m # n, HasNode(sad, m, k)
  PROVE  HasNode(sad', m, k)
<1>1. sad \in Seq(SadNode)
  BY DEF SadTypeOK
<1>2. PICK i \in 1..Len(sad) : sad[i].name = m /\ AddId(sad[i].cfg) = k
  BY DEF HasNode
<1>3. i # GetNode(sad, n)
  BY <1>1, <1>2, FoundNode
<1>4. PICK from \in [1..Len(DelNode(sad, n)) -> 1..Len(sad)] :
           /\ \A j \in 1..Len(DelNode(sad, n)) : DelNode(sad, n)[j] = sad[from[j]]
           /\ \A l \in 1..Len(sad) :
                l # GetNode(sad, n) => \E j \in 1..Len(DelNode(sad, n)) : from[j] = l
  BY <1>1, UnlinkedOthers
<1>5. PICK j \in 1..Len(sad') : sad'[j] = sad[i]
  BY <1>3, <1>4
<1>6. QED
  BY <1>2, <1>5 DEF HasNode

\* The steps that touch the list, or what the callback is doing with it.
LEMMA ListAlone ==
  ASSUME [Next]_vars, ~sad_entry_change_cb, ~ProcessEnds
  PROVE  sad' = sad /\ sadOp' = sadOp
BY DEF Next, SubscribeSpd, SubscribeSad, sadb_register, Crash, spd_entry_change_cb,
       SpdCreate, SpdDelete, SpdModify, SpdPfAdd, SpdPfAddForward, SpdPfDelForward,
       SpdUnlink, SpdGoesOn, SpdRest, pf_sadb_esp_register_run, FinishCommit, Environment,
       Controller, KernelExpires, SoftExpire, HardExpire, OtherProgramAdds, ForeignAdd,
       KernelTellsOther, GivesUp, Stop, sadVars, vars

\* The configuration the callback links is one, and new.
LEMMA Created ==
  ASSUME Known, NEW n \in SadNames, SadCreate(n)
  PROVE  /\ newSad[n] \in SadCfg /\ runSad[n] = ABSENT
         /\ sad' = Append(sad, [name |-> n, cfg |-> newSad[n]])
         /\ sadOp'.op = "add" /\ sadOp'.node.name = n /\ sadOp'.node.cfg = newSad[n]
         /\ UNCHANGED <<ksad, runSad, newSad, tx>>
<1>1. runSad[n] = ABSENT /\ newSad[n] # ABSENT
  BY EditKinds DEF SadCreate, SadChange
<1>2. newSad[n] \in SadCfg
  BY <1>1 DEF Known, WorkInv, CommitInv, DsTypeOK, SadConfigs
<1>3. sadOp' = [op |-> "add", node |-> [name |-> n, cfg |-> newSad[n]]]
  BY DEF SadCreate, AddSadNode
<1>4. QED
  BY <1>1, <1>2, <1>3 DEF SadCreate, AddSadNode, dsVars

\* The entry being added stays new, and its node in the list.
LEMMA AddingKept ==
  ASSUME Known, Adding, [Next]_vars
  PROVE  Adding'
<1>0. SadTypeOK /\ SpdTypeOK /\ ThreadInv /\ WorkInv /\ SadWork
  BY DEF Known, WorkInv
<1>1. ASSUME NEW n \in SadNames, SadCreate(n)
      PROVE  Adding'
  <2>1. HasNode(sad', n, AddId(newSad[n]))
    BY <1>0, <1>1, Created, LinkedNode
  <2>2. QED
    BY <1>1, <2>1, Created DEF Adding, HasNode
<1>2. CASE sad_entry_change_cb /\ ~\E n \in SadNames : SadCreate(n)
  <2>1. SadPfAdd \/ SadUnlink => sadOp'.op # "add"
    BY DEF SadPfAdd, SadUnlink, PfAddSad, DelSadNode, NoSadOp
  <2>2. ASSUME NEW n \in SadNames, SadDelete(n)
        PROVE  sadOp'.op # "add"
    <3>1. PfDelSad(n) => sadOp'.op = "del"
      BY DEF PfDelSad
    <3>2. SadNotFound(n) => sadOp'.op = "none"
      BY DEF SadNotFound, sadVars, NoSadOp
    <3>3. QED
      BY <2>2, <3>1, <3>2 DEF SadDelete
  <2>3. ASSUME NEW n \in SadNames, SadModify(n)
        PROVE  sadOp'.op # "add"
    BY <2>3 DEF SadModify, sadVars, NoSadOp
  <2>4. QED
    BY <1>2, <2>1, <2>2, <2>3 DEF Adding, sad_entry_change_cb
<1>3. CASE ProcessEnds
  BY <1>3 DEF ProcessEnds, SadLost, NoSadOp, Adding
<1>4. CASE ~sad_entry_change_cb /\ ~ProcessEnds
  <2>1. sad' = sad /\ sadOp' = sadOp
    BY <1>4, ListAlone
  <2>2. sadOp.op = "add" => ChangeNext("sad", sadOp.node.name)
    BY <1>0 DEF SadWork, NoSadOp
  <2>3. sadOp.op = "add" => runSad' = runSad
    BY <1>0, <1>4, <2>2, OthersWait DEF Run
  <2>4. QED
    BY <2>1, <2>3 DEF Adding, HasNode
<1>5. QED
  BY <1>1, <1>2, <1>3, <1>4

-----------------------------------------------------------------------------
(* Every entry that is not an orphan stays in order *)

\* Settled is what InOrder says of an entry that is not there.
LEMMA NothingStirs ==
  ASSUME Known', NEW n \in SadNames, Stirring' \cap SasOf(n) = {}
  PROVE  Settled(n)'
<1>1. /\ evq' \in Seq(Expires \cup {Other}) /\ ksad' \subseteq SaIds
      /\ Handling' => thr'.ev \in Expires
  BY DEF Known, ThreadInv, ThreadTypeOK, Handling, SadTypeOK
<1>2. IdsAbout(evq)' = IdsAbout(evq') /\ SpisOf(n)' = SpisOf(n)
  BY DEF IdsAbout, Messages, SpisOf
<1>3. \A k \in ksad' : k[2] \notin SpisOf(n)
  BY <1>1 DEF Stirring, SasOf
<1>4. ASSUME NEW j \in 1..Len(evq'), evq'[j] # Other
      PROVE  evq'[j].id[2] \notin SpisOf(n)
  <2>1. evq'[j].id \in SaIds
    <3>1. evq'[j] \in Expires \cup {Other}
      BY <1>1, ElementOfSeq
    <3>2. QED
      BY <1>4, <3>1, MessageKinds
  <2>2. evq'[j].id \in IdsAbout(evq')
    BY <1>4 DEF IdsAbout, Messages
  <2>3. QED
    BY <1>2, <2>1, <2>2 DEF Stirring, Heard, SasOf
<1>5. Handling' => thr'.ev.id[2] \notin SpisOf(n)
  <2>1. Handling' => thr'.ev.id \in SaIds /\ thr'.ev.id \in InHand'
    BY <1>1 DEF Expires, InHand
  <2>2. QED
    BY <2>1 DEF Stirring, Heard, SasOf
<1>6. QED
  BY <1>2, <1>3, <1>4, <1>5 DEF Settled, Handling

\* An entry that is being taken away or added by others is left as it is by a
\* step in which the thread stays where it is.
LEMMA LeavingOn ==
  ASSUME Known, [Next]_vars, thr' = thr, NEW n \in SadNames, ~TakenAway(n),
         ~CreationUndone(n), Leaving(n)'
  PROVE  Leaving(n)
<1>1. DatastoreStep /\ CommitInv
  BY AgentDatastoreStep DEF Known, WorkInv
<1>2. ~ApplyDelete
  <2>1. ApplyDelete => thr.pc = "apply" /\ thr'.pc = "commit"
    BY ThreadFields DEF Known
  <2>2. QED
    BY <2>1
<1>3. QED
  BY <1>1, <1>2, LeavingKept

\* A step that brings no news of entry n and leaves its nodes.
LEMMA InOrderFrame ==
  ASSUME Known, [Next]_vars, NEW n \in SadNames, InOrder(n), ~TakenAway(n),
         ~CreationUndone(n), evq' = evq, thr' = thr,
         ksad' \cap SasOf(n) \subseteq ksad,
         \A k \in SaIds : HasNode(sad, n, k) => HasNode(sad', n, k)
  PROVE  InOrder(n)'
<1>1. /\ Heard' = Heard /\ Finished' = Finished /\ HardHeld' = HardHeld
      /\ IdsAbout(evq') = IdsAbout(evq) /\ HardIds(evq)' = HardIds(evq)
  BY DEF Heard, Finished, HardHeld, InHand, Handling, IdsAbout, HardIds, Messages
<1>2. Leaving(n)' => Leaving(n)
  BY LeavingOn
<1>3. (ksad' \cup Heard') \cap SasOf(n) \subseteq Stirring
  BY <1>1 DEF Stirring
<1>4. /\ Finished' \cap ksad' \cap SasOf(n) = {} /\ HardIsLast(evq', SasOf(n))
      /\ HardHeld' \cap IdsAbout(evq') \cap SasOf(n) = {}
  BY <1>1 DEF InOrder
<1>5. QED
  BY <1>2, <1>3, <1>4, InOrderNext

\* The SA the callback adds is new to the entry it is of, and no other's.
LEMMA InOrderByAdd ==
  ASSUME OwnSas, Known, OrphanInv, [Next]_vars, SadPfAdd, NEW n \in SadNames \ orphans,
         ~TakenAway(n), ~CreationUndone(n)
  PROVE  InOrder(n)'
<1> DEFINE m == sadOp.node.name
           k == AddId(sadOp.node.cfg)
<1>0. /\ InOrder(n) /\ SadTypeOK /\ SadWork /\ DsTypeOK /\ Adding
  BY DEF OrphanInv, Known, WorkInv, CommitInv
<1>1. /\ sadOp.op = "add" /\ sadOp # NoSadOp /\ sad' = sad /\ Handled(m)
      /\ ksad' = ksad \cup {k} \/ ksad' = ksad
      /\ thr' = thr /\ evq' = evq
  BY DEF SadPfAdd, PfAddSad, SadGoesOn, SadRest, threadVars, NoSadOp
<1>2. /\ m \in SadNames /\ sadOp.node.cfg \in SadCfgsOf[m] /\ k \in SaIds
      /\ k[2] = sadOp.node.cfg.spi
  <2>1. sadOp.node.cfg \in SadCfg /\ m \in SadNames
    BY <1>0, <1>1, SadOpNode
  <2>2. sadOp.node.cfg \in SadCfgsOf[m]
    BY <1>1 DEF Known, SadGiven
  <2>3. QED
    BY <2>1, <2>2, AddIdType DEF AddId
<1>3. CASE n # m
  <2>1. k \notin SasOf(n)
    BY <1>2, <1>3 DEF OwnSas, OwnSpis, SasOf, SpisOf
  <2>2. ksad' \cap SasOf(n) \subseteq ksad
    BY <1>1, <2>1
  <2>3. QED
    BY <1>0, <1>1, <2>2, InOrderFrame
<1>4. CASE n = m
  <2>1. /\ runSad[n] = ABSENT /\ HasNode(sad, n, k)
        /\ ChangeNext("sad", n) /\ newSad[n] = sadOp.node.cfg
    BY <1>0, <1>1, <1>4 DEF Adding, SadWork
  <2>2. Stirring \cap SasOf(n) = {}
    BY <1>0, <2>1 DEF InOrder, Leaving, ChangeNext
  <2>3. /\ Heard' = Heard /\ Finished' = Finished /\ HardHeld' = HardHeld
        /\ IdsAbout(evq)' = IdsAbout(evq) /\ HardIds(evq)' = HardIds(evq)
        /\ SasOf(n)' = SasOf(n) /\ HardIsLast(evq, SasOf(n))' = HardIsLast(evq, SasOf(n))
    BY <1>1 DEF Heard, Finished, HardHeld, InHand, Handling, IdsAbout, HardIds, Messages,
                SasOf, SpisOf, HardIsLast
  <2>4. Stirring' \cap SasOf(n) \subseteq {k}
    BY <1>1, <2>2, <2>3 DEF Stirring
  <2>5. Finished \cap SasOf(n) = {} /\ HardHeld \cap SasOf(n) = {}
    BY <2>2, StirringSas DEF Stirring, Finished
  <2>6. ~Leaving(n)'
    <3>1. newSad[n] # ABSENT
      BY <1>2, <1>4, <2>1, NamesAssumption
    <3>2. runSad' = runSad /\ newSad' = newSad /\ n \notin tx'.todo
      BY <1>0, <1>1, <1>4, <2>1, HandledCommit DEF ChangeNext, Handled
    <3>3. QED
      BY <2>1, <3>1, <3>2 DEF Leaving
  <2>7. \A l \in Stirring' \cap SasOf(n) : HasNode(sad, n, l)'
    BY <1>1, <2>1, <2>4 DEF HasNode
  <2>8. \A i, j \in Stirring' \cap SasOf(n) : i = j
    BY <2>4
  <2>9. HardIsLast(evq, SasOf(n))
    BY <1>0 DEF InOrder
  <2>10. (Finished \cap ksad \cap SasOf(n))' = {} /\ (HardHeld \cap IdsAbout(evq) \cap SasOf(n))' = {}
    BY <2>3, <2>5
  <2>11. QED
    BY <2>3, <2>6, <2>7, <2>8, <2>9, <2>10 DEF InOrder
<1>5. QED
  BY <1>3, <1>4

\* The callback's other steps.
LEMMA InOrderByCallback ==
  ASSUME OwnSas, Known, Known', OrphanInv, [Next]_vars, sad_entry_change_cb,
         NEW n \in SadNames \ orphans, ~TakenAway(n), ~CreationUndone(n)
  PROVE  InOrder(n)'
<1>0. /\ InOrder(n) /\ SadTypeOK /\ SadWork /\ CommitInv
  BY DEF OrphanInv, Known, WorkInv
<1>1. thr' = thr /\ evq' = evq
  BY DEF sad_entry_change_cb, SadCreate, SadDelete, SadModify, SadPfAdd, SadUnlink,
         SadGoesOn, SadRest, threadVars
<1>2. ASSUME NEW m \in SadNames, SadCreate(m)
      PROVE  InOrder(n)'
  <2>1. ksad' = ksad /\ \A k : HasNode(sad, n, k) => HasNode(sad', n, k)
    BY <1>0, <1>2, Created, LinkedNode
  <2>2. QED
    BY <1>0, <1>1, <2>1, InOrderFrame
<1>3. ASSUME NEW m \in SadNames, SadDelete(m) \/ SadModify(m)
      PROVE  InOrder(n)'
  <2>1. ksad' \subseteq ksad /\ sad' = sad
    BY <1>3 DEF SadDelete, SadModify, PfDelSad, KernelForgets, SadNotFound, sadVars
  <2>2. QED
    BY <1>0, <1>1, <2>1, InOrderFrame
<1>4. CASE SadUnlink
  <2> DEFINE m == sadOp.node.name
  <2>1. /\ sadOp.op = "del" /\ sadOp # NoSadOp /\ GetNode(sad, m) # 0
        /\ sad' = DelNode(sad, m) /\ ksad' = ksad
    BY <1>4 DEF SadUnlink, DelSadNode, get_sad_node, NoSadOp
  <2>2. ChangeNext("sad", m) /\ newSad[m] = ABSENT
    BY <1>0, <2>1 DEF SadWork
  <2>3. CASE n # m
    <3>1. \A k : HasNode(sad, n, k) => HasNode(sad', n, k)
      BY <1>0, <2>1, <2>3, UnlinkedLeaves
    <3>2. QED
      BY <1>0, <1>1, <2>1, <3>1, InOrderFrame
  <2>4. CASE n = m
    <3>1. runSad[n] # newSad[n]
      BY <1>0, <2>2, <2>4 DEF CommitInv, ChangeNext, Changed
    <3>2. Stirring \cap SasOf(n) = {}
      BY <1>0, <2>2, <2>4, <3>1 DEF InOrder, Leaving
    <3>3. Stirring' = Stirring
      BY <1>1, <2>1 DEF Stirring, Heard, InHand, Handling, IdsAbout, Messages
    <3>4. QED
      BY <3>2, <3>3, NothingStirs, SettledIsInOrder
  <2>5. QED
    BY <2>3, <2>4
<1>5. QED
  BY <1>2, <1>3, <1>4, InOrderByAdd DEF sad_entry_change_cb

\* What is left of what is heard when the thread reads or drops a message.
LEMMA HeardLess ==
  ASSUME Known, NEW n \in SadNames, InOrder(n), sad' = sad, ksad' = ksad,
         Leaving(n)' => Leaving(n),
         Heard' \subseteq Heard, Finished' \subseteq Finished,
         HardIsLast(evq', SasOf(n)), HardHeld' \cap IdsAbout(evq') \cap SasOf(n) = {}
  PROVE  InOrder(n)'
<1>1. (ksad' \cup Heard') \cap SasOf(n) \subseteq Stirring
  BY DEF Stirring
<1>2. Finished' \cap ksad' \cap SasOf(n) = {}
  BY DEF InOrder
<1>3. QED
  BY <1>1, <1>2, InOrderNext

\* The thread forgets what it has heard, one message after the other.
LEMMA InOrderByThread ==
  ASSUME Known, Known', OrphanInv, [Next]_vars, pf_sadb_esp_register_run,
         NEW n \in SadNames \ orphans, ~TakenAway(n), ~CreationUndone(n)
  PROVE  InOrder(n)'
<1>0. /\ InOrder(n) /\ ThreadAims /\ CommitInv /\ DatastoreStep
      /\ evq \in Seq(Expires \cup {Other})
      /\ HardIsLast(evq, SasOf(n)) /\ HardHeld \cap IdsAbout(evq) \cap SasOf(n) = {}
  BY AgentDatastoreStep, StirringSas DEF OrphanInv, Known, WorkInv, InOrder
<1>1. sad' = sad /\ ksad' = ksad
  BY DEF pf_sadb_esp_register_run, sadVars
<1>2. /\ IdsAbout(evq)' = IdsAbout(evq') /\ HardIds(evq)' = HardIds(evq')
  BY DEF IdsAbout, HardIds, Messages
<1>3. ~ApplyDelete => (Leaving(n)' => Leaving(n))
  BY <1>0, LeavingKept
<1>4. CASE /\ thr.pc = "read" /\ evq # << >> /\ evq' = Tail(evq)
           /\ \/ thr' = thr
              \/ thr'.pc = "notify" /\ thr'.ev = Head(evq) /\ Head(evq) # Other
  <2>1. ~ApplyDelete /\ InHand = {} /\ HardHeld = {}
    BY <1>4 DEF ApplyDelete, InHand, HardHeld, Handling
  <2>2. /\ IdsAbout(evq) = AboutId(Head(evq)) \cup IdsAbout(evq')
        /\ HardIds(evq) = HardId(Head(evq)) \cup HardIds(evq')
        /\ HardIsLast(evq', SasOf(n))
        /\ HardId(Head(evq)) \cap IdsAbout(evq') \cap SasOf(n) = {}
    BY <1>0, <1>4, ReadMessage
  <2>3. InHand' \subseteq AboutId(Head(evq)) /\ HardHeld' \subseteq HardId(Head(evq))
    <3>1. CASE thr' = thr
      BY <1>4, <3>1 DEF InHand, HardHeld, Handling
    <3>2. CASE thr'.pc = "notify" /\ thr'.ev = Head(evq) /\ Head(evq) # Other
      BY <3>2 DEF InHand, HardHeld, Handling, AboutId, HardId
    <3>3. QED
      BY <1>4, <3>1, <3>2
  <2>4. Heard' \subseteq Heard /\ Finished' \subseteq Finished
    BY <1>2, <2>1, <2>2, <2>3 DEF Heard, Finished
  <2>5. HardHeld' \cap IdsAbout(evq') \cap SasOf(n) = {}
    BY <2>2, <2>3
  <2>6. QED
    BY <1>0, <1>1, <1>3, <2>1, <2>2, <2>4, <2>5, HeardLess
<1>5. ASSUME evq' = evq, \/ ~Handling'
                         \/ Handling /\ thr'.ev = thr.ev
      PROVE  /\ InHand' \subseteq InHand /\ HardHeld' \subseteq HardHeld
             /\ Heard' \subseteq Heard /\ Finished' \subseteq Finished
             /\ HardIsLast(evq', SasOf(n))
             /\ HardHeld' \cap IdsAbout(evq') \cap SasOf(n) = {}
  <2>1. InHand' \subseteq InHand /\ HardHeld' \subseteq HardHeld
    BY <1>5 DEF InHand, HardHeld
  <2>2. QED
    BY <1>0, <1>2, <1>5, <2>1 DEF Heard, Finished
<1>6. CASE /\ ~ApplyDelete /\ evq' = evq
           /\ \/ thr'.pc = "read"
              \/ Handling /\ thr'.pc = "delete" /\ thr'.ev = thr.ev
              \/ Handling /\ thr'.pc = "apply" /\ thr'.ev = thr.ev
  <2>1. ~Handling' \/ (Handling /\ thr'.ev = thr.ev)
    BY <1>6 DEF Handling
  <2>2. QED
    BY <1>0, <1>1, <1>3, <1>5, <1>6, <2>1, HeardLess
<1>7. CASE ApplyDelete
  <2>1. /\ thr.pc = "apply" /\ evq' = evq /\ thr'.pc = "commit"
        /\ Handling /\ ~Handling' /\ InHand' = {}
    BY <1>7, ThreadFields DEF Known, Handling, InHand
  <2>2. CASE n # thr.name
    <3>1. Leaving(n)' => Leaving(n)
      BY <1>0, <2>2, LeavingKept
    <3>2. QED
      BY <1>0, <1>1, <1>5, <2>1, <3>1, HeardLess
  <2>3. CASE n = thr.name
    <3>1. thr.ev.id \in SasOf(n) /\ thr.ev.id \in HardHeld /\ thr.ev.id \in Stirring
      <4>1. thr.ev \in Expires /\ thr.ev.kind = "hard" /\ thr.ev.id[2] \in SpisOf(n)
        BY <1>0, <2>1, <2>3, StirringSas DEF ThreadAims
      <4>2. QED
        BY <2>1, <4>1 DEF Expires, SasOf, HardHeld, Stirring, Heard, InHand
    <3>2. thr.ev.id \notin ksad /\ thr.ev.id \notin IdsAbout(evq)
      BY <1>0, <3>1 DEF InOrder, Finished
    <3>3. \A k \in Stirring \cap SasOf(n) : k = thr.ev.id
      BY <1>0, <3>1 DEF InOrder
    <3>4. Stirring' \cap SasOf(n) = {}
      BY <1>1, <1>2, <2>1, <3>2, <3>3 DEF Stirring, Heard
    <3>5. QED
      BY <3>4, NothingStirs, SettledIsInOrder
  <2>4. QED
    BY <2>2, <2>3
<1>8. QED
  <2>1. CASE ApplyDelete
    BY <1>7, <2>1
  <2>2. CASE ~ApplyDelete
    BY <1>0, <1>4, <1>6, <2>2, ThreadMoves
  <2>3. QED
    BY <2>1, <2>2

\* Registering reads one message, which it does not look at.
LEMMA InOrderByRegister ==
  ASSUME Known, OrphanInv, [Next]_vars, sadb_register,
         NEW n \in SadNames \ orphans, ~TakenAway(n), ~CreationUndone(n)
  PROVE  InOrder(n)'
<1>0. /\ InOrder(n) /\ evq \in Seq(Expires \cup {Other})
      /\ HardIsLast(evq, SasOf(n))
      /\ CommitInv /\ DatastoreStep
  BY AgentDatastoreStep, StirringSas DEF OrphanInv, Known, WorkInv, InOrder
<1>1. /\ sad' = sad /\ ksad' = ksad /\ (SendRegister \/ ReadReply)
      /\ thr.pc = "off" /\ thr'.pc \in {"off", "read"}
  BY DEF sadb_register, sadVars, SendRegister, ReadReply, Off, Reading
<1>2. InHand' = {} /\ HardHeld' = {} /\ (Leaving(n)' => Leaving(n))
  <2>1. ~ApplyDelete
    BY <1>1 DEF ApplyDelete
  <2>2. QED
    BY <1>0, <1>1, <2>1, LeavingKept DEF InHand, HardHeld, Handling
<1>3. IdsAbout(evq)' = IdsAbout(evq') /\ HardIds(evq)' = HardIds(evq')
  BY DEF IdsAbout, HardIds, Messages
<1>4. /\ IdsAbout(evq') \subseteq IdsAbout(evq) /\ HardIds(evq') \subseteq HardIds(evq)
      /\ HardIsLast(evq', SasOf(n))
  <2>1. CASE SendRegister
    <3>1. evq' = <<Other>> \/ evq' = <<Other, Other>>
      BY <2>1 DEF SendRegister
    <3>2. \A i \in 1..Len(evq') : evq'[i] = Other
      BY <3>1
    <3>3. QED
      BY <3>2 DEF IdsAbout, HardIds, Messages, HardIsLast, Other
  <2>2. CASE ReadReply
    BY <1>0, <2>2, ReadMessage DEF ReadReply
  <2>3. QED
    BY <1>1, <2>1, <2>2
<1>5. Heard' \subseteq Heard /\ Finished' \subseteq Finished
  BY <1>1, <1>2, <1>3, <1>4 DEF Heard, Finished, InHand, HardHeld, Handling
<1>6. InHand' \subseteq InHand /\ HardHeld' \subseteq HardHeld
      /\ HardHeld' \cap IdsAbout(evq') \cap SasOf(n) = {}
  BY <1>2
<1>7. QED
  BY <1>0, <1>1, <1>2, <1>4, <1>5, <1>6, HeardLess

\* What the kernel says last of an SA is that it has expired.
LEMMA InOrderByKernel ==
  ASSUME Known, OrphanInv, [Next]_vars, NEW ev \in Expires \cup {Other},
         AboutId(ev) \subseteq ksad, ksad' = ksad \ HardId(ev),
         evq' = Append(evq, ev) \/ evq' = evq, thr' = thr, sad' = sad,
         NEW n \in SadNames \ orphans, ~TakenAway(n), ~CreationUndone(n)
  PROVE  InOrder(n)'
<1>0. /\ InOrder(n) /\ evq \in Seq(Expires \cup {Other})
      /\ HardIsLast(evq, SasOf(n)) /\ HardId(ev) \subseteq AboutId(ev)
      /\ Finished \cap ksad \cap SasOf(n) = {}
      /\ HardHeld \cap IdsAbout(evq) \cap SasOf(n) = {}
  BY StirringSas, MessageKinds DEF OrphanInv, InOrder
<1>1. /\ InHand' = InHand /\ HardHeld' = HardHeld
      /\ IdsAbout(evq)' = IdsAbout(evq') /\ HardIds(evq)' = HardIds(evq')
  BY DEF InHand, HardHeld, Handling, IdsAbout, HardIds, Messages
<1>2. AboutId(ev) \cap Finished \cap SasOf(n) = {}
  BY <1>0
<1>3. /\ IdsAbout(evq') \subseteq IdsAbout(evq) \cup AboutId(ev)
      /\ HardIds(evq') \subseteq HardIds(evq) \cup HardId(ev)
      /\ HardIsLast(evq', SasOf(n))
  <2>1. AboutId(ev) \cap HardIds(evq) \cap SasOf(n) = {}
    BY <1>2 DEF Finished
  <2>2. CASE evq' = Append(evq, ev)
    BY ZenonT(30), <1>0, <2>1, <2>2, QueuedMessage
  <2>3. CASE evq' = evq
    BY <1>0, <2>3
  <2>4. QED
    BY <2>2, <2>3
<1>4. (ksad' \cup Heard') \cap SasOf(n) \subseteq Stirring
  BY <1>1, <1>3 DEF Stirring, Heard
<1>5. Finished' \cap ksad' \cap SasOf(n) = {}
  BY <1>0, <1>1, <1>3 DEF Finished
<1>6. HardHeld' \cap IdsAbout(evq') \cap SasOf(n) = {}
  BY <1>0, <1>1, <1>2, <1>3 DEF Finished
<1>7. Leaving(n)' => Leaving(n)
  BY LeavingOn
<1>8. QED
  BY <1>0, <1>3, <1>4, <1>5, <1>6, <1>7, InOrderNext

\* The remaining steps: the kernel's, other programs', and those that concern
\* neither the thread nor the SAD.
LEMMA InOrderByOthers ==
  ASSUME OwnSas, Known, OrphanInv, [Next]_vars, ~sad_entry_change_cb,
         ~pf_sadb_esp_register_run, ~sadb_register, ~ProcessEnds,
         NEW n \in SadNames \ orphans, ~TakenAway(n), ~CreationUndone(n)
  PROVE  InOrder(n)'
<1>0. InOrder(n) /\ sad' = sad /\ thr' = thr
  BY ListAlone, ThreadAlone DEF OrphanInv
<1>1. ASSUME NEW k \in SaIds, KernelExpires(k)
      PROVE  InOrder(n)'
  <2>1. PICK s \in {"soft", "hard"} :
          /\ Tell([kind |-> s, id |-> k])
          /\ \/ s = "soft" /\ ksad' = ksad
             \/ s = "hard" /\ ksad' = ksad \ {k}
    BY <1>1 DEF KernelExpires, SoftExpire, HardExpire, KernelForgets
  <2> DEFINE ev == [kind |-> s, id |-> k]
  <2>2. ev \in Expires \cup {Other} /\ ev.kind = s /\ ev.id = k /\ k \in ksad
    BY <1>1 DEF Expires, KernelExpires, SoftExpire, HardExpire
  <2>3. evq' = Append(evq, ev) \/ evq' = evq
    BY <2>1 DEF Tell, Deliver
  <2> HIDE DEF ev
  <2>4. AboutId(ev) = {k} /\ HardId(ev) = (IF s = "hard" THEN {k} ELSE {})
    <3>1. ev # Other
      BY <2>2 DEF Other
    <3>2. QED
      BY <2>2, <3>1 DEF AboutId, HardId
  <2>5. ksad' = ksad \ HardId(ev) /\ AboutId(ev) \subseteq ksad
    BY <2>1, <2>2, <2>4
  <2>6. QED
    BY <1>0, <2>2, <2>3, <2>5, InOrderByKernel
<1>2. CASE KernelTellsOther
  <2>1. evq' = Append(evq, Other) \/ evq' = evq
    BY <1>2 DEF KernelTellsOther, Deliver
  <2>2. AboutId(Other) = {} /\ HardId(Other) = {} /\ ksad' = ksad
    BY <1>2 DEF AboutId, HardId, Other, KernelTellsOther, sadVars
  <2>3. QED
    BY <1>0, <2>1, <2>2, InOrderByKernel
<1>3. ASSUME NEW k \in SaIds, OtherProgramAdds(k)
      PROVE  InOrder(n)'
  <2>1. evq' = evq /\ ksad' = ksad \cup {k} /\ k \in ForeignIds
    BY <1>3 DEF OtherProgramAdds, ForeignAdd, threadVars
  <2>2. k \notin SasOf(n)
    BY <2>1 DEF OwnSas, SasOf
  <2>3. QED
    BY <1>0, <2>1, <2>2, InOrderFrame
<1>4. CASE ~KernelTellsOther /\ ~\E k \in SaIds : KernelExpires(k) \/ OtherProgramAdds(k)
  <2>1. evq' = evq /\ ksad' = ksad
    BY <1>4
    DEF Next, SubscribeSpd, SubscribeSad, Crash, spd_entry_change_cb, SpdCreate, SpdDelete,
        SpdModify, SpdPfAdd, SpdPfAddForward, SpdPfDelForward, SpdUnlink, SpdGoesOn,
        SpdRest, FinishCommit, Environment, Controller, GivesUp, Stop, threadVars, sadVars,
        vars
  <2>2. QED
    BY <1>0, <2>1, InOrderFrame
<1>5. QED
  BY <1>1, <1>2, <1>3, <1>4

\* Every entry but the orphans stays in order.
LEMMA OrphanInvKept ==
  ASSUME OwnSas, Known, Known', OrphanInv, [Next /\ NoteOrphans]_orphanVars
  PROVE  OrphanInv'
<1>1. [Next]_vars
  BY DEF orphanVars
<1>2. ThreadAims' /\ Adding'
  BY <1>1, ThreadAimsKept, AddingKept DEF OrphanInv
<1>3. ASSUME NEW n \in SadNames, n \notin orphans'
      PROVE  InOrder(n)'
  <2>1. CASE Settled(n)'
    BY <2>1, SettledIsInOrder
  <2>2. CASE ~Settled(n)'
    <3>1. n \notin orphans /\ ~TakenAway(n) /\ ~CreationUndone(n) /\ ~NodesLost
      BY <1>3, <2>2, Spared
    <3>2. ~ProcessEnds
      BY <3>1 DEF ProcessEnds, NodesLost
    <3>3. QED
      BY <1>1, <3>1, <3>2, InOrderByCallback, InOrderByThread, InOrderByRegister,
         InOrderByOthers
  <2>3. QED
    BY <2>1, <2>2
<1>4. QED
  BY <1>2, <1>3 DEF OrphanInv

\* The invariant of orphans holds in every run.
LEMMA OrphanInvCorrect ==
  ASSUME OwnSas
  PROVE  OrphanSpec => [](Known /\ OrphanInv)
<1>1. OrphanInit => OrphanInv
  <2> SUFFICES ASSUME OrphanInit PROVE OrphanInv
    OBVIOUS
  <2>1. /\ sadOp = NoSadOp /\ ksad = {} /\ evq = << >> /\ thr = Off /\ tx = NoTx
    BY DEF OrphanInit, Init, SadInit, DsInit, ThreadInit
  <2>2. tx.by = "nobody" /\ thr.pc = "off"
    BY <2>1 DEF NoTx, Off
  <2>3. /\ IdsAbout(evq) = {} /\ HardIds(evq) = {} /\ InHand = {} /\ HardHeld = {}
        /\ \A n : HardIsLast(evq, SasOf(n))
    BY <2>1, <2>2, NoMessages DEF InHand, HardHeld, Handling
  <2>4. \A n : InOrder(n)
    BY <2>1, <2>3 DEF InOrder, Stirring, Heard, Finished
  <2>5. ThreadAims /\ Adding
    BY <2>1, <2>2 DEF ThreadAims, Adding, NoSadOp
  <2>6. QED
    BY <2>4, <2>5 DEF OrphanInv
<1>2. Known /\ Known' /\ OrphanInv /\ [Next /\ NoteOrphans]_orphanVars => OrphanInv'
  BY OrphanInvKept
<1>3. [Next /\ NoteOrphans]_orphanVars => [Next]_vars
  BY DEF orphanVars
<1>4. OrphanInit => Init
  BY DEF OrphanInit
<1>5. OrphanSpec => []Known
  BY <1>3, <1>4, KnownCorrect, PTL DEF OrphanSpec, Spec
<1>6. QED
  BY <1>1, <1>2, <1>5, PTL DEF OrphanSpec

(***************************************************************************)
(* send_delete_SAD_request dies over orphans and over SAs of other         *)
(* programs, and over nothing else, whatever the controller edits, whatever*)
(* fails and however often the process restarts, if no two entries share   *)
(* an SPI and SPIs fit in the int that holds them.                         *)
(***************************************************************************)
THEOREM DiesOverOrphansCorrect ==
  ASSUME OwnSas, SmallSpis
  PROVE  OrphanSpec => []DiesOverOrphans
<1>1. Known /\ OrphanInv => DiesOverOrphans
  <2> SUFFICES ASSUME Known, OrphanInv, thr.pc = "delete", Expired(thr.ev) = 0,
                      NEW n \in SadNames \ orphans, thr.ev.id[2] \in SpisOf(n)
               PROVE  FALSE
    BY DEF DiesOverOrphans, NullDereference
  <2>1. Handling /\ thr.ev \in Expires
    BY StirringSas DEF Handling
  <2>2. thr.ev.id \in SasOf(n) /\ thr.ev.id \in Stirring /\ thr.ev.id[2] \in Spis
    BY <2>1 DEF Expires, SaIds, SasOf, Stirring, Heard, InHand
  <2>3. PICK i \in 1..Len(sad) : AddId(sad[i].cfg) = thr.ev.id
    BY <2>2 DEF OrphanInv, InOrder, HasNode
  <2>4. sad[i].cfg.spi = thr.ev.id[2]
    BY <2>3 DEF AddId
  <2>5. EventSpi(thr.ev.id[2]) = thr.ev.id[2]
    BY <2>2, SpiWidth DEF SmallSpis
  <2>6. QED
    BY <2>4, <2>5, GetNodeBySpiFinds DEF Expired, get_sad_node_by_spi, Known, SadTypeOK
<1>2. QED
  BY <1>1, OrphanInvCorrect, PTL

(***************************************************************************)
(* The register thread deletes the entry of an SA that has expired, or an  *)
(* orphan, under the same edits, failures and restarts.                    *)
(***************************************************************************)
THEOREM DeletesTheExpiredCorrect ==
  ASSUME OwnSas
  PROVE  OrphanSpec => DeletesTheExpired
<1> DEFINE Right ==
      tx' # tx /\ tx'.by = "thread" /\ thr.name \notin orphans
        => AddId(runSad[thr.name]) \notin ksad
<1>1. Known /\ OrphanInv /\ [Next /\ NoteOrphans]_orphanVars => [Right]_orphanVars
  <2> SUFFICES ASSUME Known, OrphanInv, [Next]_vars, tx'.by = "thread",
                      thr.name \notin orphans
               PROVE  AddId(runSad[thr.name]) \notin ksad
    BY DEF orphanVars
  <2> DEFINE n == thr.name
  <2>1. DatastoreStep /\ ThreadAims
    BY AgentDatastoreStep DEF Known, OrphanInv
  <2>2. /\ thr.pc \in {"apply", "commit"} /\ runSad[n] # ABSENT
        /\ thr.pc = "apply" => thr.ev.kind = "hard" /\ thr.ev.id[2] \in SpisOf(n)
        /\ thr.pc = "commit" => newSad[n] = ABSENT
    <3>1. CASE ApplyDelete
      BY <2>1, <3>1 DEF ApplyDelete, ThreadDeletes, ThreadAims
    <3>2. CASE ~ApplyDelete
      BY <2>1, <3>2, OthersCommits DEF ThreadAims
    <3>3. QED
      BY <3>1, <3>2
  <2>3. n \in SadNames /\ InOrder(n)
    BY <2>2 DEF Known, ThreadInv, ThreadTypeOK, OrphanInv
  <2>4. AddId(runSad[n]) \in SasOf(n)
    <3>1. runSad[n] \in SadCfgsOf[n] /\ runSad[n] \in SadCfg
      BY <2>2, <2>3, NamesAssumption DEF Known, Given
    <3>2. QED
      BY <3>1, AddIdType DEF SasOf, SpisOf, AddId
  <2>5. CASE thr.pc = "commit"
    BY <2>2, <2>3, <2>4, <2>5 DEF InOrder, Leaving, Stirring
  <2>6. CASE thr.pc = "apply"
    <3>1. thr.ev \in Expires /\ Handling
      BY <2>6, StirringSas DEF Handling
    <3>2. thr.ev.id \in SasOf(n) /\ thr.ev.id \in HardHeld /\ thr.ev.id \in Stirring
      BY <2>2, <2>6, <3>1 DEF Expires, SasOf, HardHeld, Stirring, Heard, InHand
    <3>3. thr.ev.id \notin ksad
      BY <2>3, <3>2 DEF InOrder, Finished
    <3>4. AddId(runSad[n]) \in ksad => AddId(runSad[n]) = thr.ev.id
      BY <2>3, <2>4, <3>2 DEF InOrder, Stirring
    <3>5. QED
      BY <3>3, <3>4
  <2>7. QED
    BY <2>2, <2>5, <2>6
<1>2. QED
  BY <1>1, OrphanInvCorrect, PTL DEF OrphanSpec, DeletesTheExpired

=============================================================================
