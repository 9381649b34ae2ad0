---------------------------- MODULE TracksProofs ----------------------------
(***************************************************************************)
(* The lists follow the running configuration: commit by commit, and entry *)
(* by entry within a commit, for every entry that is not astray.           *)
(***************************************************************************)
EXTENDS AgentProofs

Run(l) == IF l = "sad" THEN runSad ELSE runSpd

New(l) == IF l = "sad" THEN newSad ELSE newSpd

Names(l) == IF l = "sad" THEN SadNames ELSE SpdNames

Subscribed(l) == IF l = "sad" THEN SubscribedSad ELSE SubscribedSpd

\* SadTarget and SpdTarget.
Target(l, n) == IF ~Idle /\ tx.list = l /\ n \notin tx.todo THEN New(l)[n] ELSE Run(l)[n]

\* What the datastore may do without handling entry n of list l, or undoing
\* a commit that had reached it.
StepPast(l, n) ==
  \/ UNCHANGED dsVars
  \/ TimesOut
  \/ Commit
  \/ ~Idle /\ \E m : Handled(m) /\ (tx.list = l => m # n)
  \/ Abort /\ n \notin Applied(Run(l), New(l))
  \/ \E new \in SadWanted : ControllerEditsSad(new, SubscribedSad)
  \/ \E new \in SpdWanted : ControllerEditsSpd(new, SubscribedSpd)
  \/ \E m \in SadNames : ThreadDeletes(m)

\* The commit and the two configurations of one list, for either list.
LEMMA CommitOf ==
  ASSUME CommitInv, NEW l \in {"sad", "spd"}, NEW n \in Names(l)
  PROVE  /\ n \in DOMAIN Run(l)
         /\ Idle => New(l) = Run(l)
         /\ ~Idle /\ tx.list # l => New(l) = Run(l)
         /\ ~Idle => tx.list \in {"sad", "spd"}
         /\ "modify" \notin Edits =>
              Run(l)[n] = New(l)[n] \/ Run(l)[n] = ABSENT \/ New(l)[n] = ABSENT
<1>1. DsTypeOK
  BY DEF CommitInv
<1>2. ~Idle => tx.list \in {"sad", "spd"}
  BY <1>1, CommitShape
<1>3. DOMAIN runSad = SadNames /\ DOMAIN runSpd = SpdNames
  BY <1>1 DEF DsTypeOK, SadConfigs, SpdConfigs
<1>4. CASE l = "sad"
  BY <1>2, <1>3, <1>4 DEF CommitInv, Run, New, Names, OneEditEach
<1>5. CASE l = "spd"
  BY <1>2, <1>3, <1>5 DEF CommitInv, Run, New, Names, OneEditEach
<1>6. QED
  BY <1>2, <1>4, <1>5

\* A step past an entry leaves what its list should hold of it.
LEMMA TargetStays ==
  ASSUME CommitInv, NEW l \in {"sad", "spd"}, NEW n \in Names(l), Subscribed(l),
         StepPast(l, n)
  PROVE  Target(l, n)' = Target(l, n)
<1> USE DEF Target, Idle
<1>0. /\ n \in DOMAIN Run(l)
      /\ Idle => New(l) = Run(l)
      /\ ~Idle /\ tx.list # l => New(l) = Run(l)
  BY CommitOf
<1>1. CASE UNCHANGED dsVars
  BY <1>1 DEF dsVars, Run, New
<1>2. CASE TimesOut
  <2>1. tx' # NoTx /\ tx'.list = tx.list /\ tx'.todo = tx.todo /\ ~Idle
    BY <1>2, TimedOutCommit DEF CommitInv, TimesOut
  <2>2. Run(l)' = Run(l) /\ New(l)' = New(l)
    BY <1>2 DEF TimesOut, Run, New
  <2>3. QED
    BY <2>1, <2>2
<1>3. CASE Commit
  <2>1. Run(l)' = New(l) /\ tx' = NoTx
    BY <1>3 DEF Commit, Run, New
  <2>2. ~Idle /\ tx.todo = {}
    BY <1>3 DEF Commit
  <2>3. QED
    BY <1>0, <2>1, <2>2
<1>4. ASSUME ~Idle, NEW m, Handled(m), tx.list = l => m # n
      PROVE  Target(l, n)' = Target(l, n)
  <2>1. tx' # NoTx /\ tx'.list = tx.list /\ tx'.todo = tx.todo \ {m}
    BY <1>4, HandledCommit DEF CommitInv
  <2>2. Run(l)' = Run(l) /\ New(l)' = New(l)
    BY <1>4 DEF Handled, Run, New
  <2>3. QED
    BY <1>4, <2>1, <2>2
<1>5. CASE Abort /\ n \notin Applied(Run(l), New(l))
  <2>1. Run(l)' = Run(l) /\ tx' = NoTx
    BY <1>5 DEF Abort, Run
  <2>2. n \notin tx.todo => Run(l)[n] = New(l)[n]
    BY <1>0, <1>5 DEF Applied, Changed
  <2>3. QED
    BY <2>1, <2>2
<1>6. ASSUME Idle, Run(l)' = Run(l),
             tx'.list = l /\ n \notin tx'.todo => New(l)'[n] = Run(l)[n]
      PROVE  Target(l, n)' = Target(l, n)
  BY <1>6
<1>7. ASSUME NEW new \in SadWanted, ControllerEditsSad(new, SubscribedSad)
      PROVE  Target(l, n)' = Target(l, n)
  <2>1. Idle /\ Run(l)' = Run(l) /\ newSad' = new
    BY <1>7 DEF ControllerEditsSad, Run
  <2>2. tx'.list = "sad" /\ (SubscribedSad => tx'.todo = Changed(runSad, new))
    BY <1>7 DEF ControllerEditsSad
  <2>3. l = "sad" /\ n \notin tx'.todo => New(l)'[n] = Run(l)[n]
    BY <1>0, <2>1, <2>2 DEF Subscribed, Changed, Run, New
  <2>4. QED
    BY <1>6, <2>1, <2>2, <2>3
<1>8. ASSUME NEW new \in SpdWanted, ControllerEditsSpd(new, SubscribedSpd)
      PROVE  Target(l, n)' = Target(l, n)
  <2>1. Idle /\ Run(l)' = Run(l) /\ newSpd' = new
    BY <1>8 DEF ControllerEditsSpd, Run
  <2>2. tx'.list = "spd" /\ (SubscribedSpd => tx'.todo = Changed(runSpd, new))
    BY <1>8 DEF ControllerEditsSpd
  <2>3. l = "spd" /\ n \notin tx'.todo => New(l)'[n] = Run(l)[n]
    BY <1>0, <2>1, <2>2 DEF Subscribed, Changed, Run, New
  <2>4. QED
    BY <1>6, <2>1, <2>2, <2>3
<1>9. ASSUME NEW m \in SadNames, ThreadDeletes(m)
      PROVE  Target(l, n)' = Target(l, n)
  <2>1. Idle /\ Run(l)' = Run(l) /\ newSad' = [runSad EXCEPT ![m] = ABSENT]
    BY <1>9 DEF ThreadDeletes, Run
  <2>2. tx'.list = "sad" /\ tx'.todo = {m}
    BY <1>9 DEF ThreadDeletes
  <2>3. l = "sad" /\ n \notin tx'.todo => New(l)'[n] = Run(l)[n]
    BY <1>0, <2>1, <2>2 DEF Run, New
  <2>4. QED
    BY <1>6, <2>1, <2>2, <2>3
<1>10. QED
  BY <1>1, <1>2, <1>3, <1>4, <1>5, <1>7, <1>8, <1>9 DEF StepPast

\* If nothing is modified, a configuration that the list should have of an
\* entry is still one of the two after such a step.
LEMMA CfgStays ==
  ASSUME CommitInv, NEW l \in {"sad", "spd"}, NEW n \in Names(l), StepPast(l, n),
         "modify" \notin Edits,
         NEW c \in {Run(l)[n], New(l)[n]}, c # ABSENT, Target(l, n) # ABSENT
  PROVE  c \in {Run(l)'[n], New(l)'[n]}
<1>0. /\ n \in DOMAIN Run(l)
      /\ Idle => New(l) = Run(l)
      /\ ~Idle /\ tx.list # l => New(l) = Run(l)
      /\ Run(l)[n] = New(l)[n] \/ Run(l)[n] = ABSENT \/ New(l)[n] = ABSENT
  BY CommitOf
<1>1. CASE Run(l)' = Run(l) /\ New(l)' = New(l)
  BY <1>1
<1>2. CASE Commit
  <2>1. Run(l)' = New(l)
    BY <1>2 DEF Commit, Run, New
  <2>2. Run(l)[n] # New(l)[n] => New(l)[n] # ABSENT
    BY <1>0, <1>2 DEF Commit, Target
  <2>3. QED
    BY <1>0, <2>1, <2>2
<1>3. CASE Abort /\ n \notin Applied(Run(l), New(l))
  <2>1. Run(l)' = Run(l)
    BY <1>3 DEF Abort, Run
  <2>2. Run(l)[n] # New(l)[n] => Run(l)[n] # ABSENT
    BY <1>0, <1>3 DEF Applied, Changed, Target
  <2>3. QED
    BY <1>0, <2>1, <2>2
<1>4. CASE Idle /\ Run(l)' = Run(l)
  BY <1>0, <1>4
<1>5. UNCHANGED dsVars \/ TimesOut \/ (\E m : Handled(m))
        => Run(l)' = Run(l) /\ New(l)' = New(l)
  BY DEF dsVars, TimesOut, Handled, Run, New
<1>6. /\ \A new, s : ControllerEditsSad(new, s) \/ ControllerEditsSpd(new, s)
                       => Idle /\ Run(l)' = Run(l)
      /\ \A m : ThreadDeletes(m) => Idle /\ Run(l)' = Run(l)
  BY DEF ControllerEditsSad, ControllerEditsSpd, ThreadDeletes, Run
<1>7. QED
  BY <1>1, <1>2, <1>3, <1>4, <1>5, <1>6 DEF StepPast


-----------------------------------------------------------------------------
(* Steps of the daemon besides those of the list's own callback *)

Astray(l) == IF l = "sad" THEN astraySad ELSE astraySpd

\* Undoing a commit passes by the entries it does not lead astray.
LEMMA UndoStepsPast ==
  ASSUME Undo, NEW l, NEW n, n \notin Astray(l)'
  PROVE  StepPast(l, n)
<1>1. /\ Abort
      /\ astraySad' = astraySad \cup Applied(runSad, newSad)
      /\ astraySpd' = astraySpd \cup Applied(runSpd, newSpd)
  BY DEF Undo
<1>2. n \notin Applied(Run(l), New(l))
  BY <1>1 DEF Astray, Run, New
<1>3. QED
  BY <1>1, <1>2 DEF StepPast

\* The callback of the other list is at work on a commit of that list.
LEMMA OtherCallback ==
  ASSUME SadTypeOK, SpdTypeOK, WorkInv, NEW l \in {"sad", "spd"}, NEW n, n \notin Astray(l)',
         \/ l = "spd" /\ sad_entry_change_cb
         \/ l = "sad" /\ spd_entry_change_cb
  PROVE  StepPast(l, n)
<1>0. SadWork /\ SpdWork
  BY DEF WorkInv
<1>1. ASSUME NEW k, k # l, NEW m, ChangeNext(k, m), UNCHANGED dsVars \/ Handled(m) \/ Undo
      PROVE  StepPast(l, n)
  <2>1. ~Idle /\ tx.list # l
    BY <1>1 DEF ChangeNext
  <2>2. QED
    BY <1>1, <2>1, UndoStepsPast DEF StepPast
<1>2. CASE l = "spd" /\ sad_entry_change_cb
  <2>1. ASSUME NEW m \in SadNames, SadCreate(m) \/ SadDelete(m) \/ SadModify(m)
        PROVE  StepPast(l, n)
    <3>1. /\ ChangeNext("sad", m)
          /\ UNCHANGED dsVars \/ Handled(m) \/ Undo
      BY <2>1 DEF SadCreate, SadDelete, SadModify, SadChange
    <3>2. QED
      BY <1>1, <1>2, <3>1
  <2>2. CASE SadPfAdd \/ SadUnlink
    <3>1. sadOp # NoSadOp /\ Handled(sadOp.node.name)
      BY <2>2 DEF SadPfAdd, SadUnlink, PfAddSad, DelSadNode, NoSadOp
    <3>2. QED
      BY <1>0, <1>1, <1>2, <3>1 DEF SadWork
  <2>3. QED
    BY <1>2, <2>1, <2>2 DEF sad_entry_change_cb
<1>3. CASE l = "sad" /\ spd_entry_change_cb
  <2>1. ASSUME NEW m \in SpdNames, SpdCreate(m) \/ SpdDelete(m) \/ SpdModify(m)
        PROVE  StepPast(l, n)
    <3>1. /\ ChangeNext("spd", m)
          /\ UNCHANGED dsVars \/ Handled(m) \/ Undo
      BY <2>1 DEF SpdCreate, SpdDelete, SpdModify, SpdChange
    <3>2. QED
      BY <1>1, <1>3, <3>1
  <2>2. CASE SpdPfAdd \/ SpdPfAddForward \/ SpdPfDelForward \/ SpdUnlink
    <3>1. /\ spdOp # NoSpdOp
          /\ UNCHANGED dsVars \/ Handled(spdOp.node.name)
      BY <2>2
      DEF SpdPfAdd, SpdPfAddForward, SpdPfDelForward, SpdUnlink, PfAddPolicy, PfAddForward,
          PfDelForward, DelSpdNode, NoSpdOp
    <3>2. QED
      BY <1>0, <1>1, <1>3, <3>1 DEF SpdWork
  <2>3. QED
    BY <1>3, <2>1, <2>2 DEF spd_entry_change_cb
<1>4. QED
  BY <1>2, <1>3

\* So is every step of the others, besides the end of the process.
LEMMA OtherSteps ==
  ASSUME SadTypeOK, SpdTypeOK, ThreadInv, WorkInv, [Next]_vars,
         NEW l \in {"sad", "spd"}, NEW n, n \notin Astray(l)', ~ProcessEnds,
         l = "sad" => ~sad_entry_change_cb,
         l = "spd" => ~spd_entry_change_cb
  PROVE  StepPast(l, n)
<1>1. CASE sad_entry_change_cb \/ spd_entry_change_cb
  BY <1>1, OtherCallback
<1>2. CASE pf_sadb_esp_register_run
  <2>1. ApplyDelete => \E m \in SadNames : ThreadDeletes(m)
    BY DEF ApplyDelete, ThreadInv, ThreadTypeOK
  <2>2. QED
    BY <1>2, <2>1 DEF pf_sadb_esp_register_run, ApplyNothing, StepPast
<1>3. CASE FinishCommit
  BY <1>3, UndoStepsPast DEF FinishCommit, StepPast
<1>4. CASE Controller \/ GivesUp
  BY <1>4 DEF Controller, GivesUp, StepPast
<1>5. CASE \/ SubscribeSpd \/ SubscribeSad \/ sadb_register \/ KernelTellsOther
           \/ \E k \in SaIds : KernelExpires(k) \/ OtherProgramAdds(k)
           \/ UNCHANGED vars
  BY <1>5
  DEF SubscribeSpd, SubscribeSad, sadb_register, KernelTellsOther, KernelExpires,
      OtherProgramAdds, vars, StepPast
<1>6. QED
  BY <1>1, <1>2, <1>3, <1>4, <1>5 DEF Next, Crash, Environment, Stop

\* While the callback of a list is at work on an entry, the others leave the
\* commit it is at work on alone, or give it up.
LEMMA OthersWait ==
  ASSUME SadTypeOK, SpdTypeOK, ThreadInv, WorkInv, [Next]_vars,
         NEW l \in {"sad", "spd"}, NEW n, ChangeNext(l, n), ~ProcessEnds,
         l = "sad" => ~sad_entry_change_cb,
         l = "spd" => ~spd_entry_change_cb
  PROVE  Run(l)' = Run(l) /\ New(l)' = New(l)
<1>0. SadWork /\ SpdWork
  BY DEF WorkInv
<1>1. /\ ~Idle /\ ~Commit /\ ~(Late /\ tx.todo = {})
      /\ \A m : ~ThreadDeletes(m)
      /\ \A new, s : ~ControllerEditsSad(new, s) /\ ~ControllerEditsSpd(new, s)
      /\ \A m : ChangeNext("sad", m) => l = "sad"
      /\ \A m : ChangeNext("spd", m) => l = "spd"
  BY NoOtherWork
<1>2. CASE UNCHANGED dsVars \/ TimesOut
  BY <1>2 DEF dsVars, TimesOut, Run, New
<1>3. ~sad_entry_change_cb
  <2>1. l = "spd" => sadOp = NoSadOp
    BY <1>0, <1>1 DEF SadWork
  <2>2. ~(SadPfAdd \/ SadUnlink) \/ sadOp # NoSadOp
    BY DEF SadPfAdd, SadUnlink, PfAddSad, DelSadNode, NoSadOp
  <2>3. QED
    BY <1>1, <2>1, <2>2
    DEF sad_entry_change_cb, SadCreate, SadDelete, SadModify, SadChange
<1>4. ~spd_entry_change_cb
  <2>1. l = "sad" => spdOp = NoSpdOp
    BY <1>0, <1>1 DEF SpdWork
  <2>2. ~(SpdPfAdd \/ SpdPfAddForward \/ SpdPfDelForward \/ SpdUnlink) \/ spdOp # NoSpdOp
    BY DEF SpdPfAdd, SpdPfAddForward, SpdPfDelForward, SpdUnlink, PfAddPolicy,
           PfAddForward, PfDelForward, DelSpdNode, NoSpdOp
  <2>3. QED
    BY <1>1, <2>1, <2>2
    DEF spd_entry_change_cb, SpdCreate, SpdDelete, SpdModify, SpdChange
<1>5. CASE pf_sadb_esp_register_run
  BY <1>1, <1>2, <1>5 DEF pf_sadb_esp_register_run, ApplyDelete, ApplyNothing
<1>6. CASE Environment \/ FinishCommit
  BY <1>1, <1>2, <1>6
  DEF Environment, Controller, KernelExpires, OtherProgramAdds, KernelTellsOther,
      GivesUp, Stop, FinishCommit
<1>7. CASE SubscribeSpd \/ SubscribeSad \/ sadb_register \/ UNCHANGED vars
  BY <1>2, <1>7 DEF SubscribeSpd, SubscribeSad, sadb_register, vars
<1>8. QED
  BY <1>3, <1>4, <1>5, <1>6, <1>7 DEF Next, Crash

\* Handling an entry turns what its list should hold of it from the running
\* configuration's to the new one's.
LEMMA TargetTurns ==
  ASSUME CommitInv, NEW l \in {"sad", "spd"}, NEW n \in Names(l),
         ChangeNext(l, n), Handled(n)
  PROVE  /\ Target(l, n) = Run(l)[n] /\ Target(l, n)' = New(l)[n]
         /\ Run(l)' = Run(l) /\ New(l)' = New(l)
<1>1. tx' # NoTx /\ tx'.list = l /\ n \notin tx'.todo
  BY HandledCommit DEF CommitInv, ChangeNext
<1>2. Run(l)' = Run(l) /\ New(l)' = New(l)
  BY DEF Handled, Run, New
<1>3. QED
  BY <1>1, <1>2 DEF Target, ChangeNext, Idle

-----------------------------------------------------------------------------
(* The SPD *)

\* SpdTracks in terms of sets.
LEMMA SpdTracksSets ==
  ASSUME NEW n
  PROVE  SpdTracks(n) <=>
           /\ n \in NamesIn(spd) <=> Target("spd", n) # ABSENT \/ SpdBusy(n)
           /\ "modify" \notin Edits => CfgsUnder(spd, n) \subseteq {runSpd[n], newSpd[n]}
BY DEF SpdTracks, SpdTarget, Target, Run, New, CfgsUnder

\* The configuration of a node is one.
LEMMA SpdCfgsThere ==
  ASSUME SpdTypeOK, NEW n
  PROVE  /\ \A c \in CfgsUnder(spd, n) : c \in SpdCfg /\ c # ABSENT
         /\ n \notin NamesIn(spd) => CfgsUnder(spd, n) = {}
<1>1. \A i \in 1..Len(spd) : spd[i] \in SpdNode
  BY ElementOfSeq DEF SpdTypeOK
<1>2. ASSUME NEW c \in CfgsUnder(spd, n)
      PROVE  c \in SpdCfg /\ c # ABSENT
  <2>1. PICK i \in 1..Len(spd) : c = spd[i].cfg
    BY <1>2 DEF CfgsUnder
  <2>2. c \in SpdCfg
    BY <1>1, <2>1 DEF SpdNode
  <2>3. QED
    BY <2>2, NamesAssumption
<1>3. n \notin NamesIn(spd) => CfgsUnder(spd, n) = {}
  BY NothingUnder
<1>4. QED
  BY <1>2, <1>3

\* An entry that a step passes by keeps its place in the list.
LEMMA SpdTracksStays ==
  ASSUME SpdTypeOK, CommitInv, NEW n \in SpdNames, SubscribedSpd, SpdTracks(n),
         StepPast("spd", n),
         SpdBusy(n)' <=> SpdBusy(n),
         SpdBusy(n) => runSpd' = runSpd /\ newSpd' = newSpd,
         n \in NamesIn(spd)' <=> n \in NamesIn(spd),
         CfgsUnder(spd, n)' \subseteq CfgsUnder(spd, n)
  PROVE  SpdTracks(n)'
<1>0. n \in Names("spd") /\ Subscribed("spd")
  BY DEF Names, Subscribed
<1>1. Target("spd", n)' = Target("spd", n)
  BY <1>0, TargetStays
<1>2. Run("spd") = runSpd /\ New("spd") = newSpd
  BY DEF Run, New
<1>3. Run("spd")' = runSpd' /\ New("spd")' = newSpd'
  BY DEF Run, New
<1>4. ASSUME "modify" \notin Edits, NEW c \in CfgsUnder(spd, n)'
      PROVE  c \in {runSpd'[n], newSpd'[n]}
  <2>1. c \in CfgsUnder(spd, n)
    OBVIOUS
  <2>2. c \in {runSpd[n], newSpd[n]} /\ c # ABSENT /\ n \in NamesIn(spd)
    BY <1>4, <2>1, SpdTracksSets, SpdCfgsThere
  <2>3. CASE SpdBusy(n)
    BY <2>2, <2>3
  <2>4. CASE ~SpdBusy(n)
    <3>1. Target("spd", n) # ABSENT
      BY <2>2, <2>4, SpdTracksSets
    <3>2. QED
      BY <1>0, <1>2, <1>3, <1>4, <2>2, <3>1, CfgStays
  <2>5. QED
    BY <2>3, <2>4
<1>5. /\ n \in NamesIn(spd)' <=> Target("spd", n)' # ABSENT \/ SpdBusy(n)'
      /\ "modify" \notin Edits => CfgsUnder(spd, n)' \subseteq {runSpd[n], newSpd[n]}'
  BY <1>1, <1>4, SpdTracksSets
<1>6. QED
  BY <1>5 DEF SpdTracks, SpdTarget, Target, Run, New, CfgsUnder

\* The entry a step is about, when it stays in the list or comes into it.
LEMMA SpdTracksSteps ==
  ASSUME SpdTypeOK, CommitInv, SpdWork, SpdNamesUnique, [Next]_vars,
         NEW n \in SpdNames, SubscribedSpd, SpdTracks(n), spd_entry_change_cb,
         n \notin astraySpd'
  PROVE  SpdTracks(n)'
<1>0. n \in Names("spd") /\ Run("spd") = runSpd /\ New("spd") = newSpd
  BY DEF Names, Run, New
<1> DEFINE Names2 == n \in NamesIn(spd)' <=> n \in NamesIn(spd)
           Less == CfgsUnder(spd, n)' \subseteq CfgsUnder(spd, n)
           Goal == /\ n \in NamesIn(spd)' <=> Target("spd", n)' # ABSENT \/ SpdBusy(n)'
                   /\ "modify" \notin Edits =>
                        CfgsUnder(spd, n)' \subseteq {runSpd[n], newSpd[n]}'
<1>1. Goal => SpdTracks(n)'
  BY DEF SpdTracks, SpdTarget, Target, Run, New, CfgsUnder
<1>2. /\ n \in NamesIn(spd) <=> Target("spd", n) # ABSENT \/ SpdBusy(n)
      /\ "modify" \notin Edits => CfgsUnder(spd, n) \subseteq {runSpd[n], newSpd[n]}
  BY SpdTracksSets
<1>3. UNCHANGED spd => Names2 /\ Less
  BY DEF CfgsUnder
<1>4. spd \in Seq(SpdNode)
  BY DEF SpdTypeOK
<1>5. ASSUME NEW m \in SpdNames, SpdCreate(m)
      PROVE  SpdTracks(n)'
  <2>1. /\ ChangeNext("spd", m) /\ runSpd[m] = ABSENT /\ newSpd[m] # ABSENT
        /\ spdOp = NoSpdOp
    BY <1>5, EditKinds DEF SpdCreate, SpdChange, AddSpdNode, SpdExists
  <2>2. ~SpdBusy(n)
    BY <2>1 DEF SpdBusy
  <2>3. CASE AddSpdNode(m, newSpd[m]) /\ UNCHANGED dsVars
    <3> DEFINE node == [name |-> m, cfg |-> newSpd[m]]
    <3>1. /\ spd' = Append(spd, node) /\ spdOp' = [op |-> "add", node |-> node]
          /\ m \notin NamesIn(spd)
      BY <1>4, <2>3, FoundIfThere DEF AddSpdNode, get_spd_node
    <3>2. node \in SpdNode
      <4>1. newSpd[m] \in SpdCfg
        BY <2>1 DEF CommitInv, DsTypeOK, SpdConfigs
      <4>2. QED
        BY <4>1 DEF SpdNode
    <3>3. \A k : SpdBusy(k)' <=> k = m
      BY <3>1 DEF SpdBusy, NoSpdOp
    <3>4. /\ NamesIn(spd)' = NamesIn(spd) \cup {m}
          /\ n # m => CfgsUnder(spd, n)' = CfgsUnder(spd, n)
          /\ CfgsUnder(spd, m)' = {newSpd[m]}
      <4>1. node.name = m /\ node.cfg = newSpd[m]
        OBVIOUS
      <4> HIDE DEF node
      <4>2. /\ NamesIn(spd') = NamesIn(spd) \cup {m}
            /\ n # m => CfgsUnder(spd', n) = CfgsUnder(spd, n)
            /\ CfgsUnder(spd', m) = {newSpd[m]}
        <5>1. NamesIn(Append(spd, node)) = NamesIn(spd) \cup {node.name}
          BY <1>4, <3>2, AppendedNames
        <5>2. n # node.name => CfgsUnder(Append(spd, node), n) = CfgsUnder(spd, n)
          BY <1>4, <3>2, AppendedNames
        <5>3. node.name \notin NamesIn(spd)
                => CfgsUnder(Append(spd, node), node.name) = {node.cfg}
          BY <1>4, <3>2, AppendedNames
        <5>4. QED
          BY <3>1, <4>1, <5>1, <5>2, <5>3
      <4>3. QED
        BY <4>2 DEF CfgsUnder, NamesIn
    <3>5. CASE n = m
      BY <1>1, <2>3, <3>3, <3>4, <3>5 DEF dsVars
    <3>6. CASE n # m
      BY <2>2, <2>3, <3>3, <3>4, <3>6, SpdTracksStays DEF StepPast
    <3>7. QED
      BY <3>5, <3>6
  <2>4. CASE SpdExists(m) /\ Handled(m)
    <3>1. UNCHANGED <<spd, spdOp>> /\ m \in NamesIn(spd)
      BY <1>4, <2>4, FoundIfThere DEF SpdExists, spdVars, get_spd_node
    <3>2. n # m
      BY <1>0, <1>2, <2>1, <2>2, <2>4, <3>1, TargetTurns
    <3>3. StepPast("spd", n)
      BY <2>1, <2>4, <3>2 DEF StepPast, ChangeNext
    <3>4. ~SpdBusy(n)'
      BY <2>1, <3>1 DEF SpdBusy
    <3>5. QED
      BY <1>3, <2>2, <3>1, <3>3, <3>4, SpdTracksStays
  <2>5. QED
    BY <1>5, <2>3, <2>4 DEF SpdCreate
<1>6. ASSUME NEW m \in SpdNames, SpdDelete(m)
      PROVE  SpdTracks(n)'
  <2>1. /\ ChangeNext("spd", m) /\ runSpd[m] # ABSENT /\ newSpd[m] = ABSENT
        /\ spdOp = NoSpdOp
    BY <1>6, EditKinds DEF SpdDelete, SpdChange, PfDelPolicy, SpdNotFound
  <2>2. ~SpdBusy(n)
    BY <2>1 DEF SpdBusy
  <2>3. CASE PfDelPolicy(m) /\ UNCHANGED dsVars
    <3>1. /\ spd' = spd /\ m \in NamesIn(spd)
          /\ spdOp' # NoSpdOp /\ spdOp'.node.name = m
      BY <1>4, <2>3, FoundIfThere, FoundSpdNode DEF PfDelPolicy, NoSpdOp, get_spd_node
    <3>2. \A k : SpdBusy(k)' <=> k = m
      BY <3>1 DEF SpdBusy
    <3>3. CASE n = m
      BY <1>1, <1>2, <1>3, <2>3, <3>1, <3>2, <3>3 DEF dsVars
    <3>4. CASE n # m
      BY <1>3, <2>2, <2>3, <3>1, <3>2, <3>4, SpdTracksStays DEF StepPast
    <3>5. QED
      BY <3>3, <3>4
  <2>4. CASE SpdNotFound(m) /\ Undo
    <3>1. UNCHANGED <<spd, spdOp>> /\ n \notin Applied(runSpd, newSpd) /\ Abort
      BY <2>4 DEF SpdNotFound, spdVars, Undo
    <3>2. StepPast("spd", n) /\ ~SpdBusy(n)'
      BY <1>0, <2>1, <3>1 DEF StepPast, SpdBusy
    <3>3. QED
      BY <1>3, <2>2, <3>1, <3>2, SpdTracksStays
  <2>5. QED
    BY <1>6, <2>3, <2>4 DEF SpdDelete
<1>7. ASSUME NEW m \in SpdNames, SpdModify(m)
      PROVE  SpdTracks(n)'
  <2>1. /\ ChangeNext("spd", m) /\ runSpd[m] # ABSENT /\ newSpd[m] # ABSENT
        /\ spdOp = NoSpdOp /\ Handled(m) /\ UNCHANGED <<spd, spdOp>>
    BY <1>7, EditKinds DEF SpdModify, SpdChange, spdVars
  <2>2. ~SpdBusy(n) /\ ~SpdBusy(n)'
    BY <2>1 DEF SpdBusy
  <2>3. CASE n = m
    <3>1. Target("spd", n) # ABSENT /\ Target("spd", n)' # ABSENT
      BY <1>0, <2>1, <2>3, TargetTurns
    <3>2. runSpd' = runSpd /\ newSpd' = newSpd
      BY <2>1 DEF Handled
    <3>3. QED
      BY <1>1, <1>2, <1>3, <2>1, <2>2, <3>1, <3>2
  <2>4. CASE n # m
    <3>1. StepPast("spd", n)
      BY <2>1, <2>4 DEF StepPast, ChangeNext
    <3>2. QED
      BY <1>3, <2>1, <2>2, <3>1, SpdTracksStays
  <2>5. QED
    BY <2>3, <2>4
<1>8. ASSUME spdOp # NoSpdOp, UNCHANGED <<spd, dsVars>>,
             spdOp' # NoSpdOp, spdOp'.node = spdOp.node
      PROVE  SpdTracks(n)'
  <2>1. SpdBusy(n)' <=> SpdBusy(n)
    BY <1>8 DEF SpdBusy
  <2>2. QED
    BY <1>3, <1>8, <2>1, SpdTracksStays DEF StepPast, dsVars
<1>9. ASSUME spdOp.op \in {"add", "addForward"}, UNCHANGED spd, spdOp' = NoSpdOp,
             Handled(spdOp.node.name)
      PROVE  SpdTracks(n)'
  <2>1. spdOp # NoSpdOp
    BY <1>9 DEF NoSpdOp
  <2>2. /\ ChangeNext("spd", spdOp.node.name)
        /\ newSpd[spdOp.node.name] = spdOp.node.cfg /\ spdOp.node.cfg # ABSENT
    BY <1>9, <2>1, SpdOpNode, NamesAssumption DEF SpdWork
  <2>3. ~SpdBusy(n)'
    BY <1>9 DEF SpdBusy
  <2>4. CASE n = spdOp.node.name
    <3>1. Target("spd", n)' # ABSENT
      BY <1>0, <1>9, <2>2, <2>4, TargetTurns
    <3>2. n \in NamesIn(spd)
      BY <1>2, <2>1, <2>4 DEF SpdBusy
    <3>3. runSpd' = runSpd /\ newSpd' = newSpd
      BY <1>9 DEF Handled
    <3>4. QED
      BY <1>1, <1>2, <1>3, <1>9, <3>1, <3>2, <3>3
  <2>5. CASE n # spdOp.node.name
    <3>1. StepPast("spd", n) /\ ~SpdBusy(n)
      BY <1>9, <2>2, <2>5 DEF StepPast, ChangeNext, SpdBusy
    <3>2. QED
      BY <1>3, <1>9, <2>3, <3>1, SpdTracksStays
  <2>6. QED
    BY <2>4, <2>5
<1>10. CASE SpdPfAdd
  <2>1. spdOp.op = "add" /\ spdOp # NoSpdOp /\ UNCHANGED spd
    BY <1>10 DEF SpdPfAdd, PfAddPolicy, NoSpdOp
  <2>2. CASE Inbound(spdOp.node)
    <3>1. /\ spdOp' = [spdOp EXCEPT !.op = "addForward"] /\ UNCHANGED dsVars
      BY <1>10, <2>2 DEF SpdPfAdd, PfAddPolicy
    <3>2. spdOp'.node = spdOp.node /\ spdOp' # NoSpdOp
      BY <2>1, <3>1, SpdOpNode DEF NoSpdOp
    <3>3. QED
      BY <1>8, <2>1, <3>1, <3>2
  <2>3. CASE ~Inbound(spdOp.node)
    BY <1>9, <1>10, <2>1, <2>3 DEF SpdPfAdd, PfAddPolicy
  <2>4. QED
    BY <2>2, <2>3
<1>11. CASE SpdPfAddForward
  BY <1>9, <1>11 DEF SpdPfAddForward, PfAddForward
<1>12. CASE SpdPfDelForward
  <2>1. /\ spdOp.op = "delForward" /\ spdOp # NoSpdOp
        /\ spdOp' = [spdOp EXCEPT !.op = "del"] /\ UNCHANGED <<spd, dsVars>>
    BY <1>12 DEF SpdPfDelForward, PfDelForward, NoSpdOp
  <2>2. spdOp'.node = spdOp.node /\ spdOp' # NoSpdOp
    BY <2>1, SpdOpNode DEF NoSpdOp
  <2>3. QED
    BY <1>8, <2>1, <2>2
<1>13. CASE SpdUnlink
  <2> DEFINE m == spdOp.node.name
  <2>1. /\ spdOp.op = "del" /\ spdOp # NoSpdOp /\ spdOp' = NoSpdOp
        /\ GetNode(spd, m) # 0 /\ spd' = DelNode(spd, m) /\ Handled(m)
    BY <1>13 DEF SpdUnlink, DelSpdNode, NoSpdOp, get_spd_node
  <2>2. ChangeNext("spd", m) /\ newSpd[m] = ABSENT
    BY <2>1 DEF SpdWork
  <2>3. Once(spd, m)
    BY DEF SpdNamesUnique, Once
  <2>4. ~SpdBusy(n)'
    BY <2>1 DEF SpdBusy
  <2>5. SpdBusy(n) <=> n = m
    BY <2>1 DEF SpdBusy
  <2> HIDE DEF m
  <2>6. /\ n # m => /\ n \in NamesIn(spd') <=> n \in NamesIn(spd)
                    /\ CfgsUnder(spd', n) \subseteq CfgsUnder(spd, n)
        /\ m \notin NamesIn(spd')
    BY <1>4, <2>1, <2>3, UnlinkedNames
  <2>7. CASE n = m
    <3>1. Target("spd", n)' = ABSENT
      BY <1>0, <2>1, <2>2, <2>7, TargetTurns
    <3>2. n \notin NamesIn(spd)' /\ CfgsUnder(spd, n)' = {}
      BY <2>6, <2>7, NothingUnder DEF NamesIn, CfgsUnder
    <3>3. QED
      BY <1>1, <2>4, <3>1, <3>2
  <2>8. CASE n # m
    <3>1. StepPast("spd", n)
      BY <2>1, <2>2, <2>8 DEF StepPast, ChangeNext
    <3>2. Names2 /\ Less
      BY <2>6, <2>8 DEF CfgsUnder, NamesIn
    <3>3. QED
      BY <2>4, <2>5, <2>8, <3>1, <3>2, SpdTracksStays
  <2>9. QED
    BY <2>7, <2>8
<1>14. QED
  BY <1>5, <1>6, <1>7, <1>10, <1>11, <1>12, <1>13 DEF spd_entry_change_cb

\* The entries that follow the running configuration go on doing so, and
\* entries that come under the callback when it subscribes do so at once.
LEMMA SpdTracksKept ==
  ASSUME SadTypeOK, SpdTypeOK, ThreadInv, WorkInv, SpdNamesUnique, SpdTracksRunning,
         [Next]_vars
  PROVE  SpdTracksRunning'
<1> SUFFICES ASSUME SubscribedSpd', NEW n \in SpdNames, n \notin astraySpd'
             PROVE  SpdTracks(n)'
  BY DEF SpdTracksRunning
<1>0. CommitInv /\ SpdWork
  BY DEF WorkInv
<1>1. CASE SubscribeSpd
  <2>1. /\ Idle /\ up = "down" /\ astraySpd' = Present(runSpd)
        /\ UNCHANGED <<spd, spdOp, runSpd, newSpd, tx>>
    BY <1>1 DEF SubscribeSpd, spdVars, dsVars
  <2>2. spd = << >> /\ spdOp = NoSpdOp
    BY <1>0, <2>1 DEF SpdWork, SubscribedSpd, ChangeNext
  <2>3. runSpd[n] = ABSENT
    BY <1>0, <2>1 DEF CommitInv, DsTypeOK, SpdConfigs, Present
  <2>4. \A i : i \notin 1..Len(spd')
    BY <2>1, <2>2
  <2>5. n \notin NamesIn(spd)'
    BY <2>4 DEF NamesIn
  <2>6. SpdTarget(n)' = ABSENT /\ ~SpdBusy(n)'
    BY <2>1, <2>2, <2>3 DEF SpdTarget, SpdBusy, Idle
  <2>7. QED
    BY <2>4, <2>5, <2>6 DEF SpdTracks
<1>2. CASE ProcessEnds
  BY <1>2 DEF ProcessEnds, SubscribedSpd
<1>3. CASE ~SubscribeSpd /\ ~ProcessEnds
  <2>1. SubscribedSpd
    BY <1>3
    DEF Next, Crash, Environment, Stop, SubscribeSad, sadb_register, spd_entry_change_cb,
        SpdCreate, SpdDelete, SpdModify, SpdPfAdd, SpdPfAddForward, SpdPfDelForward,
        SpdUnlink, SpdGoesOn, SpdRest, sad_entry_change_cb, SadCreate, SadDelete, SadModify,
        SadPfAdd, SadUnlink, SadGoesOn, SadRest, pf_sadb_esp_register_run, FinishCommit,
        Controller, KernelExpires, OtherProgramAdds, KernelTellsOther, GivesUp, vars,
        mainVars, SubscribedSpd
  <2>2. n \notin astraySpd
    BY <1>3
    DEF Next, Crash, Environment, Stop, SubscribeSad, sadb_register, spd_entry_change_cb,
        SpdCreate, SpdDelete, SpdModify, SpdPfAdd, SpdPfAddForward, SpdPfDelForward,
        SpdUnlink, SpdGoesOn, SpdRest, sad_entry_change_cb, SadCreate, SadDelete, SadModify,
        SadPfAdd, SadUnlink, SadGoesOn, SadRest, pf_sadb_esp_register_run, FinishCommit,
        Controller, KernelExpires, OtherProgramAdds, KernelTellsOther, GivesUp, vars,
        astrayVars, Undo
  <2>3. SpdTracks(n)
    BY <2>1, <2>2 DEF SpdTracksRunning
  <2>4. CASE spd_entry_change_cb
    BY <1>0, <2>1, <2>3, <2>4, SpdTracksSteps
  <2>5. CASE ~spd_entry_change_cb
    <3>1. StepPast("spd", n)
      BY <1>3, <2>5, OtherSteps DEF Astray
    <3>2. UNCHANGED <<spd, spdOp>>
      BY <1>3, <2>5
      DEF Next, Crash, Environment, Stop, SubscribeSad, sadb_register, sad_entry_change_cb,
          SadCreate, SadDelete, SadModify, SadPfAdd, SadUnlink, SadGoesOn, SadRest,
          pf_sadb_esp_register_run, FinishCommit, Controller, KernelExpires,
          OtherProgramAdds, KernelTellsOther, GivesUp, vars, spdVars
    <3>3. SpdBusy(n)' <=> SpdBusy(n)
      BY <3>2 DEF SpdBusy
    <3>4. SpdBusy(n) => runSpd' = runSpd /\ newSpd' = newSpd
      BY <1>0, <1>3, <2>5, OthersWait DEF SpdBusy, SpdWork, Run, New
    <3>5. QED
      BY <1>0, <2>1, <2>3, <3>1, <3>2, <3>3, <3>4, SpdTracksStays DEF CfgsUnder, NamesIn
  <2>6. QED
    BY <2>4, <2>5
<1>4. QED
  BY <1>1, <1>2, <1>3

(***************************************************************************)
(* SpdTracksRunning of the daemon for any number of entries, commits and   *)
(* restarts: the SPD list has a node for an entry, with the configuration  *)
(* of the entry, if and only if the running configuration has it or the    *)
(* callback is at work on it, for every entry that is not astray.          *)
(***************************************************************************)
THEOREM SpdTracksCorrect == Spec => []SpdTracksRunning
<1>1. Init => SpdTracksRunning
  BY DEF Init, SpdTracksRunning, SubscribedSpd
<1>2. SadTypeOK /\ SpdTypeOK /\ ThreadInv /\ WorkInv /\ SpdNamesUnique
        /\ SpdTracksRunning /\ [Next]_vars => SpdTracksRunning'
  BY SpdTracksKept
<1>3. QED
  BY <1>1, <1>2, WorkCorrect, AgentSpdSafe, PTL DEF Spec

-----------------------------------------------------------------------------
(* The SAD *)

\* SadTracks in terms of sets.
LEMMA SadTracksSets ==
  ASSUME NEW n
  PROVE  SadTracks(n) <=>
           /\ n \in NamesIn(sad) <=> Target("sad", n) # ABSENT \/ SadBusy(n)
           /\ Once(sad, n)
           /\ "modify" \notin Edits => CfgsUnder(sad, n) \subseteq {runSad[n], newSad[n]}
BY DEF SadTracks, SadTarget, Target, Run, New, CfgsUnder, Once

\* The configuration of a node is one.
LEMMA SadCfgsThere ==
  ASSUME SadTypeOK, NEW n
  PROVE  /\ \A c \in CfgsUnder(sad, n) : c \in SadCfg /\ c # ABSENT
         /\ n \notin NamesIn(sad) => CfgsUnder(sad, n) = {}
<1>1. \A i \in 1..Len(sad) : sad[i] \in SadNode
  BY ElementOfSeq DEF SadTypeOK
<1>2. ASSUME NEW c \in CfgsUnder(sad, n)
      PROVE  c \in SadCfg /\ c # ABSENT
  <2>1. PICK i \in 1..Len(sad) : c = sad[i].cfg
    BY <1>2 DEF CfgsUnder
  <2>2. c \in SadCfg
    BY <1>1, <2>1 DEF SadNode
  <2>3. QED
    BY <2>2, NamesAssumption
<1>3. n \notin NamesIn(sad) => CfgsUnder(sad, n) = {}
  BY NothingUnder
<1>4. QED
  BY <1>2, <1>3

\* An entry that a step passes by keeps its place in the list.
LEMMA SadTracksStays ==
  ASSUME SadTypeOK, CommitInv, NEW n \in SadNames, SubscribedSad, SadTracks(n),
         StepPast("sad", n),
         SadBusy(n)' <=> SadBusy(n),
         SadBusy(n) => runSad' = runSad /\ newSad' = newSad,
         n \in NamesIn(sad)' <=> n \in NamesIn(sad),
         Once(sad, n) => Once(sad, n)',
         CfgsUnder(sad, n)' \subseteq CfgsUnder(sad, n)
  PROVE  SadTracks(n)'
<1>0. n \in Names("sad") /\ Subscribed("sad")
  BY DEF Names, Subscribed
<1>1. Target("sad", n)' = Target("sad", n)
  BY <1>0, TargetStays
<1>2. Run("sad") = runSad /\ New("sad") = newSad
  BY DEF Run, New
<1>3. Run("sad")' = runSad' /\ New("sad")' = newSad'
  BY DEF Run, New
<1>4. ASSUME "modify" \notin Edits, NEW c \in CfgsUnder(sad, n)'
      PROVE  c \in {runSad'[n], newSad'[n]}
  <2>1. c \in CfgsUnder(sad, n)
    OBVIOUS
  <2>2. c \in {runSad[n], newSad[n]} /\ c # ABSENT /\ n \in NamesIn(sad)
    BY <1>4, <2>1, SadTracksSets, SadCfgsThere
  <2>3. CASE SadBusy(n)
    BY <2>2, <2>3
  <2>4. CASE ~SadBusy(n)
    <3>1. Target("sad", n) # ABSENT
      BY <2>2, <2>4, SadTracksSets
    <3>2. QED
      BY <1>0, <1>2, <1>3, <1>4, <2>2, <3>1, CfgStays
  <2>5. QED
    BY <2>3, <2>4
<1>5. /\ n \in NamesIn(sad)' <=> Target("sad", n)' # ABSENT \/ SadBusy(n)'
      /\ Once(sad, n)'
      /\ "modify" \notin Edits => CfgsUnder(sad, n)' \subseteq {runSad[n], newSad[n]}'
  BY <1>1, <1>4, SadTracksSets
<1>6. QED
  BY <1>5 DEF SadTracks, SadTarget, Target, Run, New, CfgsUnder, Once

\* The entry a step is about, when it stays in the list or comes into it.
LEMMA SadTracksSteps ==
  ASSUME SadTypeOK, CommitInv, SadWork, [Next]_vars,
         NEW n \in SadNames, SubscribedSad, SadTracks(n), sad_entry_change_cb,
         n \notin astraySad'
  PROVE  SadTracks(n)'
<1>0. n \in Names("sad") /\ Run("sad") = runSad /\ New("sad") = newSad
  BY DEF Names, Run, New
<1> DEFINE Names2 == n \in NamesIn(sad)' <=> n \in NamesIn(sad)
           Less == CfgsUnder(sad, n)' \subseteq CfgsUnder(sad, n)
           Goal == /\ n \in NamesIn(sad)' <=> Target("sad", n)' # ABSENT \/ SadBusy(n)'
                   /\ Once(sad, n)'
                   /\ "modify" \notin Edits =>
                        CfgsUnder(sad, n)' \subseteq {runSad[n], newSad[n]}'
<1>1. Goal => SadTracks(n)'
  BY DEF SadTracks, SadTarget, Target, Run, New, CfgsUnder, Once
<1>2. /\ n \in NamesIn(sad) <=> Target("sad", n) # ABSENT \/ SadBusy(n)
      /\ Once(sad, n)
      /\ "modify" \notin Edits => CfgsUnder(sad, n) \subseteq {runSad[n], newSad[n]}
  BY SadTracksSets
<1>3. UNCHANGED sad => Names2 /\ Less /\ Once(sad, n)'
  BY <1>2 DEF CfgsUnder, Once
<1>4. sad \in Seq(SadNode)
  BY DEF SadTypeOK
<1>5. ASSUME NEW m \in SadNames, SadCreate(m)
      PROVE  SadTracks(n)'
  <2>1. /\ ChangeNext("sad", m) /\ runSad[m] = ABSENT /\ newSad[m] # ABSENT
        /\ sadOp = NoSadOp /\ AddSadNode(m, newSad[m]) /\ UNCHANGED dsVars
    BY <1>5, EditKinds DEF SadCreate, SadChange, AddSadNode
  <2>2. ~SadBusy(n)
    BY <2>1 DEF SadBusy
  <2> DEFINE node == [name |-> m, cfg |-> newSad[m]]
  <2>3. sad' = Append(sad, node) /\ sadOp' = [op |-> "add", node |-> node]
    BY <2>1 DEF AddSadNode
  <2>4. node \in SadNode
    <3>1. newSad[m] \in SadCfg
      BY <2>1 DEF CommitInv, DsTypeOK, SadConfigs
    <3>2. QED
      BY <3>1 DEF SadNode
  <2>5. \A k : SadBusy(k)' <=> k = m
    BY <2>3 DEF SadBusy, NoSadOp
  <2>6. node.name = m /\ node.cfg = newSad[m]
    OBVIOUS
  <2> HIDE DEF node
  <2>7. NamesIn(Append(sad, node)) = NamesIn(sad) \cup {m}
    BY <1>4, <2>4, <2>6, AppendedNames
  <2>8. CASE n = m
    <3>1. n \notin NamesIn(sad)
      <4>1. Target("sad", n) = ABSENT
        BY <1>0, <2>1, <2>8 DEF Target, ChangeNext
      <4>2. QED
        BY <1>2, <2>2, <4>1
    <3>2. Once(Append(sad, node), n) /\ CfgsUnder(Append(sad, node), n) = {newSad[n]}
      <4>1. node.name \notin NamesIn(sad)
        BY <2>6, <2>8, <3>1
      <4>2. /\ Once(Append(sad, node), node.name)
            /\ CfgsUnder(Append(sad, node), node.name) = {node.cfg}
        BY <1>4, <2>4, <4>1, AppendedNames
      <4>3. QED
        BY <2>6, <2>8, <4>2
    <3>3. /\ n \in NamesIn(sad)' /\ SadBusy(n)' /\ Once(sad, n)'
          /\ CfgsUnder(sad, n)' = {newSad[n]} /\ newSad' = newSad
      BY <2>1, <2>3, <2>5, <2>7, <2>8, <3>2 DEF NamesIn, Once, CfgsUnder, dsVars
    <3>4. QED
      BY <1>1, <3>3
  <2>9. CASE n # m
    <3>1. /\ Once(sad, n) => Once(Append(sad, node), n)
          /\ CfgsUnder(Append(sad, node), n) = CfgsUnder(sad, n)
      BY <1>4, <2>4, <2>6, <2>9, AppendedNames
    <3>2. Names2 /\ Less /\ (Once(sad, n) => Once(sad, n)')
      <4>1. n \in NamesIn(sad') <=> n \in NamesIn(sad)
        BY <2>3, <2>7, <2>9
      <4>2. CfgsUnder(sad', n) = CfgsUnder(sad, n) /\ (Once(sad, n) => Once(sad', n))
        BY <2>3, <3>1
      <4>3. QED
        BY <4>1, <4>2 DEF NamesIn, Once, CfgsUnder
    <3>3. StepPast("sad", n) /\ ~SadBusy(n)'
      BY <2>1, <2>5, <2>9 DEF StepPast
    <3>4. QED
      BY <2>2, <3>2, <3>3, SadTracksStays
  <2>10. QED
    BY <2>8, <2>9
<1>6. ASSUME NEW m \in SadNames, SadDelete(m)
      PROVE  SadTracks(n)'
  <2>1. /\ ChangeNext("sad", m) /\ runSad[m] # ABSENT /\ newSad[m] = ABSENT
        /\ sadOp = NoSadOp
    BY <1>6, EditKinds DEF SadDelete, SadChange, PfDelSad, SadNotFound
  <2>2. ~SadBusy(n)
    BY <2>1 DEF SadBusy
  <2>3. CASE PfDelSad(m) /\ UNCHANGED dsVars
    <3>1. /\ sad' = sad /\ m \in NamesIn(sad)
          /\ sadOp' # NoSadOp /\ sadOp'.node.name = m
      BY <1>4, <2>3, FoundIfThere, FoundSadNode DEF PfDelSad, NoSadOp, get_sad_node
    <3>2. \A k : SadBusy(k)' <=> k = m
      BY <3>1 DEF SadBusy
    <3>3. CASE n = m
      BY <1>1, <1>2, <1>3, <2>3, <3>1, <3>2, <3>3 DEF dsVars
    <3>4. CASE n # m
      BY <1>3, <2>2, <2>3, <3>1, <3>2, <3>4, SadTracksStays DEF StepPast
    <3>5. QED
      BY <3>3, <3>4
  <2>4. CASE SadNotFound(m) /\ Undo
    <3>1. UNCHANGED <<sad, sadOp>> /\ n \notin Applied(runSad, newSad) /\ Abort
      BY <2>4 DEF SadNotFound, sadVars, Undo
    <3>2. StepPast("sad", n) /\ ~SadBusy(n)'
      BY <1>0, <2>1, <3>1 DEF StepPast, SadBusy
    <3>3. QED
      BY <1>3, <2>2, <3>1, <3>2, SadTracksStays
  <2>5. QED
    BY <1>6, <2>3, <2>4 DEF SadDelete
<1>7. ASSUME NEW m \in SadNames, SadModify(m)
      PROVE  SadTracks(n)'
  <2>1. /\ ChangeNext("sad", m) /\ runSad[m] # ABSENT /\ newSad[m] # ABSENT
        /\ sadOp = NoSadOp /\ Handled(m) /\ UNCHANGED <<sad, sadOp>>
    BY <1>7, EditKinds DEF SadModify, SadChange, sadVars
  <2>2. ~SadBusy(n) /\ ~SadBusy(n)'
    BY <2>1 DEF SadBusy
  <2>3. CASE n = m
    <3>1. Target("sad", n) # ABSENT /\ Target("sad", n)' # ABSENT
      BY <1>0, <2>1, <2>3, TargetTurns
    <3>2. runSad' = runSad /\ newSad' = newSad
      BY <2>1 DEF Handled
    <3>3. QED
      BY <1>1, <1>2, <1>3, <2>1, <2>2, <3>1, <3>2
  <2>4. CASE n # m
    <3>1. StepPast("sad", n)
      BY <2>1, <2>4 DEF StepPast, ChangeNext
    <3>2. QED
      BY <1>3, <2>1, <2>2, <3>1, SadTracksStays
  <2>5. QED
    BY <2>3, <2>4
<1>8. CASE SadPfAdd
  <2> DEFINE m == sadOp.node.name
  <2>1. /\ sadOp.op = "add" /\ sadOp # NoSadOp /\ sadOp' = NoSadOp
        /\ UNCHANGED sad /\ Handled(m)
    BY <1>8 DEF SadPfAdd, PfAddSad, NoSadOp
  <2>2. ChangeNext("sad", m) /\ newSad[m] = sadOp.node.cfg /\ newSad[m] # ABSENT
    BY <2>1, SadOpNode, NamesAssumption DEF SadWork
  <2>3. ~SadBusy(n)' /\ (SadBusy(n) <=> n = m)
    BY <2>1 DEF SadBusy
  <2> HIDE DEF m
  <2>4. CASE n = m
    <3>1. Target("sad", n)' # ABSENT
      BY <1>0, <2>1, <2>2, <2>4, TargetTurns
    <3>2. runSad' = runSad /\ newSad' = newSad
      BY <2>1 DEF Handled
    <3>3. QED
      BY <1>1, <1>2, <1>3, <2>1, <2>3, <2>4, <3>1, <3>2
  <2>5. CASE n # m
    <3>1. StepPast("sad", n)
      BY <2>1, <2>2, <2>5 DEF StepPast, ChangeNext
    <3>2. QED
      BY <1>3, <2>1, <2>3, <2>5, <3>1, SadTracksStays
  <2>6. QED
    BY <2>4, <2>5
<1>9. CASE SadUnlink
  <2> DEFINE m == sadOp.node.name
  <2>1. /\ sadOp.op = "del" /\ sadOp # NoSadOp /\ sadOp' = NoSadOp
        /\ GetNode(sad, m) # 0 /\ sad' = DelNode(sad, m) /\ Handled(m)
    BY <1>9 DEF SadUnlink, DelSadNode, NoSadOp, get_sad_node
  <2>2. ChangeNext("sad", m) /\ newSad[m] = ABSENT
    BY <2>1 DEF SadWork
  <2>3. ~SadBusy(n)' /\ (SadBusy(n) <=> n = m)
    BY <2>1 DEF SadBusy
  <2> HIDE DEF m
  <2>4. /\ n # m => /\ n \in NamesIn(sad') <=> n \in NamesIn(sad)
                    /\ Once(sad, n) => Once(sad', n)
                    /\ CfgsUnder(sad', n) \subseteq CfgsUnder(sad, n)
        /\ Once(sad, m) => m \notin NamesIn(sad')
    BY <1>4, <2>1, UnlinkedNames
  <2>5. CASE n = m
    <3>1. Target("sad", n)' = ABSENT
      BY <1>0, <2>1, <2>2, <2>5, TargetTurns
    <3>2. n \notin NamesIn(sad')
      BY <1>2, <2>4, <2>5
    <3>3. Once(sad', n) /\ CfgsUnder(sad', n) = {}
      BY <3>2, NothingUnder
    <3>4. n \notin NamesIn(sad)' /\ Once(sad, n)' /\ CfgsUnder(sad, n)' = {}
      BY <3>2, <3>3 DEF NamesIn, Once, CfgsUnder
    <3>5. QED
      BY <1>1, <2>3, <3>1, <3>4
  <2>6. CASE n # m
    <3>1. StepPast("sad", n)
      BY <2>1, <2>2, <2>6 DEF StepPast, ChangeNext
    <3>2. Names2 /\ Less /\ (Once(sad, n) => Once(sad, n)')
      BY <2>4, <2>6 DEF CfgsUnder, NamesIn, Once
    <3>3. QED
      BY <2>3, <2>6, <3>1, <3>2, SadTracksStays
  <2>7. QED
    BY <2>5, <2>6
<1>10. QED
  BY <1>5, <1>6, <1>7, <1>8, <1>9 DEF sad_entry_change_cb

\* The same of the SAD, whose callback is subscribed second.
LEMMA SadTracksKept ==
  ASSUME SadTypeOK, SpdTypeOK, ThreadInv, WorkInv, SadTracksRunning, [Next]_vars
  PROVE  SadTracksRunning'
<1> SUFFICES ASSUME SubscribedSad', NEW n \in SadNames, n \notin astraySad'
             PROVE  SadTracks(n)'
  BY DEF SadTracksRunning
<1>0. CommitInv /\ SadWork
  BY DEF WorkInv
<1>1. CASE SubscribeSad
  <2>1. /\ Idle /\ up = "spd" /\ astraySad' = Present(runSad)
        /\ UNCHANGED <<sad, sadOp, runSad, newSad, tx>>
    BY <1>1 DEF SubscribeSad, sadVars, dsVars
  <2>2. sad = << >> /\ sadOp = NoSadOp
    BY <1>0, <2>1 DEF SadWork, SubscribedSad, ChangeNext
  <2>3. runSad[n] = ABSENT
    BY <1>0, <2>1 DEF CommitInv, DsTypeOK, SadConfigs, Present
  <2>4. \A i : i \notin 1..Len(sad')
    BY <2>1, <2>2
  <2>5. n \notin NamesIn(sad)'
    BY <2>4 DEF NamesIn
  <2>6. SadTarget(n)' = ABSENT /\ ~SadBusy(n)'
    BY <2>1, <2>2, <2>3 DEF SadTarget, SadBusy, Idle
  <2>7. QED
    BY <2>4, <2>5, <2>6 DEF SadTracks
<1>2. CASE ProcessEnds
  BY <1>2 DEF ProcessEnds, SubscribedSad
<1>3. CASE ~SubscribeSad /\ ~ProcessEnds
  <2>1. SubscribedSad
    BY <1>3
    DEF Next, Crash, Environment, Stop, SubscribeSpd, sadb_register, spd_entry_change_cb,
        SpdCreate, SpdDelete, SpdModify, SpdPfAdd, SpdPfAddForward, SpdPfDelForward,
        SpdUnlink, SpdGoesOn, SpdRest, sad_entry_change_cb, SadCreate, SadDelete, SadModify,
        SadPfAdd, SadUnlink, SadGoesOn, SadRest, pf_sadb_esp_register_run, FinishCommit,
        Controller, KernelExpires, OtherProgramAdds, KernelTellsOther, GivesUp, vars,
        mainVars, SubscribedSad
  <2>2. n \notin astraySad
    BY <1>3
    DEF Next, Crash, Environment, Stop, SubscribeSpd, sadb_register, spd_entry_change_cb,
        SpdCreate, SpdDelete, SpdModify, SpdPfAdd, SpdPfAddForward, SpdPfDelForward,
        SpdUnlink, SpdGoesOn, SpdRest, sad_entry_change_cb, SadCreate, SadDelete, SadModify,
        SadPfAdd, SadUnlink, SadGoesOn, SadRest, pf_sadb_esp_register_run, FinishCommit,
        Controller, KernelExpires, OtherProgramAdds, KernelTellsOther, GivesUp, vars,
        astrayVars, Undo
  <2>3. SadTracks(n)
    BY <2>1, <2>2 DEF SadTracksRunning
  <2>4. CASE sad_entry_change_cb
    BY <1>0, <2>1, <2>3, <2>4, SadTracksSteps
  <2>5. CASE ~sad_entry_change_cb
    <3>1. StepPast("sad", n)
      BY <1>3, <2>5, OtherSteps DEF Astray
    <3>2. UNCHANGED <<sad, sadOp>>
      BY <1>3, <2>5
      DEF Next, Crash, Environment, Stop, SubscribeSpd, sadb_register, spd_entry_change_cb,
          SpdCreate, SpdDelete, SpdModify, SpdPfAdd, SpdPfAddForward, SpdPfDelForward,
          SpdUnlink, SpdGoesOn, SpdRest, pf_sadb_esp_register_run, FinishCommit, Controller,
          KernelExpires, SoftExpire, HardExpire, OtherProgramAdds, ForeignAdd,
          KernelTellsOther, GivesUp, vars, sadVars
    <3>3. SadBusy(n)' <=> SadBusy(n)
      BY <3>2 DEF SadBusy
    <3>4. SadBusy(n) => runSad' = runSad /\ newSad' = newSad
      BY <1>0, <1>3, <2>5, OthersWait DEF SadBusy, SadWork, Run, New
    <3>5. QED
      BY <1>0, <2>1, <2>3, <3>1, <3>2, <3>3, <3>4, SadTracksStays
      DEF CfgsUnder, NamesIn, Once
  <2>6. QED
    BY <2>4, <2>5
<1>4. QED
  BY <1>1, <1>2, <1>3

(***************************************************************************)
(* SadTracksRunning likewise: addSAD_entry, which does not look whether a  *)
(* name is there, adds no second node under a name, since the callback is  *)
(* told of a creation only when the running configuration lacks the entry  *)
(* and the list follows that configuration.                                *)
(***************************************************************************)
THEOREM SadTracksCorrect == Spec => []SadTracksRunning
<1>1. Init => SadTracksRunning
  BY DEF Init, SadTracksRunning, SubscribedSad
<1>2. SadTypeOK /\ SpdTypeOK /\ ThreadInv /\ WorkInv /\ SadTracksRunning /\ [Next]_vars
        => SadTracksRunning'
  BY SadTracksKept
<1>3. QED
  BY <1>1, <1>2, WorkCorrect, PTL DEF Spec

=============================================================================
