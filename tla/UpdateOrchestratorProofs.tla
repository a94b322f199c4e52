----------------------- MODULE UpdateOrchestratorProofs -----------------------
(***************************************************************************)
(* Theorems about UpdateOrchestrator, for every set of domains, every      *)
(* configuration and every number of activities: the barrier between the   *)
(* phases, the reboot decision and the refinement of ActivityLifecycle.    *)
(***************************************************************************)
EXTENDS UpdateOrchestrator, SequenceTheorems, TLAPS

-----------------------------------------------------------------------------
(* The effects of a lock holder are well typed *)

LEMMA EffectsTyped ==
    /\ \A s \in {"IDENTIFIED", "RUNNING"} : Notify(s) \in Effect
    /\ \A s \in FinalStatus \cup {"RUNNING"} : SetStatus(s) \in Effect
    /\ \A c \in Channels, v \in {"true", "false"} : Send(c, v) \in Effect
    /\ \A c \in AllCommands, ds \in SUBSET Domains, a \in Nat : Command(c, ds, a) \in Effect
    /\ \A c \in Commands, a \in Nat : AwaitConsent(c, a) \in Effect
    /\ Blocked \in Effect
  BY DEF Effect, Notify, SetStatus, Send, Command, AwaitConsent, Blocked

LEMMA SingletonTyped ==
    ASSUME NEW S, NEW e \in S
    PROVE  <<e>> \in Seq(S)
  OBVIOUS

LEMMA ExecuteTyped ==
    ASSUME TypeOK, NEW c \in AllCommands, NEW a \in Nat
    PROVE  ExecuteCommand(c, a) \in Seq(Effect)
<1>1. ASSUME NEW from
      PROVE  Execute(c, from, a) \in Seq(Effect)
  <2> DEFINE targets == {d \in DOMAIN domains : domains[d] \in from}
  <2>1. targets \in SUBSET Domains
    BY DEF TypeOK
  <2>2. Command(c, targets, a) \in Effect
    BY <2>1, EffectsTyped
  <2>3. <<Command(c, targets, a)>> \in Seq(Effect)
    BY <2>2
  <2> HIDE DEF targets
  <2>4. (IF targets = {} THEN <<>> ELSE <<Command(c, targets, a)>>) \in Seq(Effect)
    BY <2>3, EmptySeq
  <2> QED
    BY <2>4 DEF Execute, targets
<1> QED
  BY <1>1 DEF ExecuteCommand, AllCommands, Commands

LEMMA RollbackTyped ==
    ASSUME TypeOK, NEW a \in Nat
    PROVE  <<Send("rollback", "true")>> \o ExecuteCommand("ROLLBACK", a) \in Seq(Effect)
<1>1. <<Send("rollback", "true")>> \in Seq(Effect)
  BY EffectsTyped DEF Channels
<1>2. ExecuteCommand("ROLLBACK", a) \in Seq(Effect)
  BY ExecuteTyped DEF AllCommands
<1> QED
  BY <1>1, <1>2, ConcatProperties

LEMMA ConsentRefusedTyped ==
    ASSUME TypeOK, NEW c \in Commands, NEW a \in Nat, ConsentRefused(c, a)
    PROVE  todo' \in Seq(Effect) /\ delayedStatus' \in {"", "INCOMPLETE"}
<1>1. CASE c = "DOWNLOAD"
  <2>1. SetStatus("INCOMPLETE") \in Effect /\ Send("err", "true") \in Effect
    BY EffectsTyped DEF FinalStatus, Channels
  <2>2. <<SetStatus("INCOMPLETE"), Send("err", "true")>> \in Seq(Effect)
    BY <2>1
  <2> QED
    BY <1>1, <2>2 DEF ConsentRefused, TypeOK
<1>2. CASE c # "DOWNLOAD"
  BY <1>2, RollbackTyped DEF ConsentRefused
<1> QED
  BY <1>1, <1>2

\* the head of todo and what is left when it was done
LEMMA HeadTyped ==
    ASSUME TypeOK, todo # <<>>
    PROVE  /\ Head(todo) \in Effect
           /\ Tail(todo) \in Seq(Effect)
           /\ Head(todo) = todo[1]
           /\ 1 \in DOMAIN todo
<1>1. todo \in Seq(Effect)
  BY DEF TypeOK
<1>2. Len(todo) \in Nat \ {0} /\ todo \in [1..Len(todo) -> Effect]
  BY <1>1, EmptySeq, LenProperties
<1>3. Tail(todo) \in Seq(Effect)
  BY <1>1, HeadTailProperties
<1>4. Head(todo) = todo[1]
  BY <1>1
<1> QED
  BY <1>2, <1>3, <1>4

LEMMA HeadFields ==
    ASSUME TypeOK, todo # <<>>
    PROVE  /\ Head(todo).op = "setStatus" =>
                /\ Head(todo).status \in FinalStatus \cup {"RUNNING"}
                /\ Head(todo) = SetStatus(Head(todo).status)
           /\ Head(todo).op = "notify" => Head(todo).status \in Status
           /\ Head(todo).op = "send" =>
                /\ Head(todo).channel \in Channels
                /\ Head(todo).value \in {"true", "false"}
                /\ Head(todo) = Send(Head(todo).channel, Head(todo).value)
           /\ Head(todo).op = "command" =>
                /\ Head(todo).command \in AllCommands
                /\ Head(todo).targets \subseteq Domains
                /\ Head(todo).spawnedIn \in Nat
           /\ Head(todo).op = "consent" =>
                /\ Head(todo).command \in Commands
                /\ Head(todo).spawnedIn \in Nat
  BY HeadTyped DEF Effect, Blocked, Status, FinalStatus, IdentificationStatus, SetStatus, Send

-----------------------------------------------------------------------------
(* Type correctness *)

domainsTyped == DOMAIN domains \subseteq Domains /\ domains \in [DOMAIN domains -> DomainStatus]

LEMMA DomainsUpdateTyped ==
    ASSUME TypeOK, NEW d, NEW v \in DomainStatus, domains' = [domains EXCEPT ![d] = v]
    PROVE  domainsTyped' /\ DOMAIN domains' = DOMAIN domains
  BY DEF TypeOK, domainsTyped

LEMMA IdentificationTyped ==
    ASSUME TypeOK, NEW d \in DOMAIN domains, NEW hasActions \in BOOLEAN,
           \/ HandleDomainIdentified(d, hasActions)
           \/ HandleDomainIdentificationFailed(d)
    PROVE  domainsTyped' /\ todo' \in Seq(Effect)
<1>1. IdentificationFailed \in Seq(Effect)
  <2>1. SetStatus("IDENTIFICATION_FAILED") \in Effect /\ Send("err", "true") \in Effect
    BY EffectsTyped DEF FinalStatus, Channels
  <2> QED
    BY <2>1 DEF IdentificationFailed
<1>2. <<Notify("IDENTIFIED"), Notify("RUNNING"), SetStatus("RUNNING"), Send("DOWNLOAD", "true")>>
        \in Seq(Effect)
  <2>1. /\ Notify("IDENTIFIED") \in Effect /\ Notify("RUNNING") \in Effect
        /\ SetStatus("RUNNING") \in Effect /\ Send("DOWNLOAD", "true") \in Effect
    BY EffectsTyped DEF Channels, Commands
  <2> QED
    BY <2>1
<1>3. <<Notify("IDENTIFIED"), SetStatus("COMPLETED"), Send("DOWNLOAD", "false")>> \in Seq(Effect)
  <2>1. /\ Notify("IDENTIFIED") \in Effect
        /\ SetStatus("COMPLETED") \in Effect /\ Send("DOWNLOAD", "false") \in Effect
    BY EffectsTyped DEF FinalStatus, Channels, Commands
  <2> QED
    BY <2>1
<1>4. <<>> \in Seq(Effect)
  BY EmptySeq
<1>5. CASE HandleDomainIdentified(d, hasActions)
  <2>1. todo' \in Seq(Effect)
    BY <1>1, <1>2, <1>3, <1>4, <1>5 DEF HandleDomainIdentified
  <2>2. domainsTyped'
    BY <1>5, DomainsUpdateTyped DEF HandleDomainIdentified, DomainStatus, FeedbackStatus
  <2> QED
    BY <2>1, <2>2
<1>6. CASE HandleDomainIdentificationFailed(d)
  <2>1. todo' \in Seq(Effect)
    BY <1>1, <1>4, <1>6 DEF HandleDomainIdentificationFailed
  <2>2. domainsTyped'
    BY <1>6, DomainsUpdateTyped DEF HandleDomainIdentificationFailed, DomainStatus, FeedbackStatus
  <2> QED
    BY <2>1, <2>2
<1> QED
  BY <1>5, <1>6

LEMMA PhaseFeedbackTyped ==
    ASSUME TypeOK, NEW d \in DOMAIN domains, NEW s, NEW from, NEW progress,
           NEW success \in FeedbackStatus, NEW failure \in FeedbackStatus, NEW next \in Commands,
           PhaseFeedback(d, s, from, progress, success, failure, next)
    PROVE  domainsTyped' /\ delayedStatus' \in {"", "INCOMPLETE"} /\ todo' \in Seq(Effect)
<1>1. d \in Domains /\ domainsTyped
  BY DEF TypeOK, domainsTyped
<1>2. <<Notify("RUNNING")>> \in Seq(Effect)
  BY EffectsTyped
<1>3. <<Send(next, "true"), Notify("RUNNING")>> \in Seq(Effect)
  <2>1. Send(next, "true") \in Effect /\ Notify("RUNNING") \in Effect
    BY EffectsTyped DEF Channels
  <2> QED
    BY <2>1
<1>4. <<Command("CLEANUP", {d}, activity)>> \in Seq(Effect)
  <2>1. Command("CLEANUP", {d}, activity) \in Effect
    BY <1>1, EffectsTyped DEF TypeOK, AllCommands, Commands
  <2> QED
    BY <2>1
<1>5. <<>> \in Seq(Effect)
  BY EmptySeq
<1>6. CASE s = progress /\ todo' = <<Notify("RUNNING")>> /\ UNCHANGED <<domains, delayedStatus>>
  BY <1>1, <1>2, <1>6 DEF TypeOK, domainsTyped
<1>7. CASE /\ domains' = [domains EXCEPT ![d] = success]
           /\ todo' = IF Some(domains', from) THEN <<>> ELSE <<Send(next, "true"), Notify("RUNNING")>>
           /\ UNCHANGED delayedStatus
  <2>1. domainsTyped'
    BY <1>7, DomainsUpdateTyped DEF DomainStatus
  <2> QED
    BY <2>1, <1>3, <1>5, <1>7 DEF TypeOK
<1>8. CASE /\ domains' = [domains EXCEPT ![d] = failure]
           /\ delayedStatus' = "INCOMPLETE"
           /\ todo' = <<Command("CLEANUP", {d}, activity)>>
  <2>1. domainsTyped'
    BY <1>8, DomainsUpdateTyped DEF DomainStatus
  <2> QED
    BY <2>1, <1>4, <1>8
<1> QED
  BY <1>6, <1>7, <1>8 DEF PhaseFeedback

LEMMA FinishedTyped ==
    ASSUME TypeOK, NEW d \in DOMAIN domains, NEW s, HandleDomainFinished(d, s)
    PROVE  /\ domainsTyped' /\ delayedStatus' \in {"", "INCOMPLETE"}
           /\ rebootRequired' \in BOOLEAN /\ todo' \in Seq(Effect)
<1>1. domainsTyped' /\ delayedStatus' \in {"", "INCOMPLETE"} /\ DomainUpdateCompleted
  BY DomainsUpdateTyped DEF HandleDomainFinished, DomainStatus, FeedbackStatus, TypeOK
<1>2. <<SetStatus("INCOMPLETE"), Send("err", "true")>> \in Seq(Effect)
  <2>1. SetStatus("INCOMPLETE") \in Effect /\ Send("err", "true") \in Effect
    BY EffectsTyped DEF FinalStatus, Channels
  <2> QED
    BY <2>1
<1>3. <<SetStatus("COMPLETED"), Send("done", "true")>> \in Seq(Effect)
  <2>1. SetStatus("COMPLETED") \in Effect /\ Send("done", "true") \in Effect
    BY EffectsTyped DEF FinalStatus, Channels
  <2> QED
    BY <2>1
<1>4. todo' \in Seq(Effect)
  BY <1>1, <1>2, <1>3, EmptySeq DEF DomainUpdateCompleted
<1>5. rebootRequired' \in BOOLEAN
  BY <1>1 DEF DomainUpdateCompleted, TypeOK
<1> QED
  BY <1>1, <1>4, <1>5

LEMMA AcceptedTyped ==
    ASSUME TypeOK, NEW d \in DOMAIN domains, NEW s \in FeedbackStatus, NEW hasActions \in BOOLEAN,
           HandleAccepted(d, s, hasActions)
    PROVE  /\ domainsTyped' /\ delayedStatus' \in {"", "INCOMPLETE"}
           /\ rebootRequired' \in BOOLEAN /\ todo' \in Seq(Effect)
<1>1. CASE HandleDomainIdentified(d, hasActions)
  BY <1>1, IdentificationTyped DEF HandleDomainIdentified, TypeOK
<1>2. CASE HandleDomainIdentificationFailed(d)
  BY <1>2, IdentificationTyped, ZenonT(60) DEF HandleDomainIdentificationFailed, TypeOK
<1>3. CASE HandleDomainDownload(d, s) /\ UNCHANGED rebootRequired
  BY <1>3, PhaseFeedbackTyped, ZenonT(60) DEF HandleDomainDownload, FeedbackStatus, Commands, TypeOK
<1>4. CASE HandleDomainUpdate(d, s) /\ UNCHANGED rebootRequired
  BY <1>4, PhaseFeedbackTyped, ZenonT(60) DEF HandleDomainUpdate, FeedbackStatus, Commands, TypeOK
<1>5. CASE HandleDomainActivation(d, s) /\ UNCHANGED rebootRequired
  BY <1>5, PhaseFeedbackTyped, ZenonT(60) DEF HandleDomainActivation, FeedbackStatus, Commands, TypeOK
<1>6. CASE HandleDomainRollback(d, s) /\ UNCHANGED rebootRequired
  BY <1>6, PhaseFeedbackTyped, ZenonT(60) DEF HandleDomainRollback, FeedbackStatus, Commands, TypeOK
<1>7. CASE todo' = <<Notify("RUNNING")>> /\ UNCHANGED <<domains, delayedStatus, rebootRequired>>
  <2>1. <<Notify("RUNNING")>> \in Seq(Effect)
    BY EffectsTyped
  <2> QED
    BY <1>7, <2>1 DEF TypeOK, domainsTyped
<1>8. CASE HandleDomainFinished(d, s)
  BY <1>8, FinishedTyped
<1> QED
  BY <1>1, <1>2, <1>3, <1>4, <1>5, <1>6, <1>7, <1>8 DEF HandleAccepted

LEMMA FeedbackTyped ==
    ASSUME TypeOK, NEW d \in Domains, NEW s \in FeedbackStatus, NEW hasActions \in BOOLEAN,
           HandleDesiredStateFeedbackEvent(d, s, hasActions),
           applying' \in [Domains -> {"no", "spawned", "failed"}]
    PROVE  TypeOK'
<1>1. d \in DOMAIN domains /\ actions' \subseteq Domains
  BY DEF HandleDesiredStateFeedbackEvent, TypeOK
<1>2. /\ domainsTyped' /\ delayedStatus' \in {"", "INCOMPLETE"}
      /\ rebootRequired' \in BOOLEAN /\ todo' \in Seq(Effect)
  <2>1. CASE HandleAccepted(d, s, hasActions)
    BY <1>1, <2>1, AcceptedTyped
  <2>2. CASE UNCHANGED <<domains, delayedStatus, rebootRequired, todo>>
    BY <2>2 DEF TypeOK, domainsTyped
  <2> QED
    BY <2>1, <2>2 DEF HandleDesiredStateFeedbackEvent
<1> QED
  BY <1>1, <1>2 DEF HandleDesiredStateFeedbackEvent, TypeOK, domainsTyped

LEMMA InitTyped == Init => TypeOK
<1> SUFFICES ASSUME Init PROVE TypeOK
  OBVIOUS
<1>1. DOMAIN domains \subseteq Domains /\ domains \in [DOMAIN domains -> DomainStatus]
  BY DEF Init, NoDomains
<1>2. chan \in [Channels -> ChannelState]
  BY DEF Init, ChannelState
<1>3. todo \in Seq(Effect)
  BY EmptySeq DEF Init
<1> QED
  BY <1>1, <1>2, <1>3 DEF Init, TypeOK, Pc, Status, IdentificationStatus

LEMMA NextTyped ==
    ASSUME TypeOK, [Next]_vars
    PROVE  TypeOK'
<1> USE DEF TypeOK
<1>1. ASSUME NEW ds \in SUBSET Domains, SetupUpdateOperation(ds)
      PROVE  TypeOK'
  <2>1. DOMAIN domains' = ds /\ domains' \in [ds -> DomainStatus]
    BY <1>1 DEF SetupUpdateOperation, DomainStatus
  <2>2. chan' \in [Channels -> ChannelState]
    BY <1>1 DEF SetupUpdateOperation, ChannelState
  <2>3. pc' \in Pc /\ status' \in Status /\ activity' \in Nat
    <3>1. activity' = activity + 1
      BY <1>1 DEF SetupUpdateOperation
    <3>2. \/ pc' = "identify" /\ status' = "IDENTIFYING"
          \/ pc' = "report" /\ status' = "INCOMPLETE"
      BY <1>1 DEF SetupUpdateOperation
    <3>3. activity' \in Nat
      <4>1. activity \in Nat
        OBVIOUS
      <4> HIDE DEF TypeOK
      <4> QED
        BY <3>1, <4>1
    <3>4. pc' \in Pc /\ status' \in Status
      BY <3>2 DEF Pc, Status, IdentificationStatus, FinalStatus
    <3> QED
      BY <3>3, <3>4
  <2>4. /\ UNCHANGED <<todo, handlers, applying, terminated>> /\ delayedStatus' = "" /\ actions' = {}
        /\ rebootRequired' = FALSE /\ reported' = "" /\ reboot' = FALSE
    BY <1>1 DEF SetupUpdateOperation
  <2> QED
    BY <2>1, <2>2, <2>3, <2>4
<1>2. CASE Identify
  BY <1>2 DEF Identify, Pc, Waits, Commands, Status, IdentificationStatus, opVars
<1>3. CASE PhaseTimeout
  BY <1>3 DEF PhaseTimeout, AfterError, applyUnchanged, Pc, Status, FinalStatus
<1>4. CASE ErrorSignalled
  BY <1>4 DEF ErrorSignalled, AfterError, applyUnchanged, Pc, Channels, ChannelState
<1>5. CASE RollbackSignalled
  BY <1>5 DEF RollbackSignalled, After, applyUnchanged, Pc, Waits, Commands, Channels, ChannelState
<1>6. CASE Signalled
  <2>1. pc' \in Pc
    BY <1>6 DEF Signalled, After, Pc, Waits, Commands
  <2>2. chan' \in [Channels -> ChannelState]
    BY <1>6 DEF Signalled, ChannelState
  <2>3. handlers' \subseteq [command : Commands, spawnedIn : Nat]
    <3>1. pc \in Commands => [command |-> pc, spawnedIn |-> activity] \in [command : Commands, spawnedIn : Nat]
      OBVIOUS
    <3>2. \/ handlers' = handlers
          \/ pc \in Commands /\ handlers' = handlers \cup {[command |-> pc, spawnedIn |-> activity]}
      BY <1>6 DEF Signalled
    <3> QED
      BY <3>1, <3>2, ZenonT(60)
  <2> QED
    BY <1>6, <2>1, <2>2, <2>3 DEF Signalled, applyUnchanged
<1>7. CASE ContextDone
  BY <1>7 DEF ContextDone, AfterError, applyUnchanged, Pc, Status, FinalStatus
<1>8. CASE ReturnReboot
  BY <1>8 DEF ReturnReboot, opVars, Pc
<1>9. CASE ReportFinal
  BY <1>9 DEF ReportFinal, opVars, Pc
<1>10. CASE DisposeUpdateOperation
  BY <1>10 DEF DisposeUpdateOperation, NoDomains, Pc, Status, IdentificationStatus, ChannelState
<1>11. ASSUME NEW h \in handlers, HandleCommandSignal(h)
       PROVE  TypeOK'
  <2>1. h.command \in Commands /\ h.spawnedIn \in Nat /\ h.command \in AllCommands
    BY <1>11 DEF AllCommands
  <2>2. <<AwaitConsent(h.command, h.spawnedIn)>> \in Seq(Effect)
    BY <2>1, EffectsTyped, SingletonTyped
  <2>3. todo' \in Seq(Effect) /\ delayedStatus' \in {"", "INCOMPLETE"}
    BY <1>11, <2>1, <2>2, ExecuteTyped, ConsentRefusedTyped, ZenonT(120) DEF HandleCommandSignal
  <2> QED
    BY <1>11, <2>3 DEF HandleCommandSignal, handlerUnchanged
<1>12. CASE OwnerConsented
  <2>1. /\ Head(todo).command \in Commands /\ Head(todo).spawnedIn \in Nat
        /\ Head(todo).command \in AllCommands
    BY <1>12, HeadFields DEF OwnerConsented, awaitingConsent, AllCommands
  <2>2. todo' \in Seq(Effect) /\ delayedStatus' \in {"", "INCOMPLETE"}
    BY <1>12, <2>1, ExecuteTyped, ConsentRefusedTyped DEF OwnerConsented
  <2>3. chan' \in [Channels -> ChannelState]
    BY <1>12 DEF OwnerConsented, ChannelState
  <2> QED
    BY <1>12, <2>2, <2>3 DEF OwnerConsented, handlerUnchanged
<1>13. CASE OwnerConsentFailed
  <2>1. Head(todo).command \in Commands /\ Head(todo).spawnedIn \in Nat
    BY <1>13, HeadFields DEF OwnerConsentFailed, awaitingConsent
  <2>2. todo' \in Seq(Effect) /\ delayedStatus' \in {"", "INCOMPLETE"}
    BY <1>13, <2>1, ConsentRefusedTyped DEF OwnerConsentFailed
  <2> QED
    BY <1>13, <2>2 DEF OwnerConsentFailed, handlerUnchanged
<1>14. ASSUME NEW approved \in BOOLEAN, HandleOwnerConsentFeedback(approved)
       PROVE  TypeOK'
  BY <1>14 DEF HandleOwnerConsentFeedback, ChannelState
<1>15. ASSUME NEW d \in Domains, SendDesiredState(d)
       PROVE  TypeOK'
  BY <1>15 DEF SendDesiredState, opVars
<1>16. ASSUME NEW d \in Domains, SendDesiredStateFailed(d)
       PROVE  TypeOK'
  <2>1. applying' \in [Domains -> {"no", "spawned", "failed"}]
    BY <1>16 DEF SendDesiredStateFailed
  <2>2. CASE HandleDesiredStateFeedbackEvent(d, "INCOMPLETE", FALSE)
    BY <2>1, <2>2, FeedbackTyped DEF FeedbackStatus
  <2>3. CASE UNCHANGED <<activity, pc, opVars, todo, handlers, terminated, reported, reboot>>
    BY <2>1, <2>3 DEF opVars
  <2> QED
    BY <1>16, <2>2, <2>3 DEF SendDesiredStateFailed
<1>17. ASSUME NEW d \in Domains, NEW s \in FeedbackStatus, NEW hasActions \in BOOLEAN,
              AgentFeedback(d, s, hasActions)
       PROVE  TypeOK'
  BY <1>17, FeedbackTyped DEF AgentFeedback
<1>18. CASE NotifyFeedback
  BY <1>18, HeadTyped, HeadFields DEF NotifyFeedback, holderUnchanged
<1>19. CASE UpdateStatus
  BY <1>19, HeadTyped, HeadFields DEF UpdateStatus, holderUnchanged, Status
<1>20. CASE SendSignal
  BY <1>20, HeadTyped, HeadFields DEF SendSignal, holderUnchanged, ChannelState
<1>21. ASSUME NEW d \in Domains, CommandDomain(d)
       PROVE  TypeOK'
  <2> DEFINE rest == [Head(todo) EXCEPT !.targets = @ \ {d}]
  <2>1. Tail(todo) \in Seq(Effect) /\ Head(todo) = todo[1] /\ 1 \in 1..Len(todo)
    BY <1>21, HeadTyped, LenProperties DEF CommandDomain
  <2>2. rest \in Effect
    BY <1>21, HeadTyped DEF CommandDomain, Effect, Blocked
  <2>3. [todo EXCEPT ![1] = rest] \in Seq(Effect)
    BY <2>1, <2>2, ExceptSeq
  <2>4. todo' \in Seq(Effect)
    BY <1>21, <2>1, <2>3 DEF CommandDomain
  <2> QED
    BY <1>21, <2>4 DEF CommandDomain, holderUnchanged
<1>22. ASSUME NEW d \in Domains, CommandFailed(d)
       PROVE  TypeOK'
  <2>1. <<Blocked>> \in Seq(Effect)
    BY EffectsTyped, SingletonTyped
  <2> QED
    BY <1>22, <2>1 DEF CommandFailed, holderUnchanged
<1>23. CASE Terminate
  BY <1>23 DEF Terminate, opVars
<1>24. CASE UNCHANGED vars
  BY <1>24 DEF vars, opVars
<1> QED
  BY <1>1, <1>2, <1>3, <1>4, <1>5, <1>6, <1>7, <1>8, <1>9, <1>10, <1>11, <1>12, <1>13, <1>14,
     <1>15, <1>16, <1>17, <1>18, <1>19, <1>20, <1>21, <1>22, <1>23, <1>24
  DEF Next, Apply, Wait, HoldLock

\* Every reachable state is well typed.
THEOREM TypeCorrect == Spec => []TypeOK
  BY InitTyped, NextTyped, PTL DEF Spec

-----------------------------------------------------------------------------
(* The phase barrier: what the steps that leave most of it alone have in common *)

LEMMA EffectFields ==
    /\ \A s : Notify(s).op = "notify"
    /\ \A s : SetStatus(s).op = "setStatus" /\ SetStatus(s).status = s
    /\ \A c, v : Send(c, v).op = "send" /\ Send(c, v).channel = c /\ Send(c, v).value = v
    /\ \A c, ds, a : /\ Command(c, ds, a).op = "command" /\ Command(c, ds, a).command = c
                     /\ Command(c, ds, a).spawnedIn = a
    /\ \A c, a : /\ AwaitConsent(c, a).op = "consent" /\ AwaitConsent(c, a).command = c
                 /\ AwaitConsent(c, a).spawnedIn = a
    /\ Blocked.op = "blocked"
  BY DEF Notify, SetStatus, Send, Command, AwaitConsent, Blocked

LEMMA HeadIsFirst ==
    ASSUME NEW S, NEW t \in Seq(S), t # <<>>
    PROVE  /\ Head(t) = t[1] /\ 1 \in DOMAIN t
           /\ \A i \in DOMAIN Tail(t) : i \in Nat \ {0} /\ i + 1 \in DOMAIN t /\ Tail(t)[i] = t[i + 1]
<1>1. Len(t) \in Nat \ {0} /\ DOMAIN t = 1..Len(t)
  BY EmptySeq, LenProperties
<1>2. Head(t) = t[1]
  OBVIOUS
<1>3. /\ Tail(t) \in Seq(S) /\ Len(Tail(t)) = Len(t) - 1
      /\ \A i \in 1..Len(Tail(t)) : Tail(t)[i] = t[i + 1]
  BY HeadTailProperties
<1>4. DOMAIN Tail(t) = 1..Len(Tail(t))
  BY <1>3, LenProperties
<1> QED
  BY <1>1, <1>2, <1>3, <1>4

\* an effect that neither sets a status nor sends a signal the barrier depends on
benign(e) ==
    /\ e.op = "setStatus" => e.status \in {"COMPLETED", "INCOMPLETE"}
    /\ e.op = "send" => e.channel \notin Gated \/ e.value = "false"
    /\ e.op \in {"command", "consent"} /\ e.command \in Gated /\ e.spawnedIn = activity => past(e.command)

\* steps of a goroutine that takes operationLock to do nothing but benign effects
LEMMA BenignStep ==
    ASSUME TypeOK, TypeOK', BarrierInv, UNCHANGED <<activity, pc, status>>, handlers' \subseteq handlers,
           \A c \in Gated : chan'[c] = "true" => chan[c] = "true",
           \A c \in Gated : ~identifying /\ past(c) => past(c)',
           (\A i \in DOMAIN todo : benign(todo[i]))'
    PROVE  BarrierInv'
<1>1. \A i \in DOMAIN todo' :
        /\ todo'[i] # SetStatus("RUNNING") /\ todo'[i] # SetStatus("IDENTIFICATION_FAILED")
        /\ todo'[i] # Send("DOWNLOAD", "true") /\ todo'[i] # Send("UPDATE", "true")
  BY EffectFields DEF benign, Gated
<1>2. ~failing'
  <2>1. todo' # <<>> => Head(todo') = todo'[1] /\ 1 \in DOMAIN todo'
    BY HeadIsFirst DEF TypeOK
  <2> QED
    BY <1>1, <2>1 DEF failing
<1>3. RunningInv'
  BY <1>1 DEF BarrierInv, RunningInv, identifying, IdentificationStatus, Gated
<1>4. SignalInv'
  BY <1>2 DEF BarrierInv, SignalInv, identifying, early
<1>5. PendingInv'
  BY <1>1 DEF PendingInv
<1>6. HandlerInv'
  BY <1>2 DEF BarrierInv, HandlerInv, identifying, early
<1>7. CommandInv'
  BY DEF CommandInv, benign
<1> QED
  BY <1>3, <1>4, <1>5, <1>6, <1>7 DEF BarrierInv

\* steps of Apply and of the router that leave domains and todo alone
LEMMA WaitStep ==
    ASSUME TypeOK, BarrierInv, UNCHANGED <<activity, domains, todo>>, pc # "idle",
           \A c \in Gated : early(c)' => early(c),
           \A c \in Gated : chan'[c] = "true" => chan[c] = "true",
           \/ handlers' = handlers
           \/ /\ pc \in Commands /\ chan[pc] = "true" /\ pc' = After(pc) /\ status' = status
              /\ handlers' = handlers \cup {[command |-> pc, spawnedIn |-> activity]},
           \/ status' = status
           \/ status' = "INCOMPLETE"
           \/ pc = "DOWNLOAD" /\ pc' = "report" /\ status' = "IDENTIFICATION_FAILED"
    PROVE  BarrierInv'
<1>1. \A c \in Gated : past(c)' = past(c)
  BY DEF past, Some, Before
<1>2. failing' = failing
  BY DEF failing
<1>3. \A c \in Gated : early(c) /\ ~identifying /\ early(c)' => ~identifying'
  BY DEF early, identifying, IdentificationStatus
<1>4. RunningInv'
  BY <1>1 DEF BarrierInv, RunningInv, Gated
<1>5. SignalInv'
  BY <1>1, <1>2, <1>3 DEF BarrierInv, SignalInv
<1>6. PendingInv'
  BY <1>1, <1>3 DEF BarrierInv, PendingInv, Gated
<1>7. HandlerInv'
  <2> SUFFICES ASSUME NEW h \in handlers'
               PROVE  /\ h.spawnedIn <= activity
                      /\ h.command \in Gated /\ h.spawnedIn = activity =>
                           past(h.command) /\ ~early(h.command)' /\ ~identifying' /\ ~failing
    BY <1>1, <1>2 DEF HandlerInv
  <2>1. CASE h \in handlers
    <3>1. h.spawnedIn <= activity
      BY <2>1 DEF BarrierInv, HandlerInv
    <3>2. ASSUME h.command \in Gated, h.spawnedIn = activity
          PROVE  past(h.command) /\ ~early(h.command)' /\ ~identifying' /\ ~failing
      <4>1. past(h.command) /\ ~early(h.command) /\ ~identifying /\ ~failing
        BY <2>1, <3>2 DEF BarrierInv, HandlerInv
      <4>2. pc # "DOWNLOAD"
        BY <4>1 DEF early
      <4> QED
        BY <3>2, <4>1, <4>2 DEF identifying, IdentificationStatus
    <3> QED
      BY <3>1, <3>2
  <2>2. CASE /\ h = [command |-> pc, spawnedIn |-> activity]
             /\ pc \in Commands /\ chan[pc] = "true" /\ pc' = After(pc) /\ status' = status
    <3>1. h.spawnedIn <= activity
      <4>1. activity \in Nat /\ h.spawnedIn = activity
        BY <2>2 DEF TypeOK
      <4> QED
        BY <4>1
    <3>2. ASSUME h.command \in Gated
          PROVE  past(h.command) /\ ~early(h.command)' /\ ~identifying' /\ ~failing
      <4>1. h.command = pc /\ early(pc)
        BY <2>2, <3>2 DEF early, Gated
      <4>2. past(pc) /\ ~identifying /\ ~failing
        BY <2>2, <3>2, <4>1 DEF BarrierInv, SignalInv
      <4>3. ~early(h.command)'
        BY <2>2, <3>2, <4>1 DEF early, After, Gated
      <4> QED
        BY <2>2, <4>1, <4>2, <4>3 DEF identifying, early
    <3> QED
      BY <3>1, <3>2
  <2> QED
    BY <2>1, <2>2
<1>8. CommandInv'
  BY <1>1 DEF BarrierInv, CommandInv
<1> QED
  BY <1>4, <1>5, <1>6, <1>7, <1>8 DEF BarrierInv

\* the steps of the lock holder that complete the first effect
LEMMA HolderStep ==
    ASSUME TypeOK, TypeOK', BarrierInv, UNCHANGED <<activity, pc, domains, handlers>>,
           todo # <<>>, todo' = Tail(todo),
           \/ /\ \E s \in FinalStatus \cup {"RUNNING"} : Head(todo) = SetStatus(s) /\ status' = s
              /\ UNCHANGED chan
           \/ /\ \E c \in Channels, v \in {"true", "false"} :
                   Head(todo) = Send(c, v) /\ chan' = [chan EXCEPT ![c] = v]
              /\ UNCHANGED status
           \/ Head(todo).op \in {"notify", "command"} /\ UNCHANGED <<status, chan>>
    PROVE  BarrierInv'
<1>1. /\ Head(todo) = todo[1] /\ 1 \in DOMAIN todo
      /\ \A i \in DOMAIN todo' : i \in Nat \ {0} /\ i + 1 \in DOMAIN todo /\ todo'[i] = todo[i + 1]
  BY HeadIsFirst, ZenonT(60) DEF TypeOK
<1>2. \A c \in Gated : past(c)' = past(c) /\ early(c)' = early(c)
  BY DEF past, Some, Before, early
<1>3. ~failing'
  <2>1. todo' # <<>> => Head(todo') = todo'[1] /\ 1 \in DOMAIN todo'
    BY HeadIsFirst DEF TypeOK
  <2>2. ASSUME NEW i \in DOMAIN todo'
        PROVE  todo'[i] # SetStatus("IDENTIFICATION_FAILED")
    <3>1. i + 1 \in DOMAIN todo /\ i + 1 # 1 /\ todo'[i] = todo[i + 1]
      BY <1>1
    <3> QED
      BY <3>1 DEF BarrierInv, PendingInv
  <2> QED
    BY <2>1, <2>2 DEF failing
<1>4. ~identifying /\ ~failing => ~identifying'
  BY EffectFields DEF identifying, failing, IdentificationStatus, FinalStatus
<1>5. status' = "RUNNING" => status = "RUNNING" \/ todo[1] = SetStatus("RUNNING")
  BY <1>1
<1>6. RunningInv'
  BY <1>1, <1>2, <1>5 DEF BarrierInv, RunningInv, Gated
<1>7. SignalInv'
  <2> SUFFICES ASSUME NEW c \in Gated, early(c), chan'[c] = "true"
               PROVE  past(c) /\ ~identifying'
    BY <1>2, <1>3 DEF SignalInv
  <2>1. CASE chan[c] = "true"
    BY <1>4, <2>1 DEF BarrierInv, SignalInv
  <2>2. CASE chan[c] # "true"
    <3>1. todo[1] = Send(c, "true") /\ status' = status
      BY <1>1, <2>2, EffectFields, ZenonT(120) DEF TypeOK, Channels, Commands, Gated
    <3> QED
      BY <1>1, <3>1 DEF BarrierInv, PendingInv, identifying, Gated
  <2> QED
    BY <2>1, <2>2
<1>8. PendingInv'
  <2> SUFFICES ASSUME NEW i \in DOMAIN todo'
               PROVE  /\ todo'[i] # SetStatus("IDENTIFICATION_FAILED")
                      /\ todo'[i] # Send("UPDATE", "true")
                      /\ todo'[i] = Send("DOWNLOAD", "true") =>
                            /\ past("DOWNLOAD")
                            /\ IF i = 1 THEN ~identifying' ELSE todo'[i - 1] = SetStatus("RUNNING")
    BY <1>2 DEF PendingInv, Gated
  <2>1. i \in Nat \ {0} /\ i + 1 \in DOMAIN todo /\ i + 1 # 1 /\ todo'[i] = todo[i + 1]
    BY <1>1
  <2>2. todo'[i] # SetStatus("IDENTIFICATION_FAILED") /\ todo'[i] # Send("UPDATE", "true")
    BY <2>1 DEF BarrierInv, PendingInv
  <2>3. ASSUME todo'[i] = Send("DOWNLOAD", "true")
        PROVE  past("DOWNLOAD") /\ todo[i] = SetStatus("RUNNING")
    <3>1. past("DOWNLOAD") /\ todo[(i + 1) - 1] = SetStatus("RUNNING")
      BY <2>1, <2>3 DEF BarrierInv, PendingInv
    <3>2. (i + 1) - 1 = i
      BY <2>1
    <3> QED
      BY <3>1, <3>2
  <2>4. i = 1 /\ todo[i] = SetStatus("RUNNING") => ~identifying'
    BY <1>1, EffectFields DEF identifying, IdentificationStatus
  <2>5. i # 1 => todo'[i - 1] = todo[i]
    <3> SUFFICES ASSUME i # 1 PROVE todo'[i - 1] = todo[i]
      OBVIOUS
    <3>1. i - 1 \in DOMAIN todo'
      <4>1. DOMAIN todo' = 1..Len(todo') /\ Len(todo') \in Nat
        BY LenProperties DEF TypeOK
      <4> QED
        BY <2>1, <4>1
    <3>2. todo'[i - 1] = todo[(i - 1) + 1]
      BY <1>1, <3>1
    <3>3. (i - 1) + 1 = i
      BY <2>1
    <3> QED
      BY <3>2, <3>3
  <2> QED
    BY <2>2, <2>3, <2>4, <2>5
<1>9. HandlerInv'
  BY <1>2, <1>3, <1>4 DEF BarrierInv, HandlerInv
<1>10. CommandInv'
  BY <1>1, <1>2 DEF BarrierInv, CommandInv
<1> QED
  BY <1>6, <1>7, <1>8, <1>9, <1>10 DEF BarrierInv

\* a command was sent to one of several targets
LEMMA PartlyCommandedStep ==
    ASSUME TypeOK, TypeOK', BarrierInv, UNCHANGED <<activity, pc, status, domains, chan, handlers>>,
           NEW d, todo # <<>>, Head(todo).op = "command", todo' = [todo EXCEPT ![1].targets = @ \ {d}]
    PROVE  BarrierInv'
<1>1. /\ Head(todo) = todo[1] /\ 1 \in DOMAIN todo /\ DOMAIN todo' = DOMAIN todo
      /\ \A i \in DOMAIN todo : i # 1 => todo'[i] = todo[i]
      /\ todo'[1] = [Head(todo) EXCEPT !.targets = @ \ {d}]
  BY HeadTyped DEF TypeOK
<1>2. /\ todo'[1].op = "command" /\ todo'[1].command = todo[1].command
      /\ todo'[1].spawnedIn = todo[1].spawnedIn
  BY <1>1, HeadTyped DEF Effect, Blocked
<1>3. \A c \in Gated : past(c)' = past(c) /\ early(c)' = early(c)
  BY DEF past, Some, Before, early
<1>4. ASSUME NEW i \in DOMAIN todo, NEW s, NEW c, NEW v
      PROVE  /\ todo'[i] = SetStatus(s) => i # 1 /\ todo[i] = SetStatus(s)
             /\ todo'[i] = Send(c, v) => i # 1 /\ todo[i] = Send(c, v)
  <2>1. CASE i = 1
    <3>1. todo'[i].op # "setStatus" /\ todo'[i].op # "send"
      BY <1>2, <2>1
    <3>2. SetStatus(s).op = "setStatus" /\ Send(c, v).op = "send"
      BY EffectFields
    <3>3. todo'[i] # SetStatus(s) /\ todo'[i] # Send(c, v)
      BY <3>1, <3>2, Zenon
    <3> QED
      BY <3>3
  <2>2. CASE i # 1
    BY <1>1, <2>2
  <2> QED
    BY <2>1, <2>2
<1>5. ~failing'
  <2>1. todo' # <<>> => Head(todo') = todo'[1]
    BY HeadIsFirst DEF TypeOK
  <2>2. todo'[1] # SetStatus("IDENTIFICATION_FAILED")
    <3>1. todo'[1].op # "setStatus"
      BY <1>2
    <3>2. SetStatus("IDENTIFICATION_FAILED").op = "setStatus"
      BY EffectFields
    <3> QED
      BY <3>1, <3>2, Zenon
  <2> QED
    BY <2>1, <2>2 DEF failing
<1>6. RunningInv'
  BY <1>1, <1>3, <1>4 DEF BarrierInv, RunningInv, Gated
<1>7. SignalInv'
  BY <1>3, <1>5 DEF BarrierInv, SignalInv, identifying
<1>8. PendingInv'
  <2>1. \A i \in DOMAIN todo : todo'[i] = Send("DOWNLOAD", "true") =>
            past("DOWNLOAD") /\ todo[i - 1] = SetStatus("RUNNING")
    BY <1>4 DEF BarrierInv, PendingInv
  <2>2. todo[1].op = "command"
    BY <1>1
  <2>3. \A i \in DOMAIN todo : todo'[i] = Send("DOWNLOAD", "true") => todo'[i - 1] = SetStatus("RUNNING")
    <3> SUFFICES ASSUME NEW i \in DOMAIN todo, todo'[i] = Send("DOWNLOAD", "true")
                 PROVE  todo'[i - 1] = SetStatus("RUNNING")
      OBVIOUS
    <3>1. i # 1 /\ todo[i - 1] = SetStatus("RUNNING")
      BY <1>4, <2>1
    <3>2. i - 1 \in DOMAIN todo
      <4>1. DOMAIN todo = 1..Len(todo) /\ Len(todo) \in Nat
        BY LenProperties DEF TypeOK
      <4> QED
        BY <3>1, <4>1
    <3>3. i - 1 # 1
      BY <2>2, <3>1, EffectFields
    <3> QED
      BY <1>1, <3>1, <3>2, <3>3
  <2>4. \A i \in DOMAIN todo :
          /\ todo'[i] # SetStatus("IDENTIFICATION_FAILED")
          /\ todo'[i] # Send("UPDATE", "true")
    BY <1>4, SMTT(60) DEF BarrierInv, PendingInv
  <2> QED
    BY <1>1, <1>3, <1>4, <2>1, <2>3, <2>4 DEF PendingInv, Gated
<1>9. HandlerInv'
  BY <1>3, <1>5 DEF BarrierInv, HandlerInv, identifying
<1>10. CommandInv'
  BY <1>1, <1>2, <1>3 DEF BarrierInv, CommandInv
<1> QED
  BY <1>6, <1>7, <1>8, <1>9, <1>10 DEF BarrierInv

-----------------------------------------------------------------------------
(* The goroutines of handleCommandSignal *)

LEMMA ExecuteEntries ==
    ASSUME NEW c \in AllCommands, NEW a
    PROVE  \A i \in DOMAIN ExecuteCommand(c, a) :
             /\ ExecuteCommand(c, a)[i].op = "command"
             /\ ExecuteCommand(c, a)[i].command = c
             /\ ExecuteCommand(c, a)[i].spawnedIn = a
<1>1. ASSUME NEW from
      PROVE  \A i \in DOMAIN Execute(c, from, a) :
               /\ Execute(c, from, a)[i].op = "command"
               /\ Execute(c, from, a)[i].command = c
               /\ Execute(c, from, a)[i].spawnedIn = a
  <2> DEFINE targets == {d \in DOMAIN domains : domains[d] \in from}
  <2>1. Execute(c, from, a) = IF targets = {} THEN <<>> ELSE <<Command(c, targets, a)>>
    BY DEF Execute
  <2> HIDE DEF targets
  <2>2. /\ Command(c, targets, a).op = "command" /\ Command(c, targets, a).command = c
        /\ Command(c, targets, a).spawnedIn = a
    BY EffectFields
  <2>3. DOMAIN <<>> = {}
    OBVIOUS
  <2>4. DOMAIN <<Command(c, targets, a)>> = {1} /\ <<Command(c, targets, a)>>[1] = Command(c, targets, a)
    OBVIOUS
  <2> QED
    BY <2>1, <2>2, <2>3, <2>4
<1> QED
  BY <1>1 DEF ExecuteCommand, AllCommands, Commands

\* the effects of a refusal
LEMMA RefusedEntries ==
    ASSUME TypeOK, NEW c \in Commands, NEW a \in Nat, ConsentRefused(c, a)
    PROVE  \A i \in DOMAIN todo' :
             \/ todo'[i] \in {SetStatus("INCOMPLETE"), Send("err", "true"), Send("rollback", "true")}
             \/ todo'[i].op = "command" /\ todo'[i].command = "ROLLBACK"
<1>1. CASE c = "DOWNLOAD"
  <2>1. todo' = <<SetStatus("INCOMPLETE"), Send("err", "true")>>
    BY <1>1 DEF ConsentRefused
  <2> QED
    BY <2>1
<1>2. CASE c # "DOWNLOAD"
  <2> DEFINE rollback == ExecuteCommand("ROLLBACK", a)
  <2>1. todo' = <<Send("rollback", "true")>> \o rollback
    BY <1>2 DEF ConsentRefused
  <2>2. rollback \in Seq(Effect)
    BY ExecuteTyped DEF AllCommands
  <2>3. Send("rollback", "true") \in Effect
    BY EffectsTyped DEF Channels
  <2>4. \A i \in DOMAIN rollback : rollback[i].op = "command" /\ rollback[i].command = "ROLLBACK"
    BY ExecuteEntries DEF AllCommands
  <2> HIDE DEF rollback
  <2>5. <<Send("rollback", "true")>> \in Seq(Effect)
    BY <2>3, SingletonTyped
  <2>6. Len(<<Send("rollback", "true")>>) = 1 /\ <<Send("rollback", "true")>>[1] = Send("rollback", "true")
    OBVIOUS
  <2>7. /\ todo' \in Seq(Effect) /\ Len(todo') = 1 + Len(rollback)
        /\ \A i \in 1..(1 + Len(rollback)) :
             todo'[i] = IF i <= 1 THEN <<Send("rollback", "true")>>[i] ELSE rollback[i - 1]
    BY <2>1, <2>2, <2>5, <2>6, ConcatProperties
  <2>8. DOMAIN todo' = 1..(1 + Len(rollback)) /\ DOMAIN rollback = 1..Len(rollback) /\ Len(rollback) \in Nat
    BY <2>2, <2>7, LenProperties
  <2> SUFFICES ASSUME NEW i \in DOMAIN todo'
               PROVE  \/ todo'[i] = Send("rollback", "true")
                      \/ todo'[i].op = "command" /\ todo'[i].command = "ROLLBACK"
    OBVIOUS
  <2>9. CASE i = 1
    BY <2>6, <2>7, <2>8, <2>9
  <2>10. CASE i # 1
    <3>1. i - 1 \in DOMAIN rollback /\ ~(i <= 1)
      BY <2>8, <2>10
    <3> QED
      BY <2>4, <2>7, <2>8, <3>1
  <2> QED
    BY <2>9, <2>10
<1> QED
  BY <1>1, <1>2

\* ... are benign
LEMMA RefusedBenign ==
    ASSUME TypeOK, NEW c \in Commands, NEW a \in Nat, ConsentRefused(c, a)
    PROVE  (\A i \in DOMAIN todo : benign(todo[i]))'
<1>1. /\ benign(SetStatus("INCOMPLETE"))' /\ benign(Send("err", "true"))'
      /\ benign(Send("rollback", "true"))'
  BY EffectFields DEF benign, Gated
<1>2. \A e : e.op = "command" /\ e.command = "ROLLBACK" => benign(e)'
  BY DEF benign, Gated
<1> QED
  BY <1>1, <1>2, RefusedEntries

\* ... and those of a command whose barrier was passed
LEMMA ExecuteBenign ==
    ASSUME UNCHANGED <<activity, domains>>, NEW c \in AllCommands, NEW a,
           c \in Gated /\ a = activity => past(c),
           todo' = ExecuteCommand(c, a)
    PROVE  (\A i \in DOMAIN todo : benign(todo[i]))'
<1>1. past(c)' = past(c)
  BY DEF past, Some, Before
<1>2. \A e : e.op = "command" /\ e.command = c /\ e.spawnedIn = a => benign(e)'
  BY <1>1 DEF benign
<1> QED
  BY <1>2, ExecuteEntries

LEMMA HandleCommandSignalBarrier ==
    ASSUME TypeOK, TypeOK', BarrierInv, NEW h \in handlers, HandleCommandSignal(h)
    PROVE  BarrierInv'
<1>1. /\ h.command \in Commands /\ h.spawnedIn \in Nat /\ h.command \in AllCommands
      /\ UNCHANGED <<activity, pc, status, domains, chan>> /\ handlers' \subseteq handlers
  BY DEF HandleCommandSignal, handlerUnchanged, TypeOK, AllCommands
<1>2. \A c \in Gated : past(c)' = past(c)
  BY <1>1 DEF past, Some, Before
<1>3. pc # "idle" /\ h.command \in Gated /\ h.spawnedIn = activity => past(h.command)
  BY DEF BarrierInv, HandlerInv
<1>4. (\A i \in DOMAIN todo : benign(todo[i]))'
  <2>1. CASE todo' = <<>>
    BY <2>1
  <2>2. CASE pc # "idle" /\ todo' = ExecuteCommand(h.command, h.spawnedIn)
    BY <1>1, <1>3, <2>2, ExecuteBenign
  <2>3. CASE pc # "idle" /\ todo' = <<AwaitConsent(h.command, h.spawnedIn)>>
    <3>1. benign(AwaitConsent(h.command, h.spawnedIn))'
      BY <1>1, <1>2, <1>3, <2>3, EffectFields DEF benign
    <3> QED
      BY <2>3, <3>1
  <2>4. CASE ConsentRefused(h.command, h.spawnedIn)
    BY <1>1, <2>4, RefusedBenign
  <2> QED
    BY <2>1, <2>2, <2>3, <2>4 DEF HandleCommandSignal
<1> QED
  BY <1>1, <1>2, <1>4, BenignStep

LEMMA OwnerConsentBarrier ==
    ASSUME TypeOK, TypeOK', BarrierInv, OwnerConsented \/ OwnerConsentFailed
    PROVE  BarrierInv'
<1> DEFINE c == Head(todo).command
           a == Head(todo).spawnedIn
<1>1. c \in Commands /\ a \in Nat /\ c \in AllCommands
  BY HeadFields DEF OwnerConsented, OwnerConsentFailed, awaitingConsent, AllCommands
<1>2. /\ UNCHANGED <<activity, pc, status, domains, handlers>>
      /\ \A g \in Gated : chan'[g] = chan[g]
  <2>1. UNCHANGED <<activity, pc, status, domains, handlers>>
    BY DEF OwnerConsented, OwnerConsentFailed, handlerUnchanged
  <2>2. chan' = chan \/ chan' = [chan EXCEPT !["consent"] = "empty"]
    BY DEF OwnerConsented, OwnerConsentFailed
  <2>3. \A g \in Gated : g \in Channels /\ g # "consent"
    BY DEF Gated, Channels, Commands
  <2> QED
    BY <2>1, <2>2, <2>3 DEF TypeOK
<1>3. \A g \in Gated : past(g)' = past(g)
  BY <1>2 DEF past, Some, Before
<1>4. c \in Gated /\ a = activity => past(c)
  <2>1. Head(todo).op = "consent" /\ Head(todo) = todo[1] /\ 1 \in DOMAIN todo
    BY HeadTyped DEF OwnerConsented, OwnerConsentFailed, awaitingConsent
  <2> QED
    BY <2>1 DEF BarrierInv, CommandInv
<1>5. todo' = ExecuteCommand(c, a) \/ ConsentRefused(c, a)
  BY DEF OwnerConsented, OwnerConsentFailed
<1> HIDE DEF c, a
<1>6. (\A i \in DOMAIN todo : benign(todo[i]))'
  BY <1>1, <1>2, <1>4, <1>5, ExecuteBenign, RefusedBenign
<1> QED
  BY <1>2, <1>3, <1>6, BenignStep

-----------------------------------------------------------------------------
(* The feedback handlers *)

LEMMA PastKept ==
    ASSUME TypeOK, NEW d, NEW v, v \notin {"IDENTIFYING", "IDENTIFICATION_FAILED", "IDENTIFIED"},
           domains' = [domains EXCEPT ![d] = v],
           NEW c \in Gated, past(c)
    PROVE  past(c)'
<1>1. v \notin Before(c)
  BY DEF Before
<1>2. DOMAIN domains' = DOMAIN domains
  OBVIOUS
<1>3. \A x \in DOMAIN domains : domains'[x] = domains[x] \/ domains'[x] = v
  OBVIOUS
<1> QED
  BY <1>1, <1>2, <1>3 DEF past, Some, Before

\* while the domains are identified no signal and no goroutine of the activity
\* vouches for anything, so only the new effects count
LEMMA IdentificationBarrier ==
    ASSUME TypeOK, TypeOK', BarrierInv, NEW d \in DOMAIN domains, NEW hasActions \in BOOLEAN,
           identifying, UNCHANGED <<activity, pc, status, chan, handlers>>,
           HandleDomainIdentified(d, hasActions) \/ HandleDomainIdentificationFailed(d)
    PROVE  BarrierInv'
<1>1. identifying' /\ status' # "RUNNING"
  BY DEF identifying, IdentificationStatus
<1>2. SignalInv' /\ \A c \in Gated : early(c)' => chan'[c] # "true"
  BY DEF BarrierInv, SignalInv, early
<1>3. HandlerInv'
  BY DEF BarrierInv, HandlerInv
<1> DEFINE running == <<Notify("IDENTIFIED"), Notify("RUNNING"), SetStatus("RUNNING"), Send("DOWNLOAD", "true")>>
<1>4. CASE todo' = running /\ past("DOWNLOAD")'
  <2>1. DOMAIN todo' = 1..4 /\ todo'[1] = Notify("IDENTIFIED") /\ todo'[2] = Notify("RUNNING")
        /\ todo'[3] = SetStatus("RUNNING") /\ todo'[4] = Send("DOWNLOAD", "true")
    BY <1>4
  <2>2. todo'[1].op = "notify" /\ todo'[2].op = "notify" /\ todo'[3].op = "setStatus" /\ todo'[4].op = "send"
        /\ todo'[3].status = "RUNNING" /\ todo'[4].channel = "DOWNLOAD"
    BY <2>1, EffectFields
  <2> HIDE DEF running
  <2>3. RunningInv'
    BY <1>4 DEF RunningInv
  <2>4. \A i \in 1..4 : /\ todo'[i] # SetStatus("IDENTIFICATION_FAILED")
                        /\ todo'[i] # Send("UPDATE", "true")
                        /\ todo'[i] = Send("DOWNLOAD", "true") => i = 4
    BY <2>2, EffectFields
  <2>5. PendingInv'
    BY <1>4, <2>1, <2>4 DEF PendingInv
  <2>6. CommandInv'
    BY <2>1, <2>2 DEF CommandInv
  <2> QED
    BY <1>2, <1>3, <2>3, <2>5, <2>6 DEF BarrierInv
<1>5. CASE todo' = IdentificationFailed
  <2>1. DOMAIN todo' = 1..2 /\ todo'[1] = SetStatus("IDENTIFICATION_FAILED") /\ todo'[2] = Send("err", "true")
    BY <1>5 DEF IdentificationFailed
  <2>2. todo'[1].op = "setStatus" /\ todo'[2].op = "send"
        /\ todo'[1].status = "IDENTIFICATION_FAILED" /\ todo'[2].channel = "err"
    BY <2>1, EffectFields
  <2>3. \A i \in 1..2 : /\ todo'[i] # SetStatus("RUNNING")
                        /\ todo'[i] # Send("UPDATE", "true")
                        /\ todo'[i] # Send("DOWNLOAD", "true")
                        /\ todo'[i] = SetStatus("IDENTIFICATION_FAILED") => i = 1
    BY <2>2, EffectFields
  <2>4. RunningInv'
    BY <1>1, <2>1, <2>3 DEF RunningInv
  <2>5. PendingInv'
    BY <2>1, <2>3 DEF PendingInv
  <2>6. CommandInv'
    BY <2>1, <2>2 DEF CommandInv
  <2> QED
    BY <1>2, <1>3, <2>4, <2>5, <2>6 DEF BarrierInv
<1>6. CASE todo' = <<>> \/ todo' = <<Notify("IDENTIFIED"), SetStatus("COMPLETED"), Send("DOWNLOAD", "false")>>
  <2>1. benign(Notify("IDENTIFIED"))' /\ benign(SetStatus("COMPLETED"))' /\ benign(Send("DOWNLOAD", "false"))'
    BY EffectFields DEF benign
  <2>2. (\A i \in DOMAIN todo : benign(todo[i]))'
    BY <1>6, <2>1
  <2> QED
    BY <2>2, BenignStep
<1>7. past("DOWNLOAD")' <=> ~Some(domains', {"IDENTIFYING"}) /\ ~Some(domains', {"IDENTIFICATION_FAILED"})
  BY DEF past, Some, Before
<1> QED
  BY <1>4, <1>5, <1>6, <1>7 DEF HandleDomainIdentified, HandleDomainIdentificationFailed

LEMMA PhaseFeedbackBarrier ==
    ASSUME TypeOK, TypeOK', BarrierInv, NEW d \in DOMAIN domains, NEW s, NEW from, NEW progress,
           NEW success, success \notin {"IDENTIFYING", "IDENTIFICATION_FAILED", "IDENTIFIED"},
           NEW failure, failure \notin {"IDENTIFYING", "IDENTIFICATION_FAILED", "IDENTIFIED"},
           NEW next \in Commands, next # "DOWNLOAD", next = "UPDATE" => "IDENTIFIED" \in from,
           status = "RUNNING", UNCHANGED <<activity, pc, status, chan, handlers>>,
           PhaseFeedback(d, s, from, progress, success, failure, next)
    PROVE  BarrierInv'
<1>1. \A c \in Gated : past(c) => past(c)'
  <2>1. \/ UNCHANGED domains
        \/ domains' = [domains EXCEPT ![d] = success]
        \/ domains' = [domains EXCEPT ![d] = failure]
    BY DEF PhaseFeedback
  <2> QED
    BY <2>1, PastKept DEF past, Some, Before
<1>2. CASE todo' \in {<<>>, <<Notify("RUNNING")>>, <<Command("CLEANUP", {d}, activity)>>}
  <2>1. benign(Notify("RUNNING"))' /\ benign(Command("CLEANUP", {d}, activity))'
    BY EffectFields DEF benign, Gated
  <2>2. (\A i \in DOMAIN todo : benign(todo[i]))'
    BY <1>2, <2>1
  <2> QED
    BY <1>1, <2>2, BenignStep
<1>3. CASE todo' = <<Send(next, "true"), Notify("RUNNING")>> /\ ~Some(domains', from)
  <2>1. DOMAIN todo' = 1..2 /\ todo'[1] = Send(next, "true") /\ todo'[2] = Notify("RUNNING")
    BY <1>3
  <2>2. todo'[1].op = "send" /\ todo'[1].channel = next /\ todo'[2].op = "notify"
    BY <2>1, EffectFields
  <2>3. \A i \in 1..2 : \A r : todo'[i] # SetStatus(r)
    <3>1. \A i \in 1..2 : todo'[i].op # "setStatus"
      BY <2>2
    <3> QED
      BY <3>1, EffectFields
  <2>4. \A i \in 1..2 : /\ todo'[i] # Send("DOWNLOAD", "true")
                        /\ todo'[i] = Send("UPDATE", "true") => i = 1 /\ next = "UPDATE"
    BY <2>2, EffectFields
  <2>5. past("DOWNLOAD")' /\ (next = "UPDATE" => past("UPDATE")')
    <3>1. past("DOWNLOAD")'
      BY <1>1 DEF BarrierInv, RunningInv, Gated
    <3> QED
      BY <1>3, <3>1 DEF past, Some, Before
  <2>6. ~identifying' /\ ~failing'
    <3>1. ~identifying'
      BY DEF identifying, IdentificationStatus
    <3>2. todo' # <<>> => Head(todo') = todo'[1]
      BY HeadIsFirst DEF TypeOK
    <3> QED
      BY <2>3, <3>1, <3>2 DEF failing
  <2>7. RunningInv'
    BY <2>5 DEF RunningInv
  <2>8. SignalInv'
    BY <1>1, <2>6 DEF BarrierInv, SignalInv, early
  <2>9. PendingInv'
    BY <2>1, <2>3, <2>4, <2>5, <2>6 DEF PendingInv
  <2>10. HandlerInv'
    BY <1>1, <2>6 DEF BarrierInv, HandlerInv, early
  <2>11. CommandInv'
    BY <2>1, <2>2 DEF CommandInv
  <2> QED
    BY <2>7, <2>8, <2>9, <2>10, <2>11 DEF BarrierInv
<1> QED
  BY <1>2, <1>3 DEF PhaseFeedback

LEMMA FinishedBarrier ==
    ASSUME TypeOK, TypeOK', BarrierInv, NEW d \in DOMAIN domains, NEW s,
           UNCHANGED <<activity, pc, status, chan, handlers>>,
           HandleDomainFinished(d, s)
    PROVE  BarrierInv'
<1>1. \A c \in Gated : past(c) => past(c)'
  <2>1. \/ domains' = [domains EXCEPT ![d] = "CLEANUP_SUCCESS"]
        \/ domains' = [domains EXCEPT ![d] = "CLEANUP_FAILURE"]
    BY DEF HandleDomainFinished
  <2> QED
    BY <2>1, PastKept
<1>2. todo' \in {<<>>, <<SetStatus("INCOMPLETE"), Send("err", "true")>>,
                <<SetStatus("COMPLETED"), Send("done", "true")>>}
  BY DEF HandleDomainFinished, DomainUpdateCompleted
<1>3. /\ benign(SetStatus("INCOMPLETE"))' /\ benign(Send("err", "true"))'
      /\ benign(SetStatus("COMPLETED"))' /\ benign(Send("done", "true"))'
  BY EffectFields DEF benign, Gated
<1>4. (\A i \in DOMAIN todo : benign(todo[i]))'
  BY <1>2, <1>3
<1> QED
  BY <1>1, <1>4, BenignStep

LEMMA FeedbackBarrier ==
    ASSUME TypeOK, TypeOK', BarrierInv, NEW d, NEW s \in FeedbackStatus, NEW hasActions \in BOOLEAN,
           HandleDesiredStateFeedbackEvent(d, s, hasActions)
    PROVE  BarrierInv'
<1>1. d \in DOMAIN domains /\ UNCHANGED <<activity, pc, status, chan, handlers>> /\ todo = <<>>
  BY DEF HandleDesiredStateFeedbackEvent
<1>2. CASE UNCHANGED <<domains, todo>>
  <2>1. (\A i \in DOMAIN todo : benign(todo[i]))'
    BY <1>1, <1>2
  <2>2. \A c \in Gated : past(c) => past(c)'
    BY <1>2 DEF past, Some, Before
  <2> QED
    BY <1>1, <2>1, <2>2, BenignStep
<1>3. CASE Accepts(d, s) /\ HandleAccepted(d, s, hasActions)
  <2>1. CASE s \in {"IDENTIFIED", "IDENTIFICATION_FAILED"}
    <3>1. identifying
      BY <1>3, <2>1 DEF Accepts, AcceptedIn, identifying
    <3>2. HandleDomainIdentified(d, hasActions) \/ HandleDomainIdentificationFailed(d)
      BY <1>3, <2>1 DEF HandleAccepted, HandleDomainDownload, HandleDomainUpdate, HandleDomainActivation,
                        HandleDomainRollback, PhaseFeedback, HandleDomainFinished
    <3> QED
      BY <1>1, <3>1, <3>2, IdentificationBarrier
  <2>2. CASE \/ HandleDomainDownload(d, s) \/ HandleDomainUpdate(d, s)
             \/ HandleDomainActivation(d, s) \/ HandleDomainRollback(d, s)
    <3>1. status = "RUNNING"
      BY <1>3, <2>2 DEF Accepts, AcceptedIn, HandleDomainDownload, HandleDomainUpdate,
                        HandleDomainActivation, HandleDomainRollback, PhaseFeedback
    <3>2. CASE HandleDomainDownload(d, s)
      BY <1>1, <3>1, <3>2, PhaseFeedbackBarrier DEF HandleDomainDownload, Downloadable, Commands
    <3>3. CASE HandleDomainUpdate(d, s)
      BY <1>1, <3>1, <3>3, PhaseFeedbackBarrier DEF HandleDomainUpdate, Commands
    <3>4. CASE HandleDomainActivation(d, s)
      BY <1>1, <3>1, <3>4, PhaseFeedbackBarrier DEF HandleDomainActivation, Commands
    <3>5. CASE HandleDomainRollback(d, s)
      BY <1>1, <3>1, <3>5, PhaseFeedbackBarrier DEF HandleDomainRollback, Commands
    <3> QED
      BY <2>2, <3>2, <3>3, <3>4, <3>5
  <2>3. CASE s = "CLEANUP" /\ todo' = <<Notify("RUNNING")>> /\ UNCHANGED domains
    <3>1. benign(Notify("RUNNING"))'
      BY EffectFields DEF benign
    <3>2. (\A i \in DOMAIN todo : benign(todo[i]))'
      BY <2>3, <3>1
    <3>3. \A c \in Gated : past(c) => past(c)'
      BY <2>3 DEF past, Some, Before
    <3> QED
      BY <1>1, <3>2, <3>3, BenignStep
  <2>4. CASE HandleDomainFinished(d, s)
    BY <1>1, <2>4, FinishedBarrier
  <2> QED
    BY <1>3, <2>1, <2>2, <2>3, <2>4 DEF HandleAccepted
<1> QED
  BY <1>2, <1>3 DEF HandleDesiredStateFeedbackEvent

-----------------------------------------------------------------------------
(* The phase barrier *)

\* taking a signal, or the owner's answer, sends none
LEMMA NoneSent ==
    ASSUME NEW x, NEW v, v # "true" \/ x \notin Gated, chan' = [chan EXCEPT ![x] = v], TypeOK
    PROVE  \A c \in Gated : chan'[c] = "true" => chan[c] = "true"
<1>1. \A c \in Gated : c \in DOMAIN chan
  BY DEF TypeOK, Gated, Channels, Commands
<1> HIDE DEF TypeOK
<1> SUFFICES ASSUME NEW c \in Gated, chan'[c] = "true"
             PROVE  chan[c] = "true"
  OBVIOUS
<1> QED
  BY <1>1

LEMMA InitBarrier == Init => BarrierInv
<1> SUFFICES ASSUME Init PROVE BarrierInv
  OBVIOUS
<1>1. DOMAIN todo = {} /\ todo = <<>> /\ handlers = {} /\ status = "IDENTIFYING"
  <2>1. todo = <<>> /\ handlers = {} /\ status = "IDENTIFYING"
    BY DEF Init
  <2>2. DOMAIN <<>> = {}
    OBVIOUS
  <2> QED
    BY <2>1, <2>2
<1>2. \A c \in Gated : chan[c] = "nil"
  BY DEF Init, Gated, Channels, Commands
<1> QED
  BY <1>1, <1>2 DEF BarrierInv, RunningInv, SignalInv, PendingInv, HandlerInv, CommandInv

LEMMA UnchangedBarrier ==
    ASSUME BarrierInv, UNCHANGED <<activity, pc, status, domains, chan, todo, handlers>>
    PROVE  BarrierInv'
  BY DEF BarrierInv, RunningInv, SignalInv, PendingInv, HandlerInv, CommandInv, past, Some, early,
         identifying, failing

LEMMA NextBarrier ==
    ASSUME TypeOK, TypeOK', BarrierInv, [Next]_vars
    PROVE  BarrierInv'
<1>1. ASSUME NEW ds \in SUBSET Domains, SetupUpdateOperation(ds)
      PROVE  BarrierInv'
  <2>1. todo' = <<>> /\ handlers' = handlers /\ activity' = activity + 1
    BY <1>1 DEF SetupUpdateOperation
  <2>2. status' \in {"IDENTIFYING", "INCOMPLETE"} /\ \A c \in Gated : chan'[c] # "true"
    BY <1>1 DEF SetupUpdateOperation, Gated, Channels, Commands
  <2>3. DOMAIN todo' = {}
    BY <2>1
  <2>4. \A h \in handlers' : h.spawnedIn <= activity' /\ h.spawnedIn # activity'
    <3>1. activity \in Nat /\ \A h \in handlers : h.spawnedIn \in Nat /\ h.spawnedIn <= activity
      BY DEF TypeOK, BarrierInv, HandlerInv
    <3> QED
      BY <2>1, <3>1
  <2> QED
    BY <2>2, <2>3, <2>4 DEF BarrierInv, RunningInv, SignalInv, PendingInv, HandlerInv, CommandInv
<1>2. CASE Identify
  BY <1>2, WaitStep DEF Identify, opVars, early
<1>3. CASE PhaseTimeout
  BY <1>3, WaitStep DEF PhaseTimeout, AfterError, applyUnchanged, Waits, Commands, early
<1>4. CASE ErrorSignalled
  <2>1. \A c \in Gated : chan'[c] = "true" => chan[c] = "true"
    BY <1>4, NoneSent DEF ErrorSignalled
  <2> QED
    BY <1>4, <2>1, WaitStep DEF ErrorSignalled, AfterError, applyUnchanged, Waits, Commands, early
<1>5. CASE RollbackSignalled
  <2>1. \A c \in Gated : chan'[c] = "true" => chan[c] = "true"
    BY <1>5, NoneSent DEF RollbackSignalled
  <2> QED
    BY <1>5, <2>1, WaitStep DEF RollbackSignalled, After, applyUnchanged, Waits, Commands, early
<1>6. CASE Signalled
  <2>1. \A c \in Gated : chan'[c] = "true" => chan[c] = "true"
    BY <1>6, NoneSent DEF Signalled
  <2>2. \A c \in Gated : early(c)' => early(c)
    BY <1>6 DEF Signalled, After, Waits, Commands, early
  <2> QED
    BY <1>6, <2>1, <2>2, WaitStep DEF Signalled, After, applyUnchanged, Waits, Commands
<1>7. CASE ContextDone
  BY <1>7, WaitStep DEF ContextDone, AfterError, applyUnchanged, Waits, Commands, early
<1>8. CASE ReturnReboot
  BY <1>8, WaitStep DEF ReturnReboot, opVars, early
<1>9. CASE ReportFinal
  BY <1>9, WaitStep DEF ReportFinal, opVars, early
<1>10. CASE DisposeUpdateOperation
  <2>1. /\ todo' = <<>> /\ handlers' = handlers /\ activity' = activity /\ pc' = "idle"
        /\ status' = "IDENTIFYING"
    BY <1>10 DEF DisposeUpdateOperation
  <2>2. DOMAIN todo' = {}
    BY <2>1
  <2>3. \A c \in Gated : chan'[c] # "true"
    BY <1>10 DEF DisposeUpdateOperation, Gated, Channels, Commands
  <2> QED
    BY <2>1, <2>2, <2>3 DEF BarrierInv, RunningInv, SignalInv, PendingInv, HandlerInv, CommandInv
<1>11. ASSUME NEW h \in handlers, HandleCommandSignal(h)
       PROVE  BarrierInv'
  BY <1>11, HandleCommandSignalBarrier
<1>12. CASE OwnerConsented \/ OwnerConsentFailed
  BY <1>12, OwnerConsentBarrier
<1>13. ASSUME NEW approved \in BOOLEAN, HandleOwnerConsentFeedback(approved)
       PROVE  BarrierInv'
  <2>1. \A c \in Gated : chan'[c] = "true" => chan[c] = "true"
    BY <1>13, NoneSent DEF HandleOwnerConsentFeedback, Gated
  <2> QED
    BY <1>13, <2>1, WaitStep DEF HandleOwnerConsentFeedback, early
<1>14. ASSUME NEW d \in Domains, SendDesiredState(d)
       PROVE  BarrierInv'
  BY <1>14, UnchangedBarrier DEF SendDesiredState, opVars
<1>15. ASSUME NEW d \in Domains, SendDesiredStateFailed(d)
       PROVE  BarrierInv'
  <2>1. CASE HandleDesiredStateFeedbackEvent(d, "INCOMPLETE", FALSE)
    BY <2>1, FeedbackBarrier DEF FeedbackStatus
  <2>2. CASE UNCHANGED <<activity, pc, opVars, todo, handlers, terminated, reported, reboot>>
    BY <2>2, UnchangedBarrier DEF opVars
  <2> QED
    BY <1>15, <2>1, <2>2 DEF SendDesiredStateFailed
<1>16. ASSUME NEW d \in Domains, NEW s \in FeedbackStatus, NEW hasActions \in BOOLEAN,
              AgentFeedback(d, s, hasActions)
       PROVE  BarrierInv'
  BY <1>16, FeedbackBarrier DEF AgentFeedback
<1>17. CASE NotifyFeedback
  BY <1>17, HolderStep DEF NotifyFeedback, holderUnchanged
<1>18. CASE UpdateStatus
  BY <1>18, HeadFields, HolderStep DEF UpdateStatus, holderUnchanged
<1>19. CASE SendSignal
  BY <1>19, HeadFields, HolderStep DEF SendSignal, holderUnchanged
<1>20. ASSUME NEW d \in Domains, CommandDomain(d)
       PROVE  BarrierInv'
  <2>1. CASE todo' = Tail(todo)
    BY <1>20, <2>1, HolderStep DEF CommandDomain, holderUnchanged
  <2>2. CASE todo' = [todo EXCEPT ![1].targets = @ \ {d}]
    BY <1>20, <2>2, PartlyCommandedStep DEF CommandDomain, holderUnchanged
  <2> QED
    BY <1>20, <2>1, <2>2 DEF CommandDomain
<1>21. ASSUME NEW d \in Domains, CommandFailed(d)
       PROVE  BarrierInv'
  <2>1. UNCHANGED <<activity, pc, status, domains, chan, handlers>> /\ todo' = <<Blocked>>
    BY <1>21 DEF CommandFailed, holderUnchanged
  <2>2. benign(Blocked)'
    BY EffectFields DEF benign
  <2>3. (\A i \in DOMAIN todo : benign(todo[i]))'
    BY <2>1, <2>2
  <2>4. \A c \in Gated : past(c) => past(c)'
    BY <2>1 DEF past, Some, Before
  <2> QED
    BY <2>1, <2>3, <2>4, BenignStep
<1>22. CASE Terminate
  BY <1>22, UnchangedBarrier DEF Terminate, opVars
<1>23. CASE UNCHANGED vars
  BY <1>23, UnchangedBarrier DEF vars, opVars
<1> QED
  BY <1>1, <1>2, <1>3, <1>4, <1>5, <1>6, <1>7, <1>8, <1>9, <1>10, <1>11, <1>12, <1>13, <1>14,
     <1>15, <1>16, <1>17, <1>18, <1>19, <1>20, <1>21, <1>22, <1>23
  DEF Next, Apply, Wait, HoldLock

\* The status, the signals, the goroutines and the lock holder vouch for the
\* barrier in every reachable state.
THEOREM BarrierInvariant == Spec => []BarrierInv
<1>1. Init => TypeOK /\ BarrierInv
  BY InitTyped, InitBarrier
<1>2. TypeOK /\ BarrierInv /\ [Next]_vars => TypeOK' /\ BarrierInv'
  BY NextTyped, NextBarrier
<1> QED
  BY <1>1, <1>2, PTL DEF Spec

-----------------------------------------------------------------------------
(* The lifecycle of an activity: UpdateOrchestrator implements             *)
(* ActivityLifecycle, and asks for a reboot only over finished domains     *)

allFinished == ~Some(domains, DomainStatus \ Finished)

\* identification is over for good: no report of it is accepted, none is being evaluated
settled == ~identifying /\ ~failing

\* the lock holder is about to set the status domainUpdateCompleted decided upon
settling == todo # <<>> /\ (Head(todo) = SetStatus("COMPLETED") \/ Head(todo) = SetStatus("INCOMPLETE"))

\* past the first barrier identification is over
StageInv == pc \in {"UPDATE", "ACTIVATE"} => settled

\* Apply has left behind the wait for a phase that is being commanded
LeftInv ==
    \A i \in DOMAIN todo :
        todo[i].op \in {"command", "consent"} /\ todo[i].command \in Gated /\ todo[i].spawnedIn = activity
            => ~early(todo[i].command) /\ pc # "idle"

\* rebootRequired is set over finished domains, and only identification could move those
RebootInv ==
    /\ pc \notin {"idle", "report", "dispose"} => ~reboot
    /\ pc \notin {"idle", "report", "dispose"} /\ rebootRequired =>
          allFinished /\ ~failing /\ (identifying => settling)
    /\ pc \in {"report", "dispose"} /\ reboot => allFinished /\ settled

LifecycleInv == StageInv /\ LeftInv /\ RebootInv

\* what the lock holder is to command, or asks consent for, is for the activity under way
OwnInv ==
    \A i \in DOMAIN todo :
        todo[i].op \in {"command", "consent"} /\ todo[i].command \in Gated => todo[i].spawnedIn = activity

-----------------------------------------------------------------------------
(* What each kind of step does to the stage of the activity *)

LEMMA HeadOfNext ==
    ASSUME TypeOK'
    PROVE  todo' # <<>> => Head(todo') = todo'[1] /\ 1 \in DOMAIN todo'
  BY HeadIsFirst DEF TypeOK

\* a goroutine that takes operationLock, or has heard from the owner
LEMMA CommandSignalStep ==
    ASSUME TypeOK, TypeOK', BarrierInv, LeftInv,
           \/ \E h \in handlers : HandleCommandSignal(h)
           \/ OwnerConsented \/ OwnerConsentFailed
    PROVE  /\ UNCHANGED <<activity, pc, status, domains, rebootRequired, reboot>>
           /\ LeftInv' /\ ~failing' /\ ~settling
           /\ Undisturbed /\ OwnInv => OwnInv'
<1>1. UNCHANGED <<activity, pc, status, domains, rebootRequired, reboot>>
  BY DEF HandleCommandSignal, OwnerConsented, OwnerConsentFailed, handlerUnchanged
<1>2. ~settling
  <2>1. todo = <<>> \/ Head(todo).op = "consent"
    BY DEF HandleCommandSignal, OwnerConsented, OwnerConsentFailed, awaitingConsent
  <2>2. SetStatus("COMPLETED").op = "setStatus" /\ SetStatus("INCOMPLETE").op = "setStatus"
    BY EffectFields
  <2>3. Head(todo).op = "consent" =>
          Head(todo) # SetStatus("COMPLETED") /\ Head(todo) # SetStatus("INCOMPLETE")
    BY <2>2, Zenon
  <2> QED
    BY <2>1, <2>3 DEF settling
<1>3. PICK c \in Commands, a \in Nat :
        /\ \/ todo' = <<>>
           \/ todo' = ExecuteCommand(c, a)
           \/ todo' = <<AwaitConsent(c, a)>>
           \/ ConsentRefused(c, a)
        /\ c \in Gated /\ a = activity => todo' = <<>> \/ (~early(c) /\ pc # "idle")
        /\ Undisturbed /\ OwnInv /\ c \in Gated => todo' = <<>> \/ a = activity
  <2>1. ASSUME NEW h \in handlers, HandleCommandSignal(h)
        PROVE  \E c \in Commands, a \in Nat :
                 /\ \/ todo' = <<>>
                    \/ todo' = ExecuteCommand(c, a)
                    \/ todo' = <<AwaitConsent(c, a)>>
                    \/ ConsentRefused(c, a)
                 /\ c \in Gated /\ a = activity => todo' = <<>> \/ (~early(c) /\ pc # "idle")
                 /\ Undisturbed /\ OwnInv /\ c \in Gated => todo' = <<>> \/ a = activity
    <3>1. h.command \in Commands /\ h.spawnedIn \in Nat
      BY DEF TypeOK
    <3>2. h.command \in Gated /\ h.spawnedIn = activity /\ pc # "idle" => ~early(h.command)
      BY DEF BarrierInv, HandlerInv
    <3>3. pc = "idle" => todo' = <<>>
      BY <2>1 DEF HandleCommandSignal
    <3>4. \/ todo' = <<>>
          \/ todo' = ExecuteCommand(h.command, h.spawnedIn)
          \/ todo' = <<AwaitConsent(h.command, h.spawnedIn)>>
          \/ ConsentRefused(h.command, h.spawnedIn)
      BY <2>1 DEF HandleCommandSignal
    <3>5. Undisturbed => todo' = <<>> \/ h.spawnedIn = activity
      BY <3>3 DEF Undisturbed
    <3> QED
      BY <3>1, <3>2, <3>3, <3>4, <3>5, Zenon
  <2>2. CASE OwnerConsented \/ OwnerConsentFailed
    <3>1. todo # <<>> /\ Head(todo).op = "consent"
      BY <2>2 DEF OwnerConsented, OwnerConsentFailed, awaitingConsent
    <3>2. Head(todo).command \in Commands /\ Head(todo).spawnedIn \in Nat
      BY <3>1, HeadFields
    <3>3. Head(todo).command \in Gated /\ Head(todo).spawnedIn = activity
            => ~early(Head(todo).command) /\ pc # "idle"
      BY <3>1, HeadTyped DEF LeftInv
    <3>4. \/ todo' = ExecuteCommand(Head(todo).command, Head(todo).spawnedIn)
          \/ ConsentRefused(Head(todo).command, Head(todo).spawnedIn)
      BY <2>2 DEF OwnerConsented, OwnerConsentFailed
    <3>5. OwnInv /\ Head(todo).command \in Gated => Head(todo).spawnedIn = activity
      BY <3>1, HeadTyped DEF OwnInv
    <3> QED
      BY <3>2, <3>3, <3>4, <3>5, Zenon
  <2> QED
    BY <2>1, <2>2
<1>4. ASSUME NEW i \in DOMAIN todo'
      PROVE  /\ todo'[i] # SetStatus("IDENTIFICATION_FAILED")
             /\ todo'[i].op \in {"command", "consent"} /\ todo'[i].command \in Gated =>
                   todo'[i].command = c /\ todo'[i].spawnedIn = a
  <2>1. ASSUME NEW e, e.op # "setStatus"
        PROVE  e # SetStatus("IDENTIFICATION_FAILED")
    <3>1. SetStatus("IDENTIFICATION_FAILED").op = "setStatus"
      BY EffectFields
    <3> QED
      BY <2>1, <3>1, Zenon
  <2>2. CASE todo' = <<>>
    BY <2>2
  <2>3. CASE todo' = ExecuteCommand(c, a)
    <3>1. todo'[i].op = "command" /\ todo'[i].command = c /\ todo'[i].spawnedIn = a
      BY <2>3, ExecuteEntries DEF AllCommands
    <3> QED
      BY <2>1, <3>1
  <2>4. CASE todo' = <<AwaitConsent(c, a)>>
    <3>1. todo'[i] = AwaitConsent(c, a)
      BY <2>4
    <3>2. todo'[i].op = "consent" /\ todo'[i].command = c /\ todo'[i].spawnedIn = a
      BY <3>1, EffectFields
    <3> QED
      BY <2>1, <3>2
  <2>5. CASE ConsentRefused(c, a)
    <3>1. CASE todo'[i] \in {SetStatus("INCOMPLETE"), Send("err", "true"), Send("rollback", "true")}
      <4>1. todo'[i].op \in {"setStatus", "send"}
        BY <3>1, EffectFields
      <4>2. todo'[i].op = "setStatus" => todo'[i].status = "INCOMPLETE"
        BY <3>1, EffectFields
      <4>3. SetStatus("IDENTIFICATION_FAILED").status = "IDENTIFICATION_FAILED"
        BY EffectFields
      <4>4. todo'[i].op = "setStatus" => todo'[i] # SetStatus("IDENTIFICATION_FAILED")
        <5>1. "INCOMPLETE" # "IDENTIFICATION_FAILED"
          OBVIOUS
        <5> QED
          BY <4>2, <4>3, <5>1, Zenon
      <4> QED
        BY <2>1, <4>1, <4>4
    <3>2. CASE todo'[i].op = "command" /\ todo'[i].command = "ROLLBACK"
      BY <2>1, <3>2 DEF Gated
    <3> QED
      BY <2>5, <3>1, <3>2, RefusedEntries
  <2> QED
    BY <1>3, <2>2, <2>3, <2>4, <2>5
<1>5. LeftInv'
  <2>1. \A g \in Gated : early(g)' = early(g)
    BY <1>1 DEF early
  <2>2. todo' = <<>> => DOMAIN todo' = {}
    OBVIOUS
  <2> QED
    BY <1>1, <1>3, <1>4, <2>1, <2>2 DEF LeftInv
<1>6. ~failing'
  BY <1>4, HeadOfNext DEF failing
<1>7. Undisturbed /\ OwnInv => OwnInv'
  <2>1. todo' = <<>> => DOMAIN todo' = {}
    OBVIOUS
  <2> QED
    BY <1>1, <1>3, <1>4, <2>1 DEF OwnInv
<1> QED
  BY <1>1, <1>2, <1>5, <1>6, <1>7

\* what the lock holder does in one step
HolderWork ==
    \/ NotifyFeedback \/ UpdateStatus \/ SendSignal
    \/ \E d \in Domains : CommandDomain(d) \/ CommandFailed(d)

LEMMA HolderWorkStep ==
    ASSUME TypeOK, TypeOK', BarrierInv, LeftInv, HolderWork
    PROVE  /\ UNCHANGED <<activity, pc, domains, rebootRequired, reboot>>
           /\ LeftInv' /\ ~failing'
           /\ settled \/ settling => ~identifying'
           /\ OwnInv => OwnInv'
<1>1. /\ UNCHANGED <<activity, pc, domains, rebootRequired, reboot>> /\ todo # <<>>
      /\ \/ status' = status /\ Head(todo).op # "setStatus"
         \/ Head(todo) = SetStatus(status') /\ todo' = Tail(todo)
      /\ \/ todo' = Tail(todo) \/ todo' = <<Blocked>>
         \/ \E d : Head(todo).op = "command" /\ todo' = [todo EXCEPT ![1].targets = @ \ {d}]
  BY HeadFields DEF HolderWork, NotifyFeedback, UpdateStatus, SendSignal, CommandDomain, CommandFailed, holderUnchanged
<1>2. /\ Head(todo) = todo[1] /\ 1 \in DOMAIN todo
      /\ \A i \in DOMAIN Tail(todo) : i \in Nat \ {0} /\ i + 1 \in DOMAIN todo /\ Tail(todo)[i] = todo[i + 1]
  BY <1>1, HeadIsFirst DEF TypeOK
<1>3. \A g \in Gated : early(g)' = early(g)
  BY <1>1 DEF early
<1>4. ASSUME todo' = Tail(todo)
      PROVE  LeftInv' /\ ~failing' /\ (OwnInv => OwnInv')
  <2>1. \A i \in DOMAIN todo' : i + 1 \in DOMAIN todo /\ i + 1 # 1 /\ todo'[i] = todo[i + 1]
    BY <1>2, <1>4
  <2>2. LeftInv'
    BY <1>1, <1>3, <2>1 DEF LeftInv
  <2>3. \A i \in DOMAIN todo' : todo'[i] # SetStatus("IDENTIFICATION_FAILED")
    BY <2>1 DEF BarrierInv, PendingInv
  <2>4. OwnInv => OwnInv'
    BY <1>1, <2>1 DEF OwnInv
  <2> QED
    BY <2>2, <2>3, <2>4, HeadOfNext DEF failing
<1>5. ASSUME todo' = <<Blocked>>
      PROVE  LeftInv' /\ ~failing' /\ (OwnInv => OwnInv')
  <2>1. \A i \in DOMAIN todo' : todo'[i].op = "blocked"
    BY <1>5, EffectFields
  <2>2. SetStatus("IDENTIFICATION_FAILED").op = "setStatus"
    BY EffectFields
  <2>3. \A i \in DOMAIN todo' : todo'[i] # SetStatus("IDENTIFICATION_FAILED")
    <3>1. \A i \in DOMAIN todo' : todo'[i].op # "setStatus"
      BY <2>1
    <3> QED
      BY <2>2, <3>1, Zenon
  <2>4. LeftInv'
    BY <2>1 DEF LeftInv
  <2>5. OwnInv'
    BY <2>1 DEF OwnInv
  <2> QED
    BY <2>3, <2>4, <2>5, HeadOfNext DEF failing
<1>6. ASSUME NEW d, Head(todo).op = "command", todo' = [todo EXCEPT ![1].targets = @ \ {d}]
      PROVE  LeftInv' /\ ~failing' /\ (OwnInv => OwnInv')
  <2>1. /\ DOMAIN todo' = DOMAIN todo /\ \A i \in DOMAIN todo : i # 1 => todo'[i] = todo[i]
        /\ todo'[1] = [Head(todo) EXCEPT !.targets = @ \ {d}]
    BY <1>2, <1>6 DEF TypeOK
  <2>2. /\ todo'[1].op = "command" /\ todo'[1].command = todo[1].command
        /\ todo'[1].spawnedIn = todo[1].spawnedIn
    BY <1>2, <1>6, <2>1, HeadTyped DEF Effect, Blocked
  <2>3. LeftInv'
    BY <1>1, <1>2, <1>3, <1>6, <2>1, <2>2 DEF LeftInv
  <2>4. todo'[1] # SetStatus("IDENTIFICATION_FAILED")
    <3>1. todo'[1].op # "setStatus"
      BY <2>2
    <3>2. SetStatus("IDENTIFICATION_FAILED").op = "setStatus"
      BY EffectFields
    <3> QED
      BY <3>1, <3>2, Zenon
  <2>5. OwnInv => OwnInv'
    BY <1>1, <1>2, <1>6, <2>1, <2>2 DEF OwnInv
  <2> QED
    BY <2>3, <2>4, <2>5, HeadOfNext DEF failing
<1>7. settled \/ settling => ~identifying'
  <2>1. CASE status' = status /\ Head(todo).op # "setStatus"
    <3>1. ~settling
      <4>1. SetStatus("COMPLETED").op = "setStatus" /\ SetStatus("INCOMPLETE").op = "setStatus"
        BY EffectFields
      <4>2. Head(todo) # SetStatus("COMPLETED") /\ Head(todo) # SetStatus("INCOMPLETE")
        BY <2>1, <4>1, Zenon
      <4> QED
        BY <4>2 DEF settling
    <3> QED
      BY <2>1, <3>1 DEF settled, identifying
  <2>2. CASE Head(todo) = SetStatus(status')
    <3>1. Head(todo).status = status' /\ status' \in FinalStatus \cup {"RUNNING"}
      BY <1>1, <2>2, EffectFields, HeadFields
    <3>2. settled \/ settling => status' # "IDENTIFICATION_FAILED"
      BY <1>1, <2>2, <3>1, EffectFields DEF settled, settling, failing
    <3> QED
      BY <3>1, <3>2 DEF identifying, IdentificationStatus, FinalStatus
  <2> QED
    BY <1>1, <2>1, <2>2
<1> QED
  BY <1>1, <1>4, <1>5, <1>6, <1>7

-----------------------------------------------------------------------------
(* Reports *)

\* the domain statuses beyond the phase barriers
beyond == DomainStatus \ {"IDENTIFYING", "IDENTIFICATION_FAILED", "IDENTIFIED"}

\* the effects of a report: identification fails only while it goes on, the only command
\* is CLEANUP, and rebootRequired is set over finished domains
FeedbackEffects ==
    /\ \A i \in DOMAIN todo' : todo'[i].op \in {"command", "consent"} => todo'[i].command = "CLEANUP"
    /\ ~identifying => ~failing'
    /\ rebootRequired' = rebootRequired \/ (allFinished' /\ settling' /\ ~failing')
    /\ \/ UNCHANGED domains
       \/ \E d \in DOMAIN domains, v \in DomainStatus :
            /\ domains' = [domains EXCEPT ![d] = v]
            /\ ~identifying => v \in beyond
            /\ ~identifying => domains[d] \notin Finished

LEMMA SetStatusDiffers ==
    ASSUME NEW s, NEW e, e = SetStatus("IDENTIFICATION_FAILED")
    PROVE  e.op = "setStatus" /\ e.status = "IDENTIFICATION_FAILED"
  BY EffectFields

LEMMA IdentificationEffects ==
    ASSUME TypeOK, TypeOK', NEW d \in DOMAIN domains, NEW hasActions \in BOOLEAN, identifying,
           HandleDomainIdentified(d, hasActions) \/ HandleDomainIdentificationFailed(d)
    PROVE  FeedbackEffects
<1>1. /\ rebootRequired' = rebootRequired
      /\ \E v \in DomainStatus : domains' = [domains EXCEPT ![d] = v]
  BY DEF HandleDomainIdentified, HandleDomainIdentificationFailed, DomainStatus, FeedbackStatus
<1>2. \A i \in DOMAIN todo' : todo'[i].op \notin {"command", "consent"}
  <2> DEFINE running == <<Notify("IDENTIFIED"), Notify("RUNNING"), SetStatus("RUNNING"), Send("DOWNLOAD", "true")>>
             none == <<Notify("IDENTIFIED"), SetStatus("COMPLETED"), Send("DOWNLOAD", "false")>>
  <2>1. todo' \in {<<>>, running, none, IdentificationFailed}
    BY DEF HandleDomainIdentified, HandleDomainIdentificationFailed
  <2>2. \A i \in DOMAIN running : running[i].op \notin {"command", "consent"}
    <3>1. DOMAIN running = 1..4 /\ running[1] = Notify("IDENTIFIED") /\ running[2] = Notify("RUNNING")
          /\ running[3] = SetStatus("RUNNING") /\ running[4] = Send("DOWNLOAD", "true")
      OBVIOUS
    <3> HIDE DEF running
    <3> QED
      BY <3>1, EffectFields
  <2>3. \A i \in DOMAIN none : none[i].op \notin {"command", "consent"}
    <3>1. DOMAIN none = 1..3 /\ none[1] = Notify("IDENTIFIED") /\ none[2] = SetStatus("COMPLETED")
          /\ none[3] = Send("DOWNLOAD", "false")
      OBVIOUS
    <3> HIDE DEF none
    <3> QED
      BY <3>1, EffectFields
  <2>4. \A i \in DOMAIN IdentificationFailed : IdentificationFailed[i].op \notin {"command", "consent"}
    BY EffectFields DEF IdentificationFailed
  <2>5. DOMAIN <<>> = {}
    OBVIOUS
  <2> HIDE DEF running, none
  <2> QED
    BY <2>1, <2>2, <2>3, <2>4, <2>5
<1> QED
  BY <1>1, <1>2 DEF FeedbackEffects

LEMMA PhaseFeedbackEffects ==
    ASSUME TypeOK, TypeOK', NEW d \in DOMAIN domains, NEW s, NEW from, NEW progress,
           NEW success \in beyond, NEW failure \in beyond, NEW next,
           domains[d] \notin Finished, UNCHANGED rebootRequired,
           PhaseFeedback(d, s, from, progress, success, failure, next)
    PROVE  FeedbackEffects
<1>1. \/ UNCHANGED domains
      \/ \E v \in beyond : domains' = [domains EXCEPT ![d] = v]
  BY DEF PhaseFeedback
<1>2. beyond \subseteq DomainStatus
  BY DEF beyond
<1>3. todo' \in {<<>>, <<Notify("RUNNING")>>, <<Command("CLEANUP", {d}, activity)>>,
                 <<Send(next, "true"), Notify("RUNNING")>>}
  BY DEF PhaseFeedback
<1>4. \A i \in DOMAIN todo' : /\ todo'[i].op \in {"command", "consent"} => todo'[i].command = "CLEANUP"
                              /\ todo'[i].op # "setStatus"
  BY <1>3, EffectFields
<1>5. ~failing'
  BY <1>4, HeadOfNext, SetStatusDiffers DEF failing
<1> QED
  BY <1>1, <1>2, <1>4, <1>5 DEF FeedbackEffects

LEMMA FinishedEffects ==
    ASSUME TypeOK, TypeOK', NEW d \in DOMAIN domains, NEW s, domains[d] \notin Finished,
           HandleDomainFinished(d, s)
    PROVE  FeedbackEffects
<1>1. \E v \in Finished : domains' = [domains EXCEPT ![d] = v]
  BY DEF HandleDomainFinished, Finished
<1>2. Finished \subseteq beyond /\ Finished \subseteq DomainStatus
  BY DEF Finished, beyond, DomainStatus, FeedbackStatus
<1>3. \/ todo' = <<>> /\ UNCHANGED rebootRequired
      \/ /\ ~Some(domains', DomainStatus \ Finished)
         /\ \/ todo' = <<SetStatus("INCOMPLETE"), Send("err", "true")>>
            \/ todo' = <<SetStatus("COMPLETED"), Send("done", "true")>>
  BY DEF HandleDomainFinished, DomainUpdateCompleted
<1>4. CASE todo' = <<>> /\ UNCHANGED rebootRequired
  <2>1. DOMAIN todo' = {} /\ ~failing'
    BY <1>4 DEF failing
  <2> QED
    BY <1>1, <1>2, <1>4, <2>1 DEF FeedbackEffects
<1>5. ASSUME NEW x \in {"INCOMPLETE", "COMPLETED"}, NEW c, todo' = <<SetStatus(x), Send(c, "true")>>,
             ~Some(domains', DomainStatus \ Finished)
      PROVE  FeedbackEffects
  <2>1. DOMAIN todo' = 1..2 /\ todo'[1] = SetStatus(x) /\ todo'[2] = Send(c, "true") /\ todo' # <<>>
    BY <1>5
  <2>2. \A i \in DOMAIN todo' : todo'[i].op \notin {"command", "consent"}
    BY <2>1, EffectFields
  <2>3. Head(todo') = SetStatus(x)
    BY <2>1, HeadOfNext
  <2>4. settling'
    BY <2>1, <2>3 DEF settling
  <2>5. ~failing'
    BY <2>3, EffectFields DEF failing
  <2> QED
    BY <1>1, <1>2, <1>5, <2>2, <2>4, <2>5 DEF FeedbackEffects, allFinished
<1> QED
  BY <1>3, <1>4, <1>5

LEMMA FeedbackStep ==
    ASSUME TypeOK, TypeOK', NEW d, NEW s \in FeedbackStatus, NEW hasActions \in BOOLEAN,
           HandleDesiredStateFeedbackEvent(d, s, hasActions)
    PROVE  /\ UNCHANGED <<activity, pc, status, reboot>> /\ todo = <<>>
           /\ FeedbackEffects
<1>1. d \in DOMAIN domains /\ UNCHANGED <<activity, pc, status, reboot>> /\ todo = <<>>
  BY DEF HandleDesiredStateFeedbackEvent
<1>2. CASE UNCHANGED <<domains, rebootRequired, todo>>
  <2>1. DOMAIN todo' = {} /\ ~failing'
    BY <1>1, <1>2 DEF failing
  <2> QED
    BY <1>1, <1>2, <2>1 DEF FeedbackEffects
<1>3. CASE Accepts(d, s) /\ HandleAccepted(d, s, hasActions)
  <2>1. CASE s \in {"IDENTIFIED", "IDENTIFICATION_FAILED"}
    <3>1. identifying
      BY <1>3, <2>1 DEF Accepts, AcceptedIn, identifying
    <3>2. HandleDomainIdentified(d, hasActions) \/ HandleDomainIdentificationFailed(d)
      BY <1>3, <2>1 DEF HandleAccepted, HandleDomainDownload, HandleDomainUpdate, HandleDomainActivation,
                        HandleDomainRollback, PhaseFeedback, HandleDomainFinished
    <3> QED
      BY <1>1, <3>1, <3>2, IdentificationEffects
  <2>2. CASE s \notin {"IDENTIFIED", "IDENTIFICATION_FAILED"}
    <3>1. domains[d] \notin Finished
      BY <1>3, <2>2 DEF Accepts, AcceptedFrom, Downloadable, Updatable, Activatable, Rollbackable, Cleanable,
                        Finished, FeedbackStatus
    <3>2. /\ {"DOWNLOAD_SUCCESS", "DOWNLOAD_FAILURE", "UPDATE_SUCCESS", "UPDATE_FAILURE"} \subseteq beyond
          /\ {"ACTIVATION_SUCCESS", "ACTIVATION_FAILURE", "ROLLBACK_SUCCESS", "ROLLBACK_FAILURE"} \subseteq beyond
      BY DEF beyond, DomainStatus, FeedbackStatus
    <3>3. CASE HandleDomainDownload(d, s) /\ UNCHANGED rebootRequired
      BY <1>1, <3>1, <3>2, <3>3, PhaseFeedbackEffects DEF HandleDomainDownload
    <3>4. CASE HandleDomainUpdate(d, s) /\ UNCHANGED rebootRequired
      BY <1>1, <3>1, <3>2, <3>4, PhaseFeedbackEffects DEF HandleDomainUpdate
    <3>5. CASE HandleDomainActivation(d, s) /\ UNCHANGED rebootRequired
      BY <1>1, <3>1, <3>2, <3>5, PhaseFeedbackEffects DEF HandleDomainActivation
    <3>6. CASE HandleDomainRollback(d, s) /\ UNCHANGED rebootRequired
      BY <1>1, <3>1, <3>2, <3>6, PhaseFeedbackEffects DEF HandleDomainRollback
    <3>7. CASE todo' = <<Notify("RUNNING")>> /\ UNCHANGED <<domains, rebootRequired>>
      <4>1. \A i \in DOMAIN todo' : todo'[i].op = "notify"
        BY <3>7, EffectFields
      <4>2. ~failing'
        BY <4>1, HeadOfNext, SetStatusDiffers DEF failing
      <4> QED
        BY <1>1, <3>7, <4>1, <4>2 DEF FeedbackEffects
    <3>8. CASE HandleDomainFinished(d, s)
      BY <1>1, <3>1, <3>8, FinishedEffects
    <3> QED
      BY <1>3, <2>2, <3>3, <3>4, <3>5, <3>6, <3>7, <3>8 DEF HandleAccepted
  <2> QED
    BY <2>1, <2>2
<1> QED
  BY <1>2, <1>3 DEF HandleDesiredStateFeedbackEvent

-----------------------------------------------------------------------------
(* Apply *)

ApplyWork == Identify \/ PhaseTimeout \/ Wait \/ ReturnReboot \/ ReportFinal

\* the ways of Apply from one wait to the next, and out of the last
ApplyEffects ==
    /\ UNCHANGED <<activity, domains, todo, rebootRequired>>
    /\ \/ pc = "identify" /\ pc' = "DOWNLOAD" /\ UNCHANGED <<status, reboot>>
       \/ pc = "DOWNLOAD" /\ pc' = "UPDATE" /\ past("DOWNLOAD") /\ settled /\ UNCHANGED <<status, reboot>>
       \/ pc = "UPDATE" /\ pc' = "ACTIVATE" /\ past("UPDATE") /\ settled /\ UNCHANGED <<status, reboot>>
       \/ /\ pc \in Waits /\ pc' \in {"CLEANUP", "done", "return"}
          /\ status' \in {status, "INCOMPLETE"} /\ UNCHANGED reboot
       \/ pc = "DOWNLOAD" /\ pc' = "report" /\ UNCHANGED reboot
       \/ /\ pc = "return" /\ pc' = "report" /\ UNCHANGED status
          /\ reboot' = (rebootRequired /\ status = "COMPLETED")
       \/ pc = "report" /\ pc' = "dispose" /\ UNCHANGED <<status, reboot>>

LEMMA ApplyWorkStep ==
    ASSUME TypeOK, BarrierInv, ApplyWork
    PROVE  ApplyEffects
<1>1. CASE Identify
  BY <1>1 DEF Identify, opVars, ApplyEffects
<1>2. CASE PhaseTimeout
  BY <1>2 DEF PhaseTimeout, AfterError, applyUnchanged, ApplyEffects, Waits, Commands
<1>3. CASE ErrorSignalled
  BY <1>3 DEF ErrorSignalled, AfterError, applyUnchanged, ApplyEffects, Waits, Commands
<1>4. CASE ContextDone
  BY <1>4 DEF ContextDone, AfterError, applyUnchanged, ApplyEffects, Waits, Commands
<1>5. CASE RollbackSignalled
  BY <1>5 DEF RollbackSignalled, After, applyUnchanged, ApplyEffects, Waits, Commands
<1>6. CASE Signalled
  <2>1. /\ pc \in Gated /\ chan[pc] = "true" => past(pc) /\ settled
        /\ UNCHANGED <<activity, domains, todo, rebootRequired, status, reboot>>
    BY <1>6 DEF BarrierInv, SignalInv, early, Gated, settled, Signalled, applyUnchanged
  <2>2. pc \in Waits /\ pc' = IF chan[pc] = "true" THEN After(pc) ELSE "return"
    BY <1>6 DEF Signalled
  <2> QED
    BY <2>1, <2>2 DEF After, ApplyEffects, Waits, Commands, Gated
<1>7. CASE ReturnReboot
  BY <1>7 DEF ReturnReboot, opVars, ApplyEffects
<1>8. CASE ReportFinal
  BY <1>8 DEF ReportFinal, opVars, ApplyEffects
<1> QED
  BY <1>1, <1>2, <1>3, <1>4, <1>5, <1>6, <1>7, <1>8 DEF ApplyWork, Wait

\* steps of agents, network and router that leave the operation to others
QuietEffects == UNCHANGED <<activity, pc, status, domains, rebootRequired, todo, reboot>>

LEMMA QuietStep ==
    \/ \E approved \in BOOLEAN : HandleOwnerConsentFeedback(approved)
    \/ \E d \in Domains : SendDesiredState(d)
    \/ Terminate
    \/ UNCHANGED vars
    => QuietEffects
  BY DEF HandleOwnerConsentFeedback, SendDesiredState, Terminate, vars, opVars, QuietEffects

\* every step is of one of these kinds
LEMMA StepKinds ==
    ASSUME [Next]_vars
    PROVE  \/ \E ds \in SUBSET Domains : SetupUpdateOperation(ds)
           \/ DisposeUpdateOperation
           \/ ApplyWork
           \/ HolderWork
           \/ (\E h \in handlers : HandleCommandSignal(h)) \/ OwnerConsented \/ OwnerConsentFailed
           \/ \E d \in Domains, s \in FeedbackStatus, hasActions \in BOOLEAN :
                HandleDesiredStateFeedbackEvent(d, s, hasActions)
           \/ QuietEffects
<1>1. ASSUME NEW d \in Domains, SendDesiredStateFailed(d)
      PROVE  HandleDesiredStateFeedbackEvent(d, "INCOMPLETE", FALSE) \/ QuietEffects
  BY <1>1 DEF SendDesiredStateFailed, QuietEffects, opVars
<1>2. "INCOMPLETE" \in FeedbackStatus /\ FALSE \in BOOLEAN
  BY DEF FeedbackStatus
<1>3. ASSUME NEW d \in Domains, NEW s \in FeedbackStatus, NEW hasActions \in BOOLEAN,
             AgentFeedback(d, s, hasActions)
      PROVE  HandleDesiredStateFeedbackEvent(d, s, hasActions)
  BY <1>3 DEF AgentFeedback
<1> QED
  BY <1>1, <1>2, <1>3, QuietStep, Zenon DEF Next, Apply, HoldLock, HolderWork, ApplyWork

-----------------------------------------------------------------------------
(* The invariant *)

LEMMA LifecycleStep ==
    ASSUME TypeOK, TypeOK', BarrierInv, LifecycleInv, [Next]_vars
    PROVE  LifecycleInv'
<1> USE DEF LifecycleInv
<1>1. ASSUME NEW ds \in SUBSET Domains, SetupUpdateOperation(ds)
      PROVE  LifecycleInv'
  <2>1. todo' = <<>> /\ pc' \in {"identify", "report"} /\ rebootRequired' = FALSE /\ reboot' = FALSE
    BY <1>1 DEF SetupUpdateOperation
  <2>2. DOMAIN todo' = {}
    BY <2>1
  <2> QED
    BY <2>1, <2>2 DEF StageInv, LeftInv, RebootInv
<1>2. CASE DisposeUpdateOperation
  <2>1. todo' = <<>> /\ pc' = "idle"
    BY <1>2 DEF DisposeUpdateOperation
  <2>2. DOMAIN todo' = {}
    BY <2>1
  <2> QED
    BY <2>1, <2>2 DEF StageInv, LeftInv, RebootInv
<1>3. CASE ApplyWork
  <2>1. ApplyEffects
    BY <1>3, ApplyWorkStep
  <2>2. failing' = failing /\ settling' = settling /\ allFinished' = allFinished
    BY <2>1 DEF ApplyEffects, failing, settling, allFinished, Some
  <2>3. status' \in {status, "INCOMPLETE"} => (identifying' => identifying)
    BY DEF identifying, IdentificationStatus
  <2>4. StageInv'
    BY <2>1, <2>2, <2>3 DEF ApplyEffects, StageInv, settled
  <2>5. LeftInv'
    <3>1. pc' # "idle" /\ \A c \in Gated : early(c)' => early(c)
      BY <2>1 DEF ApplyEffects, early, Waits, Commands
    <3> QED
      BY <2>1, <3>1 DEF ApplyEffects, LeftInv
  <2>6. RebootInv'
    <3>1. status = "COMPLETED" => ~identifying
      BY DEF identifying, IdentificationStatus
    <3>2. /\ (failing' <=> failing) /\ (settling' <=> settling) /\ (allFinished' <=> allFinished)
          /\ rebootRequired' = rebootRequired
      BY <2>1, <2>2 DEF ApplyEffects
    <3>3. CASE pc = "return"
      <4>1. pc' = "report" /\ status' = status /\ (reboot' => rebootRequired /\ status = "COMPLETED")
        BY <2>1, <3>3 DEF ApplyEffects, Waits, Commands
      <4> QED
        BY <2>3, <3>1, <3>2, <3>3, <4>1 DEF RebootInv, settled
    <3>4. CASE pc # "return"
      <4>1. /\ UNCHANGED reboot
            /\ \/ /\ pc \notin {"idle", "report", "dispose"} /\ pc' \notin {"idle", "report", "dispose"}
                  /\ status' \in {status, "INCOMPLETE"}
               \/ pc \notin {"idle", "report", "dispose"} /\ pc' = "report"
               \/ pc = "identify" /\ pc' = "DOWNLOAD" /\ status' = status
               \/ /\ pc \in Waits /\ pc' \in {"CLEANUP", "done", "return"}
                  /\ pc \notin {"idle", "report", "dispose"} /\ status' \in {status, "INCOMPLETE"}
               \/ pc = "report" /\ pc' = "dispose" /\ status' = status
        BY <2>1, <3>4 DEF ApplyEffects, Waits, Commands
      <4> QED
        BY <2>3, <3>2, <4>1 DEF RebootInv, settled
    <3> QED
      BY <3>3, <3>4
  <2> QED
    BY <2>4, <2>5, <2>6
<1>4. CASE HolderWork
  <2>1. /\ UNCHANGED <<activity, pc, domains, rebootRequired, reboot>>
        /\ LeftInv' /\ ~failing'
        /\ settled \/ settling => ~identifying'
    BY <1>4, HolderWorkStep
  <2>2. allFinished' = allFinished
    BY <2>1 DEF allFinished, Some
  <2>3. StageInv' /\ RebootInv'
    BY <2>1, <2>2 DEF StageInv, RebootInv, settled
  <2> QED
    BY <2>1, <2>3
<1>5. CASE (\E h \in handlers : HandleCommandSignal(h)) \/ OwnerConsented \/ OwnerConsentFailed
  <2>1. /\ UNCHANGED <<activity, pc, status, domains, rebootRequired, reboot>>
        /\ LeftInv' /\ ~failing' /\ ~settling
    BY <1>5, CommandSignalStep
  <2>2. allFinished' = allFinished /\ identifying' = identifying
    BY <2>1 DEF allFinished, Some, identifying
  <2>3. StageInv' /\ RebootInv'
    BY <2>1, <2>2 DEF StageInv, RebootInv, settled
  <2> QED
    BY <2>1, <2>3
<1>6. ASSUME NEW d \in Domains, NEW s \in FeedbackStatus, NEW hasActions \in BOOLEAN,
             HandleDesiredStateFeedbackEvent(d, s, hasActions)
      PROVE  LifecycleInv'
  <2>1. UNCHANGED <<activity, pc, status, reboot>> /\ todo = <<>> /\ FeedbackEffects
    BY <1>6, FeedbackStep
  <2>2. identifying' = identifying /\ ~settling
    BY <2>1 DEF identifying, settling
  <2>3. ASSUME ~identifying, allFinished
        PROVE  UNCHANGED domains
    <3>1. ASSUME NEW x \in DOMAIN domains
          PROVE  domains[x] \in Finished
      BY <2>3 DEF allFinished, Some, TypeOK
    <3> QED
      BY <2>1, <2>3, <3>1 DEF FeedbackEffects
  <2>4. ~identifying /\ allFinished => allFinished'
    BY <2>3 DEF allFinished, Some
  <2>5. StageInv'
    BY <2>1, <2>2 DEF StageInv, settled, FeedbackEffects
  <2>6. LeftInv'
    BY <2>1 DEF LeftInv, FeedbackEffects, Gated
  <2>7. RebootInv'
    BY <2>1, <2>2, <2>4 DEF RebootInv, settled, FeedbackEffects
  <2> QED
    BY <2>5, <2>6, <2>7
<1>7. CASE QuietEffects
  BY <1>7 DEF QuietEffects, StageInv, LeftInv, RebootInv, early, settled, settling, failing, identifying,
              allFinished, Some
<1> HIDE DEF LifecycleInv
<1> QED
  BY <1>1, <1>2, <1>3, <1>4, <1>5, <1>6, <1>7, StepKinds

LEMMA InitLifecycle == Init => LifecycleInv
<1>1. Init => DOMAIN todo = {} /\ pc = "idle"
  <2>1. DOMAIN <<>> = {}
    OBVIOUS
  <2> QED
    BY <2>1 DEF Init
<1> QED
  BY <1>1 DEF LifecycleInv, StageInv, LeftInv, RebootInv

\* What Apply, the lock holder and the reports leave to each other, in every reachable state.
THEOREM LifecycleInvariant == Spec => []LifecycleInv
<1>1. TypeOK /\ TypeOK' /\ BarrierInv /\ LifecycleInv /\ [Next]_vars => LifecycleInv'
  BY LifecycleStep
<1> QED
  BY <1>1, InitLifecycle, TypeCorrect, BarrierInvariant, PTL DEF Spec

\* Apply asks for a reboot only over finished domains, although it reads rebootRequired
\* and the status without a lock (update_orchestrator_apply.go:52).
THEOREM RebootOnlyWhenFinishedHolds == Spec => []RebootOnlyWhenFinished
<1>1. LifecycleInv => RebootOnlyWhenFinished
  BY DEF LifecycleInv, RebootInv, RebootOnlyWhenFinished, allFinished
<1> QED
  BY <1>1, LifecycleInvariant, PTL

-----------------------------------------------------------------------------
(* Goroutines of earlier activities *)

LEMMA OwnStep ==
    ASSUME TypeOK, TypeOK', BarrierInv, LifecycleInv, Undisturbed, OwnInv, [Next]_vars
    PROVE  OwnInv'
<1>1. CASE DisposeUpdateOperation \/ \E ds \in SUBSET Domains : SetupUpdateOperation(ds)
  <2>1. todo' = <<>>
    BY <1>1 DEF DisposeUpdateOperation, SetupUpdateOperation
  <2>2. DOMAIN todo' = {}
    BY <2>1
  <2> QED
    BY <2>2 DEF OwnInv
<1>2. CASE ApplyWork
  BY <1>2, ApplyWorkStep DEF ApplyEffects, OwnInv
<1>3. CASE HolderWork
  BY <1>3, HolderWorkStep DEF LifecycleInv
<1>4. CASE (\E h \in handlers : HandleCommandSignal(h)) \/ OwnerConsented \/ OwnerConsentFailed
  BY <1>4, CommandSignalStep DEF LifecycleInv
<1>5. ASSUME NEW d \in Domains, NEW s \in FeedbackStatus, NEW hasActions \in BOOLEAN,
             HandleDesiredStateFeedbackEvent(d, s, hasActions)
      PROVE  OwnInv'
  <2>1. FeedbackEffects
    BY <1>5, FeedbackStep
  <2> QED
    BY <2>1 DEF FeedbackEffects, OwnInv, Gated
<1>6. CASE QuietEffects
  BY <1>6 DEF QuietEffects, OwnInv
<1> QED
  BY <1>1, <1>2, <1>3, <1>4, <1>5, <1>6, StepKinds

LEMMA InitOwn == Init => OwnInv
<1>1. Init => DOMAIN todo = {}
  <2>1. DOMAIN <<>> = {}
    OBVIOUS
  <2> QED
    BY <2>1 DEF Init
<1> QED
  BY <1>1 DEF OwnInv

\* If no goroutine outlives its activity into the next, whoever holds operationLock works
\* for the activity under way.
THEOREM OwnInvariant == Spec /\ []Undisturbed => []OwnInv
<1>1. /\ TypeOK /\ TypeOK' /\ BarrierInv /\ LifecycleInv /\ Undisturbed /\ OwnInv /\ [Next]_vars
      => OwnInv'
  BY OwnStep
<1> QED
  BY <1>1, InitOwn, TypeCorrect, BarrierInvariant, LifecycleInvariant, PTL DEF Spec

LEMMA OwnBarrier == TypeOK /\ BarrierInv /\ OwnInv => PhaseBarrier
<1> SUFFICES ASSUME TypeOK, BarrierInv, OwnInv, NEW c \in Gated, issuing(c)
             PROVE  past(c)
  BY DEF PhaseBarrier, past
<1>1. Head(todo) = todo[1] /\ 1 \in DOMAIN todo
  BY HeadTyped DEF issuing
<1>2. todo[1].op = "command" /\ todo[1].command = c
  BY <1>1 DEF issuing
<1> QED
  BY <1>1, <1>2 DEF BarrierInv, CommandInv, OwnInv

\* No domain is commanded DOWNLOAD before all were identified, nor UPDATE before all have
\* left the download phase, whoever issues the command and whatever the agents, the owner,
\* the timers and the network do, as long as no goroutine outlives its activity into the
\* next.  With one that does it is false: such a goroutine issues its command over the
\* domains of an operation it knows nothing of (update_orchestrator_apply.go:95).
THEOREM PhaseBarrierHolds == Spec /\ []Undisturbed => []PhaseBarrier
  BY OwnBarrier, OwnInvariant, TypeCorrect, BarrierInvariant, PTL

\* a goroutine is spawned by an activity
SpawnedInv ==
    /\ pc # "idle" => activity >= 1
    /\ \A h \in handlers : h.spawnedIn >= 1

LEMMA SpawnedStep ==
    ASSUME TypeOK, SpawnedInv, [Next]_vars
    PROVE  SpawnedInv'
<1> USE DEF SpawnedInv
<1>1. activity \in Nat /\ \A h \in handlers : h.spawnedIn \in Nat
  BY DEF TypeOK
<1>2. ASSUME NEW ds \in SUBSET Domains, SetupUpdateOperation(ds)
      PROVE  SpawnedInv'
  <2>1. activity' = activity + 1 /\ handlers' = handlers
    BY <1>2, Zenon DEF SetupUpdateOperation
  <2> QED
    BY <1>1, <2>1
<1>3. CASE DisposeUpdateOperation
  BY <1>3 DEF DisposeUpdateOperation
<1>4. CASE Identify \/ Wait \/ PhaseTimeout \/ ReturnReboot \/ ReportFinal
  <2>1. UNCHANGED activity /\ pc # "idle"
    BY <1>4 DEF Identify, Wait, PhaseTimeout, ReturnReboot, ReportFinal, ErrorSignalled, RollbackSignalled,
                Signalled, ContextDone, applyUnchanged, Waits, Commands
  <2>2. handlers' \subseteq handlers \cup {[command |-> pc, spawnedIn |-> activity]}
    BY <1>4 DEF Identify, Wait, PhaseTimeout, ReturnReboot, ReportFinal, ErrorSignalled, RollbackSignalled,
                Signalled, ContextDone, applyUnchanged
  <2>3. [command |-> pc, spawnedIn |-> activity].spawnedIn = activity
    OBVIOUS
  <2> QED
    BY <2>1, <2>2, <2>3
<1>5. CASE \/ HoldLock \/ OwnerConsentFailed \/ Terminate
           \/ \E h \in handlers : HandleCommandSignal(h)
           \/ \E approved \in BOOLEAN : HandleOwnerConsentFeedback(approved)
           \/ \E d \in Domains : \/ SendDesiredState(d) \/ SendDesiredStateFailed(d)
                                 \/ CommandDomain(d) \/ CommandFailed(d)
                                 \/ \E s \in FeedbackStatus, hasActions \in BOOLEAN :
                                      AgentFeedback(d, s, hasActions)
           \/ UNCHANGED vars
  <2>1. UNCHANGED <<activity, pc>> /\ handlers' \subseteq handlers
    BY <1>5 DEF HoldLock, OwnerConsented, NotifyFeedback, UpdateStatus, SendSignal, OwnerConsentFailed,
                Terminate, HandleCommandSignal, HandleOwnerConsentFeedback, SendDesiredState,
                SendDesiredStateFailed, CommandDomain, CommandFailed, AgentFeedback,
                HandleDesiredStateFeedbackEvent, handlerUnchanged, holderUnchanged, vars, opVars
  <2> QED
    BY <2>1
<1> QED
  BY <1>2, <1>3, <1>4, <1>5 DEF Next, Apply

\* A goroutine of an earlier activity needs an earlier activity.
THEOREM FirstOperationUndisturbed == Spec => [](activity <= 1 => Undisturbed)
<1>1. Init => SpawnedInv
  BY DEF Init, SpawnedInv
<1>2. TypeOK /\ SpawnedInv /\ [Next]_vars => SpawnedInv'
  BY SpawnedStep
<1>3. TypeOK /\ BarrierInv /\ SpawnedInv => (activity <= 1 => Undisturbed)
  <2> SUFFICES ASSUME TypeOK, BarrierInv, SpawnedInv, activity <= 1, NEW h \in handlers
               PROVE  h.spawnedIn = activity
    BY DEF Undisturbed
  <2>1. activity \in Nat /\ h.spawnedIn \in Nat
    BY DEF TypeOK
  <2>2. h.spawnedIn <= activity /\ h.spawnedIn >= 1
    BY DEF BarrierInv, HandlerInv, SpawnedInv
  <2> QED
    BY <2>1, <2>2
<1> QED
  BY <1>1, <1>2, <1>3, TypeCorrect, BarrierInvariant, PTL DEF Spec

\* In the first activity the phases are barriers without any hypothesis.
THEOREM FirstOperationBarrier == Spec /\ [](activity <= 1) => []PhaseBarrier
  BY FirstOperationUndisturbed, PhaseBarrierHolds, PTL

-----------------------------------------------------------------------------
(* The refinement *)

levels == [d \in DOMAIN domains |-> levelOf(domains[d])]

LEMMA Levels ==
    ASSUME NEW s \in DomainStatus
    PROVE  /\ levelOf(s) \in 0..3
           /\ s \notin {"IDENTIFYING", "IDENTIFICATION_FAILED"} => levelOf(s) >= 1
           /\ s \in beyond => levelOf(s) >= 2
           /\ s \in Finished => levelOf(s) >= 3
  BY DEF levelOf, beyond, Finished, DomainStatus, FeedbackStatus

\* what the orchestrator finds out about the domains, in terms of their levels
LEMMA Reached ==
    ASSUME TypeOK
    PROVE  /\ past("DOWNLOAD") => Abstract!reached(1)
           /\ past("UPDATE") => Abstract!reached(2)
           /\ allFinished => Abstract!reached(3)
<1>1. ASSUME NEW d \in DOMAIN domains
      PROVE  domains[d] \in DomainStatus
  BY DEF TypeOK
<1>2. past("DOWNLOAD") => Abstract!reached(1)
  BY <1>1, Levels DEF past, Some, Before, Abstract!reached
<1>3. past("UPDATE") => Abstract!reached(2)
  BY <1>1, Levels DEF past, Some, Before, beyond, Abstract!reached
<1>4. allFinished => Abstract!reached(3)
  BY <1>1, Levels DEF allFinished, Some, Abstract!reached
<1> QED
  BY <1>2, <1>3, <1>4

LEMMA SameLevels ==
    UNCHANGED domains => UNCHANGED levels
  BY DEF levels

LEMMA SameCommanding ==
    UNCHANGED <<activity, todo>> => UNCHANGED commandingOf
  BY DEF commandingOf, issuing

\* taking the lock and working with it issues commands, or ceases to
LEMMA CommandingStep ==
    ASSUME TypeOK, TypeOK', CommandInv', LeftInv', OwnInv', UNCHANGED <<activity, pc, domains, reboot>>
    PROVE  Abstract!Issue(1) \/ Abstract!Issue(2) \/ Abstract!Issued
<1>1. UNCHANGED <<stageOf, levels, reboot>>
  BY SameLevels DEF stageOf
<1>2. ASSUME NEW c \in Gated, issuing(c)'
      PROVE  past(c) /\ ~early(c) /\ pc # "idle"
  <2>1. 1 \in DOMAIN todo' /\ todo'[1].op = "command" /\ todo'[1].command = c
    BY <1>2, HeadOfNext DEF issuing
  <2>3. todo'[1].spawnedIn = activity'
    BY <2>1 DEF OwnInv
  <2>2. past(c)' /\ ~early(c)' /\ pc' # "idle"
    BY <2>1, <2>3 DEF CommandInv, LeftInv
  <2> QED
    BY <2>2 DEF past, early, Some
<1>3. CASE issuing("DOWNLOAD")'
  <2>1. past("DOWNLOAD") /\ stageOf \notin {"idle", "identify"}
    BY <1>2, <1>3 DEF Gated, early, stageOf
  <2>2. commandingOf' = 1
    BY <1>3 DEF commandingOf
  <2> QED
    BY <1>1, <2>1, <2>2, Reached DEF Abstract!Issue, Abstract!Downloaded, levels
<1>4. CASE ~issuing("DOWNLOAD")' /\ issuing("UPDATE")'
  <2>1. past("UPDATE") /\ stageOf \notin {"idle", "identify", "download"}
    BY <1>2, <1>4 DEF Gated, early, stageOf
  <2>2. commandingOf' = 2
    BY <1>4 DEF commandingOf
  <2> QED
    BY <1>1, <2>1, <2>2, Reached DEF Abstract!Issue, levels
<1>5. CASE ~issuing("DOWNLOAD")' /\ ~issuing("UPDATE")'
  BY <1>1, <1>5 DEF commandingOf, Abstract!Issued, levels
<1> QED
  BY <1>3, <1>4, <1>5

LEMMA ApplyImplements ==
    ASSUME TypeOK, TypeOK', LifecycleInv, LifecycleInv', ApplyEffects
    PROVE  \/ Abstract!Proceed \/ Abstract!Skip \/ Abstract!Close
           \/ UNCHANGED Abstract!avars
<1>1. UNCHANGED <<levels, commandingOf>>
  BY SameLevels, SameCommanding DEF ApplyEffects
<1>2. CASE \/ pc = "identify" /\ pc' = "DOWNLOAD" /\ UNCHANGED reboot
           \/ pc = "report" /\ pc' = "dispose" /\ UNCHANGED reboot
  <2>1. UNCHANGED stageOf
    BY <1>2 DEF stageOf
  <2> QED
    BY <1>1, <1>2, <2>1 DEF Abstract!avars, levels
<1>3. CASE pc = "DOWNLOAD" /\ pc' = "UPDATE" /\ past("DOWNLOAD") /\ UNCHANGED reboot
  <2>1. stageOf = "identify" /\ stageOf' = "download"
    BY <1>3 DEF stageOf
  <2> QED
    BY <1>1, <1>3, <2>1, Reached DEF Abstract!Proceed, Abstract!Identified, levels
<1>4. CASE pc = "UPDATE" /\ pc' = "ACTIVATE" /\ past("UPDATE") /\ UNCHANGED reboot
  <2>1. stageOf = "download" /\ stageOf' = "update"
    BY <1>4 DEF stageOf
  <2> QED
    BY <1>1, <1>4, <2>1, Reached DEF Abstract!Proceed, Abstract!Downloaded, levels
<1>5. CASE pc \in Waits /\ pc' \in {"CLEANUP", "done", "return"} /\ UNCHANGED reboot
  <2>1. stageOf \in {"identify", "download", "update", "finish"} /\ stageOf' = "finish"
    BY <1>5 DEF stageOf, Waits, Commands
  <2> QED
    BY <1>1, <1>5, <2>1 DEF Abstract!Skip, Abstract!Open, levels
<1>6. CASE pc \in {"DOWNLOAD", "return"} /\ pc' = "report" /\ (pc = "DOWNLOAD" => UNCHANGED reboot)
  <2>1. stageOf \in {"identify", "finish"} /\ stageOf' = "closed"
    BY <1>6 DEF stageOf
  <2>2. reboot' => Abstract!reached(3)
    <3>1. reboot' => allFinished'
      BY <1>6 DEF LifecycleInv, RebootInv
    <3>2. allFinished' => allFinished
      BY DEF ApplyEffects, allFinished, Some
    <3> QED
      BY <3>1, <3>2, Reached
  <2>3. reboot' \in BOOLEAN
    BY DEF TypeOK
  <2> QED
    BY <1>1, <1>6, <2>1, <2>2, <2>3 DEF Abstract!Close, Abstract!Open, Abstract!FinishedAll, levels
<1> QED
  BY <1>2, <1>3, <1>4, <1>5, <1>6 DEF ApplyEffects

LEMMA FeedbackImplements ==
    ASSUME TypeOK, TypeOK', LifecycleInv, UNCHANGED <<activity, pc, status, reboot>>, todo = <<>>,
           FeedbackEffects
    PROVE  Abstract!Move \/ UNCHANGED Abstract!avars
<1>1. UNCHANGED stageOf
  BY DEF stageOf
<1>2. commandingOf = 0 /\ commandingOf' = 0
  <2>1. ASSUME NEW c \in Gated
        PROVE  ~issuing(c) /\ ~issuing(c)'
    BY HeadOfNext DEF FeedbackEffects, issuing, Gated
  <2> QED
    BY <2>1 DEF commandingOf, Gated
<1>3. CASE UNCHANGED domains
  BY <1>1, <1>2, <1>3, SameLevels DEF Abstract!avars, levels
<1>4. ASSUME NEW d \in DOMAIN domains, NEW v \in DomainStatus,
             domains' = [domains EXCEPT ![d] = v],
             ~identifying => v \in beyond /\ domains[d] \notin Finished
      PROVE  Abstract!Move
  <2>1. levels' = [levels EXCEPT ![d] = levelOf(v)] /\ d \in DOMAIN levels
    BY <1>4 DEF levels
  <2>2. levelOf(v) \in Abstract!floor..3
    <3>1. CASE stageOf \in {"download", "update"}
      <4>1. ~identifying
        BY <3>1 DEF stageOf, LifecycleInv, StageInv, settled
      <4>2. levelOf(v) \in 0..3 /\ levelOf(v) >= 2
        BY <1>4, <4>1, Levels
      <4>3. Abstract!floor \in {1, 2}
        BY <3>1 DEF Abstract!floor, Abstract!Identified, Abstract!Downloaded
      <4> QED
        BY <4>2, <4>3
    <3>2. CASE stageOf \notin {"download", "update"}
      <4>1. ~(stageOf = "closed" /\ reboot)
        <5>1. SUFFICES ASSUME stageOf = "closed", reboot
                       PROVE  FALSE
          OBVIOUS
        <5>2. pc \in {"report", "dispose"}
          BY <5>1 DEF stageOf
        <5>3. allFinished /\ ~identifying
          BY <5>1, <5>2 DEF LifecycleInv, RebootInv, settled
        <5>4. domains[d] \in DomainStatus
          BY DEF TypeOK
        <5> QED
          BY <1>4, <5>3, <5>4 DEF allFinished, Some
      <4>2. Abstract!floor = 0
        BY <3>2, <4>1 DEF Abstract!floor, Abstract!Unidentified
      <4> QED
        BY <4>2, Levels
    <3> QED
      BY <3>1, <3>2
  <2> QED
    BY <1>1, <1>2, <2>1, <2>2 DEF Abstract!Move, Abstract!FinishedAll, levels
<1> QED
  BY <1>3, <1>4 DEF FeedbackEffects

\* every step of the orchestrator is one of the lifecycle, or none
LEMMA StepImplements ==
    ASSUME TypeOK, TypeOK', BarrierInv, BarrierInv', LifecycleInv, LifecycleInv', OwnInv', [Next]_vars
    PROVE  [Abstract!LifecycleNext]_(Abstract!avars)
<1>1. ASSUME NEW ds \in SUBSET Domains, SetupUpdateOperation(ds)
      PROVE  Abstract!Begin
  <2>1. stageOf = "idle" /\ stageOf' = IF ds = {} THEN "closed" ELSE "identify"
    BY <1>1 DEF SetupUpdateOperation, stageOf
  <2>2. commandingOf = 0 /\ commandingOf' = 0 /\ reboot' = FALSE
    BY <1>1 DEF SetupUpdateOperation, commandingOf, issuing
  <2>3. levels' = [d \in ds |-> 0]
    <3>1. domains' = [d \in ds |-> "IDENTIFYING"]
      BY <1>1 DEF SetupUpdateOperation
    <3>2. DOMAIN domains' = ds /\ \A d \in ds : domains'[d] = "IDENTIFYING"
      BY <3>1
    <3>3. \A d \in ds : levelOf(domains[d])' = 0
      <4>1. levelOf("IDENTIFYING") = 0
        BY DEF levelOf, Finished
      <4> QED
        BY <3>2, <4>1
    <3> QED
      BY <3>2, <3>3 DEF levels
  <2> QED
    BY <2>1, <2>2, <2>3 DEF Abstract!Begin, Abstract!Unidentified, levels
<1>2. ASSUME DisposeUpdateOperation
      PROVE  Abstract!Dispose
  <2>1. stageOf = "closed" /\ stageOf' = "idle" /\ UNCHANGED reboot
    BY <1>2 DEF DisposeUpdateOperation, stageOf
  <2>2. commandingOf = 0 /\ commandingOf' = 0
    BY <1>2 DEF DisposeUpdateOperation, commandingOf, issuing
  <2>3. levels' = [d \in {} |-> 0]
    <3>1. domains' = NoDomains
      BY <1>2 DEF DisposeUpdateOperation
    <3> QED
      BY <3>1 DEF levels, NoDomains
  <2> QED
    BY <2>1, <2>2, <2>3 DEF Abstract!Dispose, Abstract!Unidentified, levels
<1>3. CASE ApplyWork
  BY <1>3, ApplyWorkStep, ApplyImplements DEF Abstract!LifecycleNext
<1>4. CASE \/ HolderWork
           \/ (\E h \in handlers : HandleCommandSignal(h)) \/ OwnerConsented \/ OwnerConsentFailed
  <2>1. UNCHANGED <<activity, pc, domains, reboot>>
    BY <1>4, HolderWorkStep, CommandSignalStep DEF LifecycleInv
  <2>2. Abstract!Issue(1) \/ Abstract!Issue(2) \/ Abstract!Issued
    BY <2>1, CommandingStep DEF BarrierInv, LifecycleInv
  <2> QED
    BY <2>2 DEF Abstract!LifecycleNext, Abstract!Phase, Abstract!Identified, Abstract!Downloaded
<1>5. ASSUME NEW d \in Domains, NEW s \in FeedbackStatus, NEW hasActions \in BOOLEAN,
             HandleDesiredStateFeedbackEvent(d, s, hasActions)
      PROVE  Abstract!Move \/ UNCHANGED Abstract!avars
  BY <1>5, FeedbackStep, FeedbackImplements
<1>6. CASE QuietEffects
  <2>1. UNCHANGED <<stageOf, levels, commandingOf, reboot>>
    BY <1>6, SameLevels, SameCommanding DEF QuietEffects, stageOf
  <2> QED
    BY <2>1 DEF Abstract!avars, levels
<1> QED
  BY <1>1, <1>2, <1>3, <1>4, <1>5, <1>6, StepKinds DEF Abstract!LifecycleNext

LEMMA InitImplements == Init => Abstract!LifecycleInit
<1> SUFFICES ASSUME Init
             PROVE  Abstract!LifecycleInit
  OBVIOUS
<1>1. stageOf = "idle" /\ commandingOf = 0 /\ reboot = FALSE
  BY DEF Init, stageOf, commandingOf, issuing
<1>2. levels = [d \in {} |-> 0]
  <2>1. domains = NoDomains
    BY DEF Init
  <2> QED
    BY <2>1 DEF levels, NoDomains
<1> QED
  BY <1>1, <1>2 DEF Abstract!LifecycleInit, Abstract!Unidentified, levels

\* Whatever agents and owner do, the channels, goroutines and locks of the orchestrator
\* amount to the barriers of ActivityLifecycle, for all domains and configurations, over any
\* number of activities and with every fault, if none interferes with the next.
THEOREM ImplementsLifecycleHolds == Spec /\ []Undisturbed => ImplementsLifecycle
<1>1. /\ TypeOK /\ TypeOK' /\ BarrierInv /\ BarrierInv' /\ LifecycleInv /\ LifecycleInv' /\ OwnInv'
      /\ [Next]_vars
      => [Abstract!LifecycleNext]_(Abstract!avars)
  BY StepImplements
<1> QED
  BY <1>1, InitImplements, TypeCorrect, BarrierInvariant, LifecycleInvariant, OwnInvariant, PTL
     DEF Spec, ImplementsLifecycle, Abstract!Lifecycle

\* In the first activity it needs no hypothesis either.
THEOREM FirstOperationImplements == Spec /\ [](activity <= 1) => ImplementsLifecycle
  BY FirstOperationUndisturbed, ImplementsLifecycleHolds, PTL

=============================================================================
