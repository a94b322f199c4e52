--------------------------- MODULE UpdateAgentProofs ---------------------------
(***************************************************************************)
(* Proofs about UpdateAgent, for every set of desired states: clientLock   *)
(* is held exactly by the activity under way, and the timer of the         *)
(* notifier belongs to it.                                                 *)
(***************************************************************************)
EXTENDS UpdateAgent, TLAPS

\* the states of a request in which its goroutine holds clientLock
Holding == {"identifying", "running", "ended", "disposing", "collecting"}

\* clientLock and inProgress go with the state of the requests
LockInv ==
    /\ \A a \in Activities : request[a] \in Holding <=> clientLock = a
    /\ activityInProgress = clientLock
    /\ agent = "stopped" => clientLock = None

\* a timer of the notifier runs for the activity under way, which has made
\* progress that is its own; what it does not hold back was published
NotifierInv ==
    ~terminated /\ internalTimer # "nil" =>
        /\ request[activityID] \in {"running", "ended"}
        /\ progress > 0
        /\ actions.of = activityID
        /\ request[activityID] = "running" =>
              /\ actions = [of |-> activityID, version |-> progress]
              /\ published.activity = activityID
              /\ published.actions = reportedActions

\* the progress of an activity begins from nothing
ProgressInv == \A a \in Activities : request[a] = "identifying" => progress = 0

-----------------------------------------------------------------------------
(* Types *)

ReportedStatus == FinalFeedback \cup {None, "IDENTIFYING", "IDENTIFIED", "RUNNING"}

LEMMA ActionsTyped ==
    ASSUME NEW a \in Activities, NEW n \in 1..MaxProgress
    PROVE  [of |-> a, version |-> n] \in Actions
  BY DEF Actions

LEMMA FeedbackTyped ==
    ASSUME NEW a \in Activities \cup {None}, NEW s \in ReportedStatus, NEW acts \in Actions \cup {NoActions}
    PROVE  [activity |-> a, status |-> s, actions |-> acts] \in Feedback
<1> HIDE DEF Actions, NoActions
<1> QED
  BY DEF Feedback, ReportedStatus

LEMMA PublishTyped ==
    ASSUME NEW a \in Activities \cup {None}, NEW s \in ReportedStatus, NEW acts \in Actions \cup {NoActions},
           Publish(a, s, acts)
    PROVE  published' \in Feedback
  BY FeedbackTyped DEF Publish

LEMMA ReportTyped ==
    ASSUME TypeOKAgent, NEW a \in Activities, ReportRunning(a)
    PROVE  TypeOKAgent'
<1>1. progress' \in 1..MaxProgress /\ progress' \in 0..MaxProgress
  BY AgentAssumption DEF ReportRunning
<1>2. [of |-> a, version |-> progress'] \in Actions
  BY <1>1, ActionsTyped
<1>3. CASE set(a, [of |-> a, version |-> progress'])
  <2>1. actions' \in Actions \cup {NoActions} /\ UNCHANGED <<stray, expired>>
    BY <1>2, <1>3 DEF set
  <2>2. CASE internalTimer # "nil"
    BY <1>1, <1>3, <2>1, <2>2 DEF ReportRunning, set, TypeOKAgent
  <2>3. CASE internalTimer = "nil"
    <3>1. /\ activityID' = a /\ internalTimer' = "ticking"
          /\ reportedActions' = [of |-> a, version |-> progress']
          /\ Publish(a, "RUNNING", [of |-> a, version |-> progress'])
      BY <1>3, <2>3 DEF set
    <3>2. published' \in Feedback
      BY <1>2, <3>1, PublishTyped DEF ReportedStatus
    <3> QED
      BY <1>1, <1>2, <2>1, <3>1, <3>2, AgentAssumption DEF ReportRunning, TypeOKAgent
  <2> QED
    BY <2>2, <2>3
<1>4. CASE UNCHANGED <<notifierVars, published>>
  BY <1>1, <1>4 DEF ReportRunning, notifierVars, TypeOKAgent
<1> QED
  BY <1>3, <1>4 DEF ReportRunning

LEMMA CheckTyped ==
    ASSUME TypeOKAgent, NEW a \in Activities, CheckIfInProgress(a)
    PROVE  TypeOKAgent'
<1>1. CASE Reject(a)
  <2>1. published' \in Feedback
    BY <1>1, PublishTyped DEF Reject, ReportedStatus, FinalFeedback
  <2> QED
    BY <1>1, <2>1 DEF CheckIfInProgress, Reject, notifierVars, TypeOKAgent
<1>2. CASE Start(a)
  <2>1. published' \in Feedback
    BY <1>2, PublishTyped DEF Start, ReportedStatus, FinalFeedback
  <2>2. progress' \in 0..MaxProgress
    BY <1>2, AgentAssumption DEF Start
  <2> QED
    BY <1>2, <2>1, <2>2 DEF CheckIfInProgress, Start, notifierVars, TypeOKAgent
<1> QED
  BY <1>1, <1>2 DEF CheckIfInProgress

LEMMA FinalTyped ==
    ASSUME TypeOKAgent, NEW a \in Activities, NEW status \in FinalFeedback, PublishFinal(a, status)
    PROVE  TypeOKAgent'
<1> DEFINE acts == IF progress = 0 THEN NoActions ELSE [of |-> a, version |-> progress]
<1>1. acts \in Actions \cup {NoActions}
  <2>1. progress # 0 => progress \in 1..MaxProgress
    BY AgentAssumption DEF TypeOKAgent
  <2> QED
    BY <2>1, ActionsTyped
<1>2. Publish(a, status, acts)
  BY DEF PublishFinal
<1> HIDE DEF acts
<1>3. published' \in Feedback
  BY <1>1, <1>2, PublishTyped DEF ReportedStatus
<1> QED
  BY <1>3 DEF PublishFinal, notifierVars, TypeOKAgent

LEMMA NotifyTyped ==
    ASSUME TypeOKAgent, notifyEvent
    PROVE  TypeOKAgent'
<1>1. stray' \in Nat /\ expired' \in Nat /\ internalTimer' = "nil"
  BY DEF notifyEvent, TypeOKAgent
<1>2. reportedActions' \in Actions \cup {NoActions}
  BY DEF notifyEvent, TypeOKAgent
<1>3. published' \in Feedback
  <2>1. CASE Publish(activityID, "RUNNING", actions)
    BY <2>1, PublishTyped DEF TypeOKAgent, ReportedStatus
  <2>2. CASE UNCHANGED published
    BY <2>2 DEF TypeOKAgent
  <2> QED
    BY <2>1, <2>2 DEF notifyEvent
<1> QED
  BY <1>1, <1>2, <1>3 DEF notifyEvent, managerVars, TypeOKAgent

LEMMA FiredTyped ==
    ASSUME TypeOKAgent, TimerFires
    PROVE  TypeOKAgent'
<1>1. stray' \in Nat /\ expired' \in Nat
  BY DEF TimerFires, TypeOKAgent
<1>2. internalTimer' = internalTimer \/ (internalTimer = "ticking" /\ internalTimer' = "fired")
  BY DEF TimerFires
<1> QED
  BY <1>1, <1>2 DEF TimerFires, managerVars, TypeOKAgent

LEMMA InitTyped == InitAgent => TypeOKAgent
<1> SUFFICES ASSUME InitAgent PROVE TypeOKAgent
  OBVIOUS
<1>1. published \in Feedback
  <2>1. published = [activity |-> None, status |-> None, actions |-> NoActions]
    BY DEF InitAgent
  <2> QED
    BY <2>1, FeedbackTyped DEF ReportedStatus
<1>2. progress \in 0..MaxProgress
  BY AgentAssumption DEF InitAgent
<1> QED
  BY <1>1, <1>2 DEF InitAgent, TypeOKAgent

LEMMA StepTyped ==
    ASSUME TypeOKAgent, [NextAgent]_agentVars
    PROVE  TypeOKAgent'
<1>1. CASE TimerFires
  BY <1>1, FiredTyped
<1>2. CASE notifyEvent
  BY <1>2, NotifyTyped
<1>3. CASE Terminate
  BY <1>3 DEF Terminate, managerVars, notifierVars, TypeOKAgent
<1>4. CASE Stop
  BY <1>4 DEF Stop, stop, managerVars, TypeOKAgent
<1>5. CASE Disconnect
  BY <1>5 DEF Disconnect, managerVars, notifierVars, TypeOKAgent
<1>6. ASSUME NEW a \in Activities, HandleDesiredState(a)
      PROVE  TypeOKAgent'
  BY <1>6 DEF HandleDesiredState, notifierVars, TypeOKAgent
<1>7. ASSUME NEW a \in Activities, CheckIfInProgress(a)
      PROVE  TypeOKAgent'
  BY <1>7, CheckTyped
<1>8. ASSUME NEW a \in Activities, NEW status \in FinalFeedback, PublishFinal(a, status)
      PROVE  TypeOKAgent'
  BY <1>8, FinalTyped
<1>9. ASSUME NEW a \in Activities, StopNotifier(a)
      PROVE  TypeOKAgent'
  BY <1>9 DEF StopNotifier, stop, TypeOKAgent
<1>10. ASSUME NEW a \in Activities, DisposeUpdateOperation(a)
       PROVE  TypeOKAgent'
  BY <1>10 DEF DisposeUpdateOperation, notifierVars, TypeOKAgent
<1>11. ASSUME NEW a \in Activities, MarkApplyCompleted(a)
       PROVE  TypeOKAgent'
  BY <1>11 DEF MarkApplyCompleted, notifierVars, TypeOKAgent
<1>12. ASSUME NEW a \in Activities, Identified(a)
       PROVE  TypeOKAgent'
  <2>1. published' \in Feedback
    BY <1>12, PublishTyped DEF Identified, ReportedStatus
  <2> QED
    BY <1>12, <2>1 DEF Identified, notifierVars, TypeOKAgent
<1>13. ASSUME NEW a \in Activities, ReportRunning(a)
       PROVE  TypeOKAgent'
  BY <1>13, ReportTyped
<1>14. CASE UNCHANGED agentVars
  BY <1>14 DEF agentVars, managerVars, notifierVars, TypeOKAgent
<1> QED
  BY <1>1, <1>2, <1>3, <1>4, <1>5, <1>6, <1>7, <1>8, <1>9, <1>10, <1>11, <1>12, <1>13, <1>14
  DEF NextAgent, ApplyStep

\* Every variable of the update agent, its notifier and the aggregated manager
\* has the values it is declared for.
THEOREM AgentTypeCorrect == SpecAgent => []TypeOKAgent
  BY InitTyped, StepTyped, PTL DEF SpecAgent

-----------------------------------------------------------------------------
(* clientLock *)

\* a request that neither gets nor gives clientLock
LEMMA LockKept ==
    ASSUME TypeOKAgent, LockInv, UNCHANGED <<clientLock, activityInProgress, agent>>,
           NEW a \in Activities, NEW r, request' = [request EXCEPT ![a] = r],
           request[a] \in Holding <=> r \in Holding
    PROVE  LockInv'
<1>1. \A b \in Activities : request'[b] \in Holding <=> request[b] \in Holding
  BY DEF TypeOKAgent
<1> QED
  BY <1>1 DEF LockInv

LEMMA UnchangedLock ==
    ASSUME LockInv, UNCHANGED <<request, clientLock, activityInProgress, agent>>
    PROVE  LockInv'
  BY DEF LockInv

LEMMA LockStep ==
    ASSUME TypeOKAgent, LockInv, [NextAgent]_agentVars
    PROVE  LockInv'
<1>0. None \notin Activities
  BY AgentAssumption
<1>1. CASE TimerFires
  BY <1>1, UnchangedLock DEF TimerFires, managerVars
<1>2. CASE notifyEvent
  BY <1>2, UnchangedLock DEF notifyEvent, managerVars
<1>3. CASE Terminate
  BY <1>3, UnchangedLock DEF Terminate, managerVars
<1>4. CASE Stop \/ Disconnect
  BY <1>4 DEF Stop, Disconnect, managerVars, LockInv
<1>5. ASSUME NEW a \in Activities, HandleDesiredState(a)
      PROVE  LockInv'
  BY <1>5, LockKept DEF HandleDesiredState, Holding
<1>6. ASSUME NEW a \in Activities, CheckIfInProgress(a), agent # "stopped"
      PROVE  LockInv'
  <2>1. \A b \in Activities : request[b] \notin Holding
    BY <1>0, <1>6 DEF CheckIfInProgress, LockInv
  <2>2. Start(a)
    BY <1>6 DEF CheckIfInProgress, LockInv
  <2>3. \A b \in Activities : request'[b] \in Holding <=> b = a
    BY <2>1, <2>2 DEF Start, Holding, TypeOKAgent
  <2> QED
    BY <1>6, <2>2, <2>3 DEF Start, CheckIfInProgress, LockInv
<1>7. ASSUME NEW a \in Activities, NEW status \in FinalFeedback, PublishFinal(a, status)
      PROVE  LockInv'
  BY <1>7, LockKept DEF PublishFinal, Holding
<1>8. ASSUME NEW a \in Activities, StopNotifier(a)
      PROVE  LockInv'
  BY <1>8, LockKept DEF StopNotifier, Holding
<1>9. ASSUME NEW a \in Activities, DisposeUpdateOperation(a)
      PROVE  LockInv'
  BY <1>9, LockKept DEF DisposeUpdateOperation, Holding
<1>10. ASSUME NEW a \in Activities, MarkApplyCompleted(a)
       PROVE  LockInv'
  <2>1. \A b \in Activities : request'[b] \notin Holding
    BY <1>10 DEF MarkApplyCompleted, LockInv, Holding, TypeOKAgent
  <2> QED
    BY <1>0, <1>10, <2>1 DEF MarkApplyCompleted, LockInv
<1>11. ASSUME NEW a \in Activities, Identified(a)
       PROVE  LockInv'
  BY <1>11, LockKept DEF Identified, Holding
<1>12. ASSUME NEW a \in Activities, ReportRunning(a)
       PROVE  LockInv'
  BY <1>12, UnchangedLock DEF ReportRunning
<1>13. CASE UNCHANGED agentVars
  BY <1>13, UnchangedLock DEF agentVars, managerVars
<1> QED
  BY <1>1, <1>2, <1>3, <1>4, <1>5, <1>6, <1>7, <1>8, <1>9, <1>10, <1>11, <1>12, <1>13
  DEF NextAgent, ApplyStep

\* clientLock is held by the one activity between Start and MarkApplyCompleted, which is
\* the activity in progress, or by Stop.
THEOREM LockInvariant == SpecAgent => []LockInv
<1>1. InitAgent => LockInv
  BY AgentAssumption DEF InitAgent, LockInv, Holding
<1> QED
  BY <1>1, LockStep, AgentTypeCorrect, PTL DEF SpecAgent

\* When the client is disconnected no activity is under way: Stop, which waits for
\* clientLock, lets an activity end and publish its final feedback.
THEOREM EndsBeforeDisconnectHolds == SpecAgent => []EndsBeforeDisconnect
<1>1. TypeOKAgent /\ LockInv => EndsBeforeDisconnect
  BY AgentAssumption DEF TypeOKAgent, LockInv, Holding, EndsBeforeDisconnect
<1> QED
  BY <1>1, LockInvariant, AgentTypeCorrect, PTL

-----------------------------------------------------------------------------
(* The notifier *)

\* the timer belongs to whoever is under way, and there is none if nobody is
LEMMA UnderWay ==
    ASSUME TypeOKAgent, LockInv, NotifierInv, ~terminated, internalTimer # "nil"
    PROVE  /\ activityID \in Activities /\ clientLock = activityID /\ clientLock # None
           /\ \A a \in Activities : request[a] \in Holding => activityID = a
<1>1. activityID \in Activities /\ request[activityID] \in Holding
  BY DEF TypeOKAgent, NotifierInv, Holding
<1>2. clientLock = activityID
  BY <1>1 DEF LockInv
<1>3. \A a \in Activities : request[a] \in Holding => clientLock = a
  BY DEF LockInv
<1>4. clientLock # None
  BY <1>1, <1>2, AgentAssumption
<1>5. \A a \in Activities : request[a] \in Holding => activityID = a
  BY <1>2, <1>3
<1> QED
  BY <1>1, <1>2, <1>4, <1>5

\* a step that leaves the progress, the timer and the notifier alone
LEMMA NotifierKept ==
    ASSUME NotifierInv, ProgressInv, terminated => terminated',
           UNCHANGED <<request, progress, activityID, actions, reportedActions, internalTimer, published>>
    PROVE  NotifierInv' /\ ProgressInv'
  BY DEF NotifierInv, ProgressInv

\* a step without a timer after it
LEMMA NoTimer ==
    ASSUME internalTimer' = "nil"
    PROVE  NotifierInv'
  BY DEF NotifierInv

LEMMA ReportNotifier ==
    ASSUME TypeOKAgent, LockInv, NotifierInv, ProgressInv, Interval, ~LateReports, ~terminated,
           NEW a \in Activities, ReportRunning(a)
    PROVE  /\ NotifierInv' /\ ProgressInv' /\ request[a] = "running" /\ activityID' = a
           /\ internalTimer' # "nil"
<1>1. request[a] = "running" /\ set(a, [of |-> a, version |-> progress']) /\ progress' > 0
      /\ UNCHANGED <<request, clientLock, terminated>>
  BY DEF ReportRunning, late
<1>2. \A b \in Activities : request[b] \in Holding => b = a
  BY <1>1 DEF LockInv, Holding
<1>3. ProgressInv'
  BY <1>1, <1>2 DEF ProgressInv, Holding
<1>4. actions' = [of |-> a, version |-> progress'] /\ actions'.of = a
  BY <1>1 DEF set
<1>5. CASE internalTimer = "nil"
  <2>1. /\ activityID' = a /\ internalTimer' = "ticking" /\ reportedActions' = actions'
        /\ Publish(a, "RUNNING", actions')
    BY <1>1, <1>4, <1>5 DEF set
  <2>2. published'.activity = a /\ published'.actions = actions'
    BY <2>1 DEF Publish
  <2> QED
    BY <1>1, <1>3, <1>4, <2>1, <2>2 DEF NotifierInv
<1>6. CASE internalTimer # "nil"
  <2>1. activityID = a /\ UNCHANGED <<activityID, reportedActions, internalTimer, published>>
    BY <1>1, <1>6, UnderWay DEF set, Holding
  <2> QED
    BY <1>1, <1>3, <1>4, <1>6, <2>1 DEF NotifierInv
<1> QED
  BY <1>5, <1>6

LEMMA NotifierStep ==
    ASSUME TypeOKAgent, LockInv, NotifierInv, ProgressInv, Interval, ~LateReports, [NextAgent]_agentVars
    PROVE  NotifierInv' /\ ProgressInv'
<1>1. CASE TimerFires
  BY <1>1 DEF TimerFires, managerVars, NotifierInv, ProgressInv
<1>2. CASE notifyEvent
  BY <1>2, NoTimer DEF notifyEvent, managerVars, ProgressInv
<1>3. CASE Terminate \/ Disconnect
  BY <1>3, NotifierKept DEF Terminate, Disconnect, managerVars, notifierVars
<1>4. CASE Stop
  BY <1>4, NoTimer DEF Stop, stop, managerVars, ProgressInv
<1>5. ASSUME NEW a \in Activities, HandleDesiredState(a)
      PROVE  NotifierInv' /\ ProgressInv'
  <2>1. \A b \in Activities : b # a => request'[b] = request[b]
    BY <1>5 DEF HandleDesiredState, TypeOKAgent
  <2>2. request'[a] = "received" /\ request[a] = "none"
    BY <1>5 DEF HandleDesiredState, TypeOKAgent
  <2>3. ~terminated /\ internalTimer # "nil" => activityID \in Activities /\ activityID # a
    BY <2>2, UnderWay DEF NotifierInv
  <2> QED
    BY <1>5, <2>1, <2>2, <2>3 DEF HandleDesiredState, notifierVars, NotifierInv, ProgressInv
<1>6. ASSUME NEW a \in Activities, CheckIfInProgress(a)
      PROVE  NotifierInv' /\ ProgressInv'
  <2>1. clientLock = None /\ Start(a) /\ UNCHANGED <<notifierVars, terminated>>
    BY <1>6 DEF CheckIfInProgress, LockInv
  <2>2. terminated \/ internalTimer = "nil"
    BY <2>1, UnderWay
  <2> QED
    BY <2>1, <2>2 DEF Start, notifierVars, NotifierInv, ProgressInv
<1>7. ASSUME NEW a \in Activities, NEW status \in FinalFeedback, PublishFinal(a, status)
      PROVE  NotifierInv' /\ ProgressInv'
  <2>1. /\ \A b \in Activities : b # a => request'[b] = request[b]
        /\ request'[a] = IF status = "IDENTIFICATION_FAILED" THEN "disposing" ELSE "ended"
        /\ request[a] \in {"identifying", "running"} /\ UNCHANGED <<progress, notifierVars, terminated>>
    BY <1>7 DEF PublishFinal, TypeOKAgent
  <2>2. ~terminated /\ internalTimer # "nil" =>
           activityID = a /\ request'[a] = "ended" /\ progress > 0 /\ actions.of = a
    BY <1>7, <2>1, UnderWay DEF PublishFinal, NotifierInv, Holding
  <2> QED
    BY <2>1, <2>2 DEF notifierVars, NotifierInv, ProgressInv
<1>8. ASSUME NEW a \in Activities, StopNotifier(a)
      PROVE  NotifierInv' /\ ProgressInv'
  BY <1>8, NoTimer DEF StopNotifier, stop, ProgressInv, TypeOKAgent
<1>9. ASSUME NEW a \in Activities, DisposeUpdateOperation(a) \/ MarkApplyCompleted(a)
      PROVE  NotifierInv' /\ ProgressInv'
  <2>1. /\ \A b \in Activities : b # a => request'[b] = request[b]
        /\ request'[a] \in {"collecting", "done"} /\ request[a] \in {"disposing", "collecting"}
        /\ UNCHANGED <<progress, notifierVars, terminated, published>>
    BY <1>9 DEF DisposeUpdateOperation, MarkApplyCompleted, TypeOKAgent
  <2>2. ~terminated /\ internalTimer # "nil" => activityID \in Activities /\ activityID # a
    BY <2>1, UnderWay DEF NotifierInv
  <2> QED
    BY <2>1, <2>2 DEF notifierVars, NotifierInv, ProgressInv
<1>10. ASSUME NEW a \in Activities, Identified(a)
       PROVE  NotifierInv' /\ ProgressInv'
  <2>1. /\ \A b \in Activities : b # a => request'[b] = request[b]
        /\ request'[a] = "running" /\ request[a] = "identifying"
        /\ UNCHANGED <<progress, notifierVars, terminated>>
    BY <1>10 DEF Identified, TypeOKAgent
  <2>2. terminated \/ internalTimer = "nil"
    BY <2>1, UnderWay DEF NotifierInv, Holding
  <2> QED
    BY <2>1, <2>2 DEF notifierVars, NotifierInv, ProgressInv
<1>11. ASSUME NEW a \in Activities, ReportRunning(a)
       PROVE  NotifierInv' /\ ProgressInv'
  <2>1. CASE ~terminated
    BY <1>11, <2>1, ReportNotifier
  <2>2. CASE terminated
    <3>1. terminated' /\ request' = request
      BY <1>11, <2>2 DEF ReportRunning
    <3>2. request[a] \in {"running", "ended", "disposing"}
      BY <1>11 DEF ReportRunning, late
    <3>3. \A b \in Activities : request[b] # "identifying"
      <4>1. clientLock = a /\ \A b \in Activities : request[b] \in Holding => clientLock = b
        BY <3>2 DEF LockInv, Holding
      <4> QED
        BY <3>2, <4>1 DEF Holding
    <3> QED
      BY <3>1, <3>2, <3>3 DEF NotifierInv, ProgressInv
  <2> QED
    BY <2>1, <2>2
<1>12. CASE UNCHANGED agentVars
  BY <1>12, NotifierKept DEF agentVars, managerVars, notifierVars
<1> QED
  BY <1>1, <1>2, <1>3, <1>4, <1>5, <1>6, <1>7, <1>8, <1>9, <1>10, <1>11, <1>12
  DEF NextAgent, ApplyStep

\* A timer that runs, and whatever is held back for it, belongs to the activity in progress.
THEOREM NotifierInvariant ==
    ASSUME Interval, ~LateReports
    PROVE  SpecAgent => [](NotifierInv /\ ProgressInv)
<1>1. InitAgent => NotifierInv /\ ProgressInv
  BY DEF InitAgent, NotifierInv, ProgressInv
<1>2. TypeOKAgent /\ LockInv /\ NotifierInv /\ ProgressInv /\ [NextAgent]_agentVars
      => NotifierInv' /\ ProgressInv'
  BY NotifierStep
<1> QED
  BY <1>1, <1>2, LockInvariant, AgentTypeCorrect, PTL DEF SpecAgent

-----------------------------------------------------------------------------
(* What is published *)

\* what a step publishes: nothing; the progress of the activity under way, or
\* another status for one that begins, is identified or ends
LEMMA Publications ==
    ASSUME TypeOKAgent, LockInv, NotifierInv, ProgressInv, Interval, ~LateReports, ~terminated',
           [NextAgent]_agentVars
    PROVE  \/ published' = published
           \/ /\ published'.status = "RUNNING" /\ published'.actions.of = published'.activity
              /\ request[published'.activity] \in {"running", "ended"}
           \/ /\ published'.status # "RUNNING"
              /\ \/ published'.activity = None
                 \/ request[published'.activity] \in {"received", "identifying", "running"}
<1>1. CASE TimerFires \/ Terminate \/ Stop \/ Disconnect
  BY <1>1 DEF TimerFires, Terminate, Stop, Disconnect
<1>2. CASE notifyEvent
  <2>1. CASE internalTimer # "nil" /\ Publish(activityID, "RUNNING", actions)
    <3>1. published'.status = "RUNNING" /\ published'.activity = activityID /\ published'.actions = actions
      BY <2>1 DEF Publish
    <3>2. ~terminated
      BY <1>2 DEF notifyEvent
    <3> QED
      BY <2>1, <3>1, <3>2 DEF NotifierInv
  <2> QED
    BY <1>2, <2>1 DEF notifyEvent
<1>3. ASSUME NEW a \in Activities,
             \/ HandleDesiredState(a) \/ StopNotifier(a) \/ DisposeUpdateOperation(a) \/ MarkApplyCompleted(a)
      PROVE  published' = published
  BY <1>3 DEF HandleDesiredState, StopNotifier, DisposeUpdateOperation, MarkApplyCompleted
<1>4. ASSUME NEW a \in Activities, CheckIfInProgress(a)
      PROVE  /\ published'.status # "RUNNING"
             /\ published'.activity = None \/ request[published'.activity] = "received"
  BY <1>4 DEF CheckIfInProgress, Reject, Start, Publish
<1>5. ASSUME NEW a \in Activities, NEW status \in FinalFeedback, PublishFinal(a, status)
      PROVE  published'.status # "RUNNING" /\ request[published'.activity] \in {"identifying", "running"}
  BY <1>5 DEF PublishFinal, Publish, FinalFeedback
<1>6. ASSUME NEW a \in Activities, Identified(a)
      PROVE  published'.status # "RUNNING" /\ request[published'.activity] = "identifying"
  BY <1>6 DEF Identified, Publish
<1>7. ASSUME NEW a \in Activities, ReportRunning(a)
      PROVE  \/ published' = published
             \/ /\ published'.status = "RUNNING" /\ published'.actions.of = published'.activity
                /\ request[published'.activity] = "running"
  <2>1. ~terminated
    BY <1>7 DEF ReportRunning
  <2>2. request[a] = "running" /\ set(a, [of |-> a, version |-> progress'])
    BY <1>7, <2>1 DEF ReportRunning, late
  <2> QED
    BY <2>2 DEF set, Publish
<1>8. CASE UNCHANGED agentVars
  BY <1>8 DEF agentVars
<1> QED
  BY <1>1, <1>2, <1>3, <1>4, <1>5, <1>6, <1>7, <1>8 DEF NextAgent, ApplyStep

\* Progress is reported under the activity that makes it, whatever timers of
\* earlier activities still fire: the timer belongs to whoever holds clientLock.
THEOREM OwnProgressHolds ==
    ASSUME Interval, ~LateReports
    PROVE  SpecAgent => []OwnProgress
<1>1. InitAgent => OwnProgress
  BY DEF InitAgent, OwnProgress, NoActions
<1>2. TypeOKAgent /\ LockInv /\ NotifierInv /\ ProgressInv /\ OwnProgress
      /\ [NextAgent]_agentVars => OwnProgress'
  <2> SUFFICES ASSUME TypeOKAgent, LockInv, NotifierInv, ProgressInv, OwnProgress,
                      [NextAgent]_agentVars, ~terminated', published'.status = "RUNNING"
               PROVE  published'.actions.of = published'.activity
    BY DEF OwnProgress
  <2>1. ~terminated
    BY DEF NextAgent, ApplyStep, agentVars, TimerFires, notifyEvent, Terminate, Stop, Disconnect,
           HandleDesiredState, CheckIfInProgress, PublishFinal, StopNotifier, DisposeUpdateOperation,
           MarkApplyCompleted, Identified, ReportRunning
  <2> QED
    BY <2>1, Publications DEF OwnProgress
<1>3. SpecAgent => [](NotifierInv /\ ProgressInv)
  BY NotifierInvariant
<1> QED
  BY <1>1, <1>2, <1>3, LockInvariant, AgentTypeCorrect, PTL DEF SpecAgent

\* Once an activity has ended and its notifier was stopped, nothing is published
\* for it any more: no timer that fires late makes it RUNNING again.
THEOREM QuietAfterEndHolds ==
    ASSUME Interval, ~LateReports
    PROVE  SpecAgent => QuietAfterEnd
<1>1. TypeOKAgent /\ LockInv /\ NotifierInv /\ ProgressInv /\ [NextAgent]_agentVars
      => \A a \in Activities :
           request[a] \in {"disposing", "collecting", "done"} /\ ~terminated /\ published'.activity = a
              => published' = published
  <2> SUFFICES ASSUME TypeOKAgent, LockInv, NotifierInv, ProgressInv,
                      [NextAgent]_agentVars, NEW a \in Activities, published'.activity = a,
                      request[a] \in {"disposing", "collecting", "done"}, ~terminated
               PROVE  published' = published
    OBVIOUS
  <2>1. CASE terminated'
    BY <2>1 DEF NextAgent, ApplyStep, agentVars, TimerFires, notifyEvent, Terminate, Stop, Disconnect,
           HandleDesiredState, CheckIfInProgress, PublishFinal, StopNotifier, DisposeUpdateOperation,
           MarkApplyCompleted, Identified, ReportRunning
  <2>2. CASE ~terminated'
    BY <2>2, Publications, AgentAssumption
  <2> QED
    BY <2>1, <2>2
<1>2. SpecAgent => [](NotifierInv /\ ProgressInv)
  BY NotifierInvariant
<1> QED
  BY <1>1, <1>2, LockInvariant, AgentTypeCorrect, PTL DEF SpecAgent, QuietAfterEnd

-----------------------------------------------------------------------------
(* Progress that is held back *)

LEMMA HeldBackStep ==
    ASSUME TypeOKAgent, LockInv, NotifierInv, ProgressInv, NotifierInv', HeldBackHasTimer,
           Interval, ~LateReports, [NextAgent]_agentVars
    PROVE  HeldBackHasTimer'
<1> SUFFICES ASSUME NEW a \in Activities, request'[a] = "running", progress' > 0, ~terminated',
                    internalTimer' = "nil"
             PROVE  published'.activity = a /\ published'.actions.version = progress'
  BY DEF HeldBackHasTimer
<1>1. CASE notifyEvent
  <2>1. request' = request /\ progress' = progress /\ ~terminated
    BY <1>1 DEF notifyEvent, managerVars
  <2>2. CASE internalTimer = "nil"
    BY <1>1, <2>1, <2>2 DEF notifyEvent, HeldBackHasTimer
  <2>3. CASE internalTimer # "nil"
    <3>1. /\ activityID = a /\ actions.version = progress
          /\ published.activity = a /\ published.actions = reportedActions
      BY <2>1, <2>3, UnderWay DEF NotifierInv, Holding
    <3>2. CASE actions = reportedActions /\ UNCHANGED published
      BY <2>1, <3>1, <3>2
    <3>3. CASE Publish(activityID, "RUNNING", actions)
      BY <2>1, <3>1, <3>3 DEF Publish
    <3> QED
      BY <1>1, <2>3, <3>2, <3>3 DEF notifyEvent
  <2> QED
    BY <2>2, <2>3
<1>2. CASE TimerFires
  BY <1>2 DEF TimerFires, managerVars, HeldBackHasTimer
<1>3. CASE Terminate \/ Stop \/ Disconnect
  BY <1>3 DEF Terminate, Stop, Disconnect, managerVars, notifierVars, HeldBackHasTimer
<1>4. ASSUME NEW b \in Activities, HandleDesiredState(b)
      PROVE  published'.activity = a /\ published'.actions.version = progress'
  BY <1>4 DEF HandleDesiredState, TypeOKAgent, notifierVars, HeldBackHasTimer
<1>5. ASSUME NEW b \in Activities, CheckIfInProgress(b)
      PROVE  FALSE
  BY <1>5 DEF CheckIfInProgress, Start, LockInv, TypeOKAgent
<1>6. ASSUME NEW b \in Activities, request[b] \in Holding, request'[b] # "running",
             UNCHANGED <<clientLock, activityInProgress, agent>>, LockInv',
             \A c \in Activities : c # b => request'[c] = request[c]
      PROVE  FALSE
  BY <1>6 DEF LockInv, Holding
<1>7. LockInv'
  BY LockStep
<1>8. ASSUME NEW b \in Activities, NEW status \in FinalFeedback, PublishFinal(b, status)
      PROVE  FALSE
  BY <1>6, <1>7, <1>8 DEF PublishFinal, TypeOKAgent, Holding
<1>9. ASSUME NEW b \in Activities,
             StopNotifier(b) \/ DisposeUpdateOperation(b)
      PROVE  FALSE
  BY <1>6, <1>7, <1>9 DEF StopNotifier, DisposeUpdateOperation, TypeOKAgent, Holding
<1>10. ASSUME NEW b \in Activities, MarkApplyCompleted(b)
       PROVE  FALSE
  <2>1. clientLock' = None
    BY <1>10 DEF MarkApplyCompleted
  <2>2. clientLock' = a
    BY <1>7 DEF LockInv, Holding
  <2> QED
    BY <2>1, <2>2, AgentAssumption
<1>11. ASSUME NEW b \in Activities, Identified(b)
       PROVE  FALSE
  <2>1. progress' = 0
    BY <1>11 DEF Identified, ProgressInv
  <2> QED
    BY <2>1
<1>12. ASSUME NEW b \in Activities, ReportRunning(b)
       PROVE  FALSE
  BY <1>12, ReportNotifier DEF ReportRunning
<1>13. CASE UNCHANGED agentVars
  BY <1>13 DEF agentVars, managerVars, notifierVars, HeldBackHasTimer
<1> QED
  BY <1>1, <1>2, <1>3, <1>4, <1>5, <1>8, <1>9, <1>10, <1>11, <1>12, <1>13 DEF NextAgent, ApplyStep

\* Progress that the notifier holds back is not lost: its timer runs until the
\* last progress is reported, also when goroutines of stopped timers interfere.
THEOREM HeldBackHasTimerHolds ==
    ASSUME Interval, ~LateReports
    PROVE  SpecAgent => []HeldBackHasTimer
<1>1. InitAgent => HeldBackHasTimer
  BY DEF InitAgent, HeldBackHasTimer
<1>2. TypeOKAgent /\ LockInv /\ (NotifierInv /\ ProgressInv) /\ (NotifierInv /\ ProgressInv)'
      /\ HeldBackHasTimer /\ [NextAgent]_agentVars => HeldBackHasTimer'
  BY HeldBackStep
<1>3. SpecAgent => [](NotifierInv /\ ProgressInv)
  BY NotifierInvariant
<1> QED
  BY <1>1, <1>2, <1>3, LockInvariant, AgentTypeCorrect, PTL DEF SpecAgent

=============================================================================
