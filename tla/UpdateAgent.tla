------------------------------ MODULE UpdateAgent ------------------------------
(***************************************************************************)
(* The update manager's face to the backend: the update agent, which takes *)
(* desired states and reports feedback, throttling RUNNING by a notifier   *)
(* with a timer; the aggregated update manager, which applies one desired  *)
(* state at a time; and the termination of the process.  The orchestrator  *)
(* is reduced to the reports it makes.                                     *)
(***************************************************************************)
EXTENDS Naturals

CONSTANTS
    Activities,   \* the desired states of the backend
    MaxProgress,  \* bound: how often the actions of an activity change
    Interval,     \* desiredStateFeedbackReportInterval > 0
    LateReports,  \* a feedback handler may report between the final feedback of Apply
                  \* and disposeUpdateOperation, as it may after a phase timeout
    MayStop       \* the process may be terminated

None == ""   \* no activity, no status

ASSUME AgentAssumption ==
    /\ None \notin Activities
    /\ MaxProgress \in Nat \ {0}
    /\ Interval \in BOOLEAN /\ LateReports \in BOOLEAN /\ MayStop \in BOOLEAN

VARIABLES
    request,             \* request[a]: how far applyDesiredState has come
    clientLock,          \* the activity that holds it, or None
    activityInProgress,  \* of the aggregated update manager; inProgress is that it is not None
    progress,            \* how often the actions of the operation have changed
    activityID,          \* of the notifier, with
    actions,             \*   what it is to report
    reportedActions,     \*   what it has reported
    internalTimer,       \*   its timer: "nil", "ticking", or "fired"
    stray,               \* how many timers tick that internalTimer no longer names
    expired,             \* how many goroutines of timers that fired wait for the notifier
    terminated,          \* ctx.Done() is closed
    agent,               \* "started", "stopping" (in Stop, before clientLock) or "stopped"
    published            \* history: the feedback published last

notifierVars == <<activityID, actions, reportedActions, internalTimer, stray, expired>>
managerVars == <<request, clientLock, activityInProgress, progress>>
agentVars == <<managerVars, notifierVars, terminated, agent, published>>

\* the actions of an activity after some changes
Actions == [of : Activities, version : 1..MaxProgress]
NoActions == [of |-> None, version |-> 0]

FinalFeedback == {"IDENTIFICATION_FAILED", "COMPLETED", "INCOMPLETE"}

Feedback == [activity : Activities \cup {None},
             status : FinalFeedback \cup {None, "IDENTIFYING", "IDENTIFIED", "RUNNING"},
             actions : Actions \cup {NoActions}]

TypeOKAgent ==
    /\ request \in [Activities -> {"none", "received", "identifying", "running", "ended",
                                   "disposing", "collecting", "done", "rejected"}]
    /\ clientLock \in Activities \cup {None}
    /\ activityInProgress \in Activities \cup {None}
    /\ progress \in 0..MaxProgress
    /\ activityID \in Activities \cup {None}
    /\ actions \in Actions \cup {NoActions}
    /\ reportedActions \in Actions \cup {NoActions}
    /\ internalTimer \in {"nil", "ticking", "fired"}
    /\ (internalTimer # "nil") => (activityID # None)
    /\ stray \in Nat
    /\ expired \in Nat
    /\ terminated \in BOOLEAN
    /\ agent \in {"started", "stopping", "stopped"}
    /\ published \in Feedback

InitAgent ==
    /\ request = [a \in Activities |-> "none"]
    /\ clientLock = None
    /\ activityInProgress = None
    /\ progress = 0
    /\ activityID = None
    /\ actions = NoActions
    /\ reportedActions = NoActions
    /\ internalTimer = "nil"
    /\ stray = 0
    /\ expired = 0
    /\ terminated = FALSE
    /\ agent = "started"
    /\ published = [activity |-> None, status |-> None, actions |-> NoActions]

Publish(a, status, acts) ==
    published' = [activity |-> a, status |-> status, actions |-> acts]

-----------------------------------------------------------------------------
(* The notifier of RUNNING; every operation holds its lock *)

\* (mutant) actions are not updated while the timer runs
setFirst(a, acts) ==
    IF internalTimer # "nil" THEN UNCHANGED <<notifierVars, published>>
    ELSE /\ actions' = acts
         /\ activityID' = a
         /\ reportedActions' = acts
         /\ internalTimer' = "ticking"
         /\ Publish(a, "RUNNING", acts)
         /\ UNCHANGED <<stray, expired>>

set(a, acts) ==
    /\ actions' = acts
    /\ UNCHANGED <<stray, expired>>
    /\ IF internalTimer # "nil" THEN UNCHANGED <<activityID, reportedActions, internalTimer, published>>
       ELSE /\ activityID' = a
            /\ reportedActions' = acts
            /\ internalTimer' = "ticking"
            /\ Publish(a, "RUNNING", acts)

\* (mutant) stop forgets internalTimer
stopRunning ==
    /\ activityID' = None
    /\ actions' = NoActions
    /\ reportedActions' = NoActions
    /\ UNCHANGED <<internalTimer, stray, expired>>

\* Stop of a timer that has fired does not stop the goroutine it started
stop ==
    /\ activityID' = None
    /\ actions' = NoActions
    /\ reportedActions' = NoActions
    /\ internalTimer' = "nil"
    /\ UNCHANGED <<stray, expired>>

TimerFires ==
    /\ \/ internalTimer = "ticking" /\ internalTimer' = "fired" /\ UNCHANGED stray
       \/ stray > 0 /\ stray' = stray - 1 /\ UNCHANGED internalTimer
    /\ expired' = expired + 1
    /\ UNCHANGED <<managerVars, activityID, actions, reportedActions, terminated, agent, published>>

\* The goroutine may be that of a timer stopped too late: then it takes the
\* timer of now for its own, which goes on ticking.  Equal actions may look
\* different, as toActionsList lists them in any order.
notifyEvent ==
    /\ expired > 0
    /\ expired' = expired - 1
    /\ internalTimer' = "nil"
    /\ stray' = IF internalTimer = "ticking" THEN stray + 1 ELSE stray
    /\ \/ /\ internalTimer = "nil" \/ actions = reportedActions
          /\ UNCHANGED <<reportedActions, published>>
       \/ /\ internalTimer # "nil"
          /\ reportedActions' = actions
          /\ Publish(activityID, "RUNNING", actions)
    /\ UNCHANGED <<managerVars, activityID, actions, terminated, agent>>

-----------------------------------------------------------------------------
(* applyDesiredState, and Apply of the aggregated update manager *)

HandleDesiredState(a) ==
    /\ request[a] = "none"
    /\ request' = [request EXCEPT ![a] = "received"]
    /\ UNCHANGED <<clientLock, activityInProgress, progress, notifierVars, terminated, agent, published>>

\* IDENTIFYING is the first report of the orchestrator; a desired state without a
\* supported domain ends at once, under no activity
Start(a) ==
    /\ clientLock' = a
    /\ activityInProgress' = a
    /\ progress' = 0
    /\ \/ /\ request' = [request EXCEPT ![a] = "identifying"]
          /\ Publish(a, "IDENTIFYING", NoActions)
       \/ /\ request' = [request EXCEPT ![a] = "ended"]
          /\ Publish(None, "INCOMPLETE", NoActions)

Reject(a) ==
    /\ request' = [request EXCEPT ![a] = "rejected"]
    /\ Publish(a, "IDENTIFICATION_FAILED", NoActions)
    /\ UNCHANGED <<clientLock, activityInProgress, progress>>

\* (mutant) without clientLock
CheckUnlocked(a) ==
    /\ request[a] = "received"
    /\ IF activityInProgress # None THEN Reject(a) ELSE Start(a)
    /\ UNCHANGED <<notifierVars, terminated, agent>>

\* the goroutine gets clientLock, then checkIfInProgress
CheckIfInProgress(a) ==
    /\ request[a] = "received"
    /\ clientLock = None
    /\ IF activityInProgress # None THEN Reject(a) ELSE Start(a)
    /\ UNCHANGED <<notifierVars, terminated, agent>>

\* reports of the orchestrator while it identifies the actions ...
Identified(a) ==
    /\ request[a] = "identifying"
    /\ request' = [request EXCEPT ![a] = "running"]
    /\ Publish(a, "IDENTIFIED", NoActions)
    /\ UNCHANGED <<clientLock, activityInProgress, progress, notifierVars, terminated, agent>>

\* a handler that looked at the operation before Apply ended may report after it
late(a) == (LateReports \/ terminated) /\ progress > 0 /\ request[a] \in {"ended", "disposing"}

\* ... and when an agent makes progress, on the goroutine of the router
ReportRunning(a) ==
    /\ request[a] = "running" \/ late(a)
    /\ progress' \in {progress, progress + 1} \cap (1..MaxProgress)
    /\ IF Interval THEN set(a, [of |-> a, version |-> progress'])
       ELSE UNCHANGED <<notifierVars, published>>
    /\ UNCHANGED <<request, clientLock, activityInProgress, terminated, agent>>

\* the deferred end of the orchestrator's Apply; an identification that fails,
\* or times out, comes before any progress
PublishFinal(a, status) ==
    /\ \/ request[a] = "identifying" /\ (status = "INCOMPLETE" => terminated) /\ status # "COMPLETED"
       \/ request[a] = "running" /\ (status = "IDENTIFICATION_FAILED" => progress = 0)
    /\ request' = [request EXCEPT ![a] = IF status = "IDENTIFICATION_FAILED" THEN "disposing" ELSE "ended"]
    /\ Publish(a, status, IF progress = 0 THEN NoActions ELSE [of |-> a, version |-> progress])
    /\ UNCHANGED <<clientLock, activityInProgress, progress, notifierVars, terminated, agent>>

\* (mutant) the notifier is stopped only for COMPLETED
StopCompletedOnly(a) ==
    /\ request[a] = "ended"
    /\ request' = [request EXCEPT ![a] = "disposing"]
    /\ IF published.status = "COMPLETED" THEN stop ELSE UNCHANGED notifierVars
    /\ UNCHANGED <<clientLock, activityInProgress, progress, terminated, agent, published>>

\* HandleDesiredStateFeedbackEvent stops the notifier after a final feedback
StopNotifier(a) ==
    /\ request[a] = "ended"
    /\ request' = [request EXCEPT ![a] = "disposing"]
    /\ stop
    /\ UNCHANGED <<clientLock, activityInProgress, progress, terminated, agent, published>>

\* disposeUpdateOperation, after which no handler reports
DisposeUpdateOperation(a) ==
    /\ request[a] = "disposing"
    /\ request' = [request EXCEPT ![a] = "collecting"]
    /\ UNCHANGED <<clientLock, activityInProgress, progress, notifierVars, terminated, agent, published>>

\* (mutant) an activity that ends is still marked as in progress
MarkApplyNever(a) ==
    /\ request[a] = "collecting"
    /\ request' = [request EXCEPT ![a] = "done"]
    /\ clientLock' = None
    /\ UNCHANGED <<activityInProgress, progress, notifierVars, terminated, agent, published>>

\* the current state is collected and reported (CurrentState), the device may be rebooted
MarkApplyCompleted(a) ==
    /\ request[a] = "collecting"
    /\ request' = [request EXCEPT ![a] = "done"]
    /\ clientLock' = None
    /\ activityInProgress' = None
    /\ UNCHANGED <<progress, notifierVars, terminated, agent, published>>

-----------------------------------------------------------------------------
(* Termination *)

\* the OS signals: the context is cancelled, then Stop stops the notifier ...
Terminate ==
    /\ MayStop
    /\ ~terminated
    /\ terminated' = TRUE
    /\ UNCHANGED <<managerVars, notifierVars, agent, published>>

Stop ==
    /\ terminated
    /\ agent = "started"
    /\ agent' = "stopping"
    /\ stop
    /\ UNCHANGED <<managerVars, terminated, published>>

\* (mutant) Stop does not take clientLock
DisconnectUnlocked ==
    /\ agent = "stopping"
    /\ agent' = "stopped"
    /\ UNCHANGED <<managerVars, notifierVars, terminated, published>>

\* ... and waits for clientLock before it disconnects, and the process ends
Disconnect ==
    /\ agent = "stopping"
    /\ clientLock = None
    /\ agent' = "stopped"
    /\ UNCHANGED <<managerVars, notifierVars, terminated, published>>

-----------------------------------------------------------------------------
ApplyStep(a) ==
    \/ CheckIfInProgress(a)
    \/ \E status \in FinalFeedback : PublishFinal(a, status)
    \/ StopNotifier(a)
    \/ DisposeUpdateOperation(a)
    \/ MarkApplyCompleted(a)

NextAgent ==
    /\ agent # "stopped"
    /\ \/ TimerFires
       \/ notifyEvent
       \/ Terminate
       \/ Stop
       \/ Disconnect
       \/ \E a \in Activities :
            \/ HandleDesiredState(a)
            \/ ApplyStep(a)
            \/ Identified(a)
            \/ ReportRunning(a)

SpecAgent == InitAgent /\ [][NextAgent]_agentVars

\* the goroutines run; the orchestrator ends every activity, by its timeouts if
\* not by the reports of the agents (Terminates of UpdateActivity)
FairnessAgent == \A a \in Activities : WF_agentVars(ApplyStep(a))

FairSpecAgent == SpecAgent /\ FairnessAgent

-----------------------------------------------------------------------------
(* Properties *)

\* Progress is reported under the activity that makes it, whatever timers of
\* earlier activities still fire (timer_desired_state_feedback.go:52-58, 88).
OwnProgress ==
    published.status = "RUNNING" /\ ~terminated => published.actions.of = published.activity

\* Once an activity has ended, COMPLETED or INCOMPLETE, and its notifier was
\* stopped, no timer that fires late reports it as RUNNING again.
QuietAfterEnd ==
    [][\A a \in Activities :
         request[a] \in {"disposing", "collecting", "done"} /\ ~terminated /\ published'.activity = a
            => published' = published]_agentVars

\* Progress that the notifier holds back is not lost: as long as the last one is
\* not reported, its timer runs, also when timers of earlier activities fire.
HeldBackHasTimer ==
    \A a \in Activities : request[a] = "running" /\ progress > 0 /\ ~terminated =>
        \/ internalTimer # "nil"
        \/ published.activity = a /\ published.actions.version = progress

\* Every desired state received is applied to its end, one after another, unless
\* the process is terminated: none is rejected as coming too early.
EveryRequestApplied ==
    \A a \in Activities : request[a] = "received" ~> (request[a] = "done" \/ terminated)

\* An activity under way when the process is terminated ends, and its final
\* feedback is published, before Stop disconnects the client.
EndsBeforeDisconnect ==
    agent = "stopped" =>
        \A a \in Activities : request[a] \in {"none", "received", "done", "rejected"}

=============================================================================
