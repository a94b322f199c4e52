-------------------------- MODULE UpdateOrchestrator --------------------------
(***************************************************************************)
(* The update orchestrator of the update manager                           *)
(* (updatem/orchestration): one Apply goroutine that waits for one signal  *)
(* per command, the handler goroutines it spawns to issue the commands,    *)
(* and the feedback handlers run by the MQTT router, all of them sharing   *)
(* one updateOperation.                                                    *)
(*                                                                         *)
(* The environment (domain update agents, owner) is open here: any         *)
(* feedback may arrive from any domain at any time.  UpdateActivity closes *)
(* it with agents that follow the protocol.                                *)
(***************************************************************************)
EXTENDS Naturals, Sequences

CONSTANTS
    Domains,               \* the configured domains
    RebootRequired,        \* those whose agent config says rebootRequired
    OwnerConsentCommands,  \* config ownerConsentCommands
    MaxActivities,         \* bound: how many activities are applied, in turn
    Faults                 \* what may go wrong: a subset of FaultKinds

Commands == {"DOWNLOAD", "UPDATE", "ACTIVATE", "CLEANUP"}

FaultKinds ==
    {"phaseTimeout",       \* phaseTimeout expires in waitSignal
     "consentTimeout",     \* ownerConsentTimeout expires in getOwnerConsent
     "publish",            \* an MQTT publish (or its acknowledgement) fails
     "terminate"}          \* the context of the process is cancelled

ASSUME ConstantsAssumption ==
    /\ RebootRequired \subseteq Domains
    /\ OwnerConsentCommands \subseteq {"DOWNLOAD", "UPDATE", "ACTIVATE"}
    /\ MaxActivities \in Nat
    /\ Faults \subseteq FaultKinds

\* updateOperation.status
IdentificationStatus == {"IDENTIFYING", "IDENTIFIED", "IDENTIFICATION_FAILED"}
FinalStatus == {"IDENTIFICATION_FAILED", "COMPLETED", "INCOMPLETE"}
Status == IdentificationStatus \cup FinalStatus \cup {"RUNNING"}

\* the statuses a domain agent reports, and what updateOperation.domains holds
FeedbackStatus ==
    {"IDENTIFIED", "IDENTIFICATION_FAILED", "COMPLETED", "INCOMPLETE",
     "DOWNLOADING", "DOWNLOAD_SUCCESS", "DOWNLOAD_FAILURE",
     "UPDATING", "UPDATE_SUCCESS", "UPDATE_FAILURE",
     "ACTIVATING", "ACTIVATION_SUCCESS", "ACTIVATION_FAILURE",
     "ROLLBACK", "ROLLBACK_SUCCESS", "ROLLBACK_FAILURE",
     "CLEANUP", "CLEANUP_SUCCESS", "CLEANUP_FAILURE"}
DomainStatus == FeedbackStatus \cup {"IDENTIFYING"}
Finished == {"CLEANUP_SUCCESS", "CLEANUP_FAILURE"}

\* the one-element channels of updateOperation, and what each may hold;
\* the operation left behind by a failed setup has none of them ("nil")
Channels == Commands \cup {"done", "err", "rollback", "consent"}
ChannelState == {"nil", "empty", "true", "false"}

VARIABLES
    activity,       \* how many activities have been started; the last one is current
    pc,             \* where the Apply goroutine is; "idle" exactly when operation = nil
    status,         \* operation.status
    delayedStatus,  \* operation.delayedStatus
    domains,        \* operation.domains
    actions,        \* domains with actions in operation.actions
    rebootRequired, \* operation.rebootRequired
    chan,           \* the channels of the operation
    todo,           \* what the holder of operationLock has still to do; <<>> when it is free
    handlers,       \* handleCommandSignal goroutines that wait for operationLock
    applying,       \* the domain Apply goroutines, each holding its managerLock once "failed"
    terminated,     \* ctx.Done() is closed
    reported,       \* history: the last feedback status published for the activity
    reboot          \* history: what Apply returned

opVars == <<status, delayedStatus, domains, actions, rebootRequired, chan>>
vars == <<activity, pc, opVars, todo, handlers, applying, terminated, reported, reboot>>

\* The steps of a goroutine that holds operationLock which others can observe
Notify(s)        == [op |-> "notify", status |-> s]
SetStatus(s)     == [op |-> "setStatus", status |-> s]
Send(c, v)       == [op |-> "send", channel |-> c, value |-> v]
\* spawnedIn is history: the activity whose Apply started the goroutine
Command(c, ds, a) == [op |-> "command", command |-> c, targets |-> ds, spawnedIn |-> a]
AwaitConsent(c, a) == [op |-> "consent", command |-> c, spawnedIn |-> a]
Blocked          == [op |-> "blocked"]

AllCommands == Commands \cup {"ROLLBACK"}
Effect ==
    [op : {"notify"}, status : {"IDENTIFIED", "RUNNING"}]
    \cup [op : {"setStatus"}, status : FinalStatus \cup {"RUNNING"}]
    \cup [op : {"send"}, channel : Channels, value : {"true", "false"}]
    \cup [op : {"command"}, command : AllCommands, targets : SUBSET Domains, spawnedIn : Nat]
    \cup [op : {"consent"}, command : Commands, spawnedIn : Nat]
    \cup {Blocked}

Waits == Commands \cup {"done"}
Pc == {"idle", "identify", "return", "report", "dispose"} \cup Waits

TypeOK ==
    /\ activity \in Nat
    /\ pc \in Pc
    /\ status \in Status
    /\ delayedStatus \in {"", "INCOMPLETE"}
    /\ DOMAIN domains \subseteq Domains
    /\ domains \in [DOMAIN domains -> DomainStatus]
    /\ actions \subseteq Domains
    /\ rebootRequired \in BOOLEAN
    /\ chan \in [Channels -> ChannelState]
    /\ todo \in Seq(Effect)
    /\ handlers \subseteq [command : Commands, spawnedIn : Nat]
    /\ applying \in [Domains -> {"no", "spawned", "failed"}]
    /\ terminated \in BOOLEAN
    /\ reported \in Status \cup {""}
    /\ reboot \in BOOLEAN

Some(ds, S) == \E d \in DOMAIN ds : ds[d] \in S

NoDomains == [d \in {} |-> "IDENTIFYING"]

Init ==
    /\ activity = 0
    /\ pc = "idle"
    /\ status = "IDENTIFYING"
    /\ delayedStatus = ""
    /\ domains = NoDomains
    /\ actions = {}
    /\ rebootRequired = FALSE
    /\ chan = [c \in Channels |-> "nil"]
    /\ todo = <<>>
    /\ handlers = {}
    /\ applying = [d \in Domains |-> "no"]
    /\ terminated = FALSE
    /\ reported = ""
    /\ reboot = FALSE

-----------------------------------------------------------------------------
(* The Apply goroutine *)

\* newUpdateOperation for the supported domains ds of the desired state; the
\* operation of a desired state without any is reported INCOMPLETE and disposed.
\* A publish failure left over from the last activity is dropped beforehand.
SetupUpdateOperation(ds) ==
    /\ pc = "idle"
    /\ todo = <<>>
    /\ activity < MaxActivities
    /\ \A d \in Domains : applying[d] = "no"
    /\ activity' = activity + 1
    /\ domains' = [d \in ds |-> "IDENTIFYING"]
    /\ \/ /\ ds # {}
          /\ pc' = "identify"
          /\ status' = "IDENTIFYING"
          /\ chan' = [c \in Channels |-> "empty"]
       \/ /\ ds = {}
          /\ pc' = "report"
          /\ status' = "INCOMPLETE"
          /\ chan' = [c \in Channels |-> "nil"]
    /\ delayedStatus' = ""
    /\ actions' = {}
    /\ rebootRequired' = FALSE
    /\ reported' = ""
    /\ reboot' = FALSE
    /\ UNCHANGED <<todo, handlers, applying, terminated>>

\* apply: report IDENTIFYING, then one goroutine per domain
Identify ==
    /\ pc = "identify"
    /\ reported' = "IDENTIFYING"
    /\ applying' = [d \in Domains |-> IF d \in DOMAIN domains THEN "spawned" ELSE applying[d]]
    /\ pc' = "DOWNLOAD"
    /\ UNCHANGED <<activity, opVars, todo, handlers, terminated, reboot>>

\* what waits after the signal of a command
After(w) ==
    CASE w = "DOWNLOAD" -> "UPDATE"
      [] w = "UPDATE"   -> "ACTIVATE"
      [] w = "ACTIVATE" -> "CLEANUP"
      [] w = "CLEANUP"  -> "done"
      [] OTHER          -> "return"

\* an error ends apply; only that of the first wait returns early (apply.go:38-40)
AfterError(w) == IF w = "DOWNLOAD" THEN "report" ELSE "return"

applyUnchanged == UNCHANGED <<activity, delayedStatus, domains, actions, rebootRequired,
                              todo, applying, terminated, reported, reboot>>

\* (mutant) no timeout on the wait for done
PhaseTimeoutCommandsOnly ==
    /\ "phaseTimeout" \in Faults
    /\ pc \in Commands
    /\ status' = IF pc = "DOWNLOAD" THEN "IDENTIFICATION_FAILED" ELSE "INCOMPLETE"
    /\ pc' = AfterError(pc)
    /\ UNCHANGED <<chan, handlers>>
    /\ applyUnchanged

\* case <-time.After(phaseTimeout); the wait for done leaves the status alone
PhaseTimeout ==
    /\ "phaseTimeout" \in Faults
    /\ pc \in Waits
    /\ status' = CASE pc = "DOWNLOAD" -> "IDENTIFICATION_FAILED"
                   [] pc = "done"     -> status
                   [] OTHER           -> "INCOMPLETE"
    /\ pc' = AfterError(pc)
    /\ UNCHANGED <<chan, handlers>>
    /\ applyUnchanged

\* case <-errChan
ErrorSignalled ==
    /\ pc \in Waits
    /\ chan["err"] = "true"
    /\ chan' = [chan EXCEPT !["err"] = "empty"]
    /\ pc' = AfterError(pc)
    /\ UNCHANGED <<status, handlers>>
    /\ applyUnchanged

\* case <-rollbackChan: skip to CLEANUP; a rollback taken while waiting for
\* CLEANUP counts as its signal, but spawns no handler
RollbackSignalled ==
    /\ pc \in Waits
    /\ chan["rollback"] = "true"
    /\ chan' = [chan EXCEPT !["rollback"] = "empty"]
    /\ pc' = IF pc \in {"CLEANUP", "done"} THEN After(pc) ELSE "CLEANUP"
    /\ UNCHANGED <<status, handlers>>
    /\ applyUnchanged

\* (mutant) the signal of done is handled like that of a command
SignalledSpawnsAlways ==
    /\ pc \in Waits
    /\ chan[pc] \in {"true", "false"}
    /\ chan' = [chan EXCEPT ![pc] = "empty"]
    /\ pc' = IF chan[pc] = "true" THEN After(pc) ELSE "return"
    /\ handlers' = handlers \cup {[command |-> pc, spawnedIn |-> activity]}
    /\ UNCHANGED status
    /\ applyUnchanged

\* case value := <-signal
Signalled ==
    /\ pc \in Waits
    /\ chan[pc] \in {"true", "false"}
    /\ chan' = [chan EXCEPT ![pc] = "empty"]
    /\ pc' = IF chan[pc] = "true" THEN After(pc) ELSE "return"
    /\ handlers' = IF chan[pc] = "true" /\ pc \in Commands
                   THEN handlers \cup {[command |-> pc, spawnedIn |-> activity]}
                   ELSE handlers
    /\ UNCHANGED status
    /\ applyUnchanged

\* case <-ctx.Done()
ContextDone ==
    /\ pc \in Waits
    /\ terminated
    /\ status' = "INCOMPLETE"
    /\ pc' = AfterError(pc)
    /\ UNCHANGED <<chan, handlers>>
    /\ applyUnchanged

\* apply.go:52
ReturnReboot ==
    /\ pc = "return"
    /\ reboot' = (rebootRequired /\ status = "COMPLETED")
    /\ pc' = "report"
    /\ UNCHANGED <<activity, opVars, todo, handlers, applying, terminated, reported>>

\* the deferred function of Apply: the final feedback ...
ReportFinal ==
    /\ pc = "report"
    /\ reported' = status
    /\ pc' = "dispose"
    /\ UNCHANGED <<activity, opVars, todo, handlers, applying, terminated, reboot>>

\* ... and, once operationLock is free, operation = nil
DisposeUpdateOperation ==
    /\ pc = "dispose"
    /\ todo = <<>>
    /\ \A d \in Domains : applying[d] # "spawned"
    /\ pc' = "idle"
    /\ domains' = NoDomains
    /\ actions' = {}
    /\ delayedStatus' = ""
    /\ rebootRequired' = FALSE
    /\ chan' = [c \in Channels |-> "nil"]
    /\ status' = "IDENTIFYING"
    /\ UNCHANGED <<activity, todo, handlers, applying, terminated, reported, reboot>>

-----------------------------------------------------------------------------
(* handleCommandSignal *)

Execute(c, from, a) ==
    LET targets == {d \in DOMAIN domains : domains[d] \in from}
    IN  IF targets = {} THEN <<>> ELSE <<Command(c, targets, a)>>

\* (mutant) CLEANUP after a rollback only
ExecuteCommandNoCleanup(c, a) ==
    CASE c = "DOWNLOAD" -> Execute(c, {"IDENTIFIED"}, a)
      [] c = "UPDATE"   -> Execute(c, {"DOWNLOAD_SUCCESS"}, a)
      [] c = "ACTIVATE" -> Execute(c, {"UPDATE_SUCCESS"}, a)
      [] c = "CLEANUP"  -> Execute(c, {"ROLLBACK_SUCCESS"}, a)
      [] c = "ROLLBACK" -> Execute(c, {"DOWNLOAD_SUCCESS", "UPDATE_SUCCESS"}, a)

ExecuteCommand(c, a) ==
    CASE c = "DOWNLOAD" -> Execute(c, {"IDENTIFIED"}, a)
      [] c = "UPDATE"   -> Execute(c, {"DOWNLOAD_SUCCESS"}, a)
      [] c = "ACTIVATE" -> Execute(c, {"UPDATE_SUCCESS"}, a)
      [] c = "CLEANUP"  -> Execute(c, {"ACTIVATION_SUCCESS", "ROLLBACK_SUCCESS"}, a)
      [] c = "ROLLBACK" -> Execute(c, {"DOWNLOAD_SUCCESS", "UPDATE_SUCCESS"}, a)

\* (mutants) the refused command is not replaced by ROLLBACK; the refusal is not remembered
ConsentRefusedProceeds(c, a) ==
    /\ todo' = <<Send("rollback", "true")>> \o ExecuteCommand(c, a)
    /\ delayedStatus' = "INCOMPLETE"

ConsentRefusedForgotten(c, a) ==
    /\ todo' = <<Send("rollback", "true")>> \o ExecuteCommand("ROLLBACK", a)
    /\ UNCHANGED delayedStatus

\* getOwnerConsent failed: give up before anything was downloaded, else roll back
ConsentRefused(c, a) ==
    IF c = "DOWNLOAD"
    THEN /\ todo' = <<SetStatus("INCOMPLETE"), Send("err", "true")>>
         /\ UNCHANGED delayedStatus
    ELSE /\ todo' = <<Send("rollback", "true")>> \o ExecuteCommand("ROLLBACK", a)
         /\ delayedStatus' = "INCOMPLETE"

handlerUnchanged == UNCHANGED <<activity, pc, status, domains, actions, rebootRequired,
                                applying, terminated, reported, reboot>>

\* the goroutine gets operationLock; operation may be another one than the
\* operation whose Apply spawned it
HandleCommandSignal(h) ==
    /\ h \in handlers
    /\ todo = <<>>
    /\ handlers' = handlers \ {h}
    /\ \/ /\ pc = "idle"
          /\ UNCHANGED <<todo, delayedStatus>>
       \/ /\ pc # "idle"
          /\ h.command \notin OwnerConsentCommands
          /\ todo' = ExecuteCommand(h.command, h.spawnedIn)
          /\ UNCHANGED delayedStatus
       \/ /\ pc # "idle"
          /\ h.command \in OwnerConsentCommands
          /\ \/ /\ todo' = <<AwaitConsent(h.command, h.spawnedIn)>>
                /\ UNCHANGED delayedStatus
             \/ /\ "publish" \in Faults
                /\ ConsentRefused(h.command, h.spawnedIn)
    /\ UNCHANGED chan
    /\ handlerUnchanged

awaitingConsent == todo # <<>> /\ Head(todo).op = "consent"

\* the select of getOwnerConsent, operationLock still held
OwnerConsented ==
    /\ awaitingConsent
    /\ LET c == Head(todo).command
           a == Head(todo).spawnedIn
       IN  \/ /\ chan["consent"] = "true"
              /\ chan' = [chan EXCEPT !["consent"] = "empty"]
              /\ todo' = ExecuteCommand(c, a)
              /\ UNCHANGED delayedStatus
           \/ /\ chan["consent"] = "false"
              /\ chan' = [chan EXCEPT !["consent"] = "empty"]
              /\ ConsentRefused(c, a)
    /\ UNCHANGED handlers
    /\ handlerUnchanged

OwnerConsentFailed ==
    /\ awaitingConsent
    /\ "consentTimeout" \in Faults \/ terminated
    /\ ConsentRefused(Head(todo).command, Head(todo).spawnedIn)
    /\ UNCHANGED <<chan, handlers>>
    /\ handlerUnchanged

\* HandleOwnerConsentFeedback, without operationLock; the router blocks in it
\* while the last answer has not been taken.  Only getOwnerConsent subscribes to
\* the answers.
HandleOwnerConsentFeedback(approved) ==
    /\ OwnerConsentCommands # {}
    /\ pc # "idle"
    /\ chan["consent"] = "empty"
    /\ chan' = [chan EXCEPT !["consent"] = IF approved THEN "true" ELSE "false"]
    /\ UNCHANGED <<activity, pc, status, delayedStatus, domains, actions, rebootRequired,
                   todo, handlers, applying, terminated, reported, reboot>>

-----------------------------------------------------------------------------
(* HandleDesiredStateFeedbackEvent *)

\* (mutant) identification is accepted at any time
AcceptedInIdentifiesAnytime(s) ==
    IF s \in {"DOWNLOADING", "DOWNLOAD_SUCCESS", "DOWNLOAD_FAILURE", "UPDATING", "UPDATE_SUCCESS",
             "UPDATE_FAILURE", "ACTIVATING", "ACTIVATION_SUCCESS", "ACTIVATION_FAILURE",
             "ROLLBACK", "ROLLBACK_SUCCESS", "ROLLBACK_FAILURE"}
    THEN {"RUNNING"} ELSE Status

\* the operation status a handler asks for
AcceptedIn(s) ==
    CASE s \in {"IDENTIFIED", "IDENTIFICATION_FAILED"} -> IdentificationStatus
      [] s \in {"COMPLETED", "INCOMPLETE", "CLEANUP", "CLEANUP_SUCCESS", "CLEANUP_FAILURE"} -> Status
      [] OTHER -> {"RUNNING"}

\* the domain statuses from which a report is accepted
Downloadable == {"IDENTIFIED", "DOWNLOADING"}
Updatable    == {"DOWNLOAD_SUCCESS", "UPDATING"}
Activatable  == {"UPDATE_SUCCESS", "ACTIVATING"}
Rollbackable == {"DOWNLOAD_SUCCESS", "UPDATE_SUCCESS", "ROLLBACK"}
Cleanable    == {"ACTIVATION_SUCCESS", "DOWNLOAD_FAILURE", "UPDATE_FAILURE", "ACTIVATION_FAILURE"}

AcceptedFrom(s) ==
    CASE s \in {"IDENTIFIED", "IDENTIFICATION_FAILED"} -> DomainStatus \ {"IDENTIFIED", "IDENTIFICATION_FAILED"}
      [] s \in {"COMPLETED", "INCOMPLETE"} -> DomainStatus \ (Finished \cup {"COMPLETED", "INCOMPLETE"})
      [] s \in {"DOWNLOADING", "DOWNLOAD_SUCCESS", "DOWNLOAD_FAILURE"} -> Downloadable
      [] s \in {"UPDATING", "UPDATE_SUCCESS", "UPDATE_FAILURE"} -> Updatable
      [] s \in {"ACTIVATING", "ACTIVATION_SUCCESS", "ACTIVATION_FAILURE"} -> Activatable
      [] s \in {"ROLLBACK", "ROLLBACK_SUCCESS", "ROLLBACK_FAILURE"} -> Rollbackable
      [] s = "CLEANUP" -> Cleanable
      [] s \in {"CLEANUP_SUCCESS", "CLEANUP_FAILURE"} -> Cleanable \cup {"COMPLETED", "INCOMPLETE"}

Accepts(d, s) == status \in AcceptedIn(s) /\ domains[d] \in AcceptedFrom(s)

\* updateStatusIdentificationFailed
IdentificationFailed == <<SetStatus("IDENTIFICATION_FAILED"), Send("err", "true")>>

HandleDomainIdentified(d, hasActions) ==
    /\ domains' = [domains EXCEPT ![d] = IF hasActions THEN "IDENTIFIED" ELSE "CLEANUP_SUCCESS"]
    /\ todo' = IF Some(domains', {"IDENTIFYING"}) THEN <<>>
               ELSE IF Some(domains', {"IDENTIFICATION_FAILED"}) THEN IdentificationFailed
               ELSE IF Some(domains', {"IDENTIFIED"})
               THEN <<Notify("IDENTIFIED"), Notify("RUNNING"), SetStatus("RUNNING"), Send("DOWNLOAD", "true")>>
               ELSE <<Notify("IDENTIFIED"), SetStatus("COMPLETED"), Send("DOWNLOAD", "false")>>
    /\ UNCHANGED <<delayedStatus, rebootRequired>>

\* (mutant) does not wait for domains that are still identifying
HandleDomainIdentificationFailedEach(d) ==
    /\ domains' = [domains EXCEPT ![d] = "IDENTIFICATION_FAILED"]
    /\ todo' = IdentificationFailed
    /\ UNCHANGED <<delayedStatus, rebootRequired>>

HandleDomainIdentificationFailed(d) ==
    /\ domains' = [domains EXCEPT ![d] = "IDENTIFICATION_FAILED"]
    /\ todo' = IF Some(domains', {"IDENTIFYING"}) THEN <<>> ELSE IdentificationFailed
    /\ UNCHANGED <<delayedStatus, rebootRequired>>

\* (mutants) the first success signals the next command; a failure is not remembered
PhaseFeedbackFirstSuccess(d, s, from, progress, success, failure, next) ==
    /\ s \in {progress, success, failure}
    /\ domains' = [domains EXCEPT ![d] = IF s = progress THEN @ ELSE s]
    /\ delayedStatus' = IF s = failure THEN "INCOMPLETE" ELSE delayedStatus
    /\ todo' = CASE s = progress -> <<Notify("RUNNING")>>
                 [] s = failure  -> <<Command("CLEANUP", {d}, activity)>>
                 [] s = success  -> <<Send(next, "true"), Notify("RUNNING")>>

PhaseFeedbackForgetful(d, s, from, progress, success, failure, next) ==
    /\ s \in {progress, success, failure}
    /\ domains' = [domains EXCEPT ![d] = IF s = progress THEN @ ELSE s]
    /\ UNCHANGED delayedStatus
    /\ todo' = CASE s = progress -> <<Notify("RUNNING")>>
                 [] s = failure  -> <<Command("CLEANUP", {d}, activity)>>
                 [] s = success /\ Some(domains', from) -> <<>>
                 [] OTHER        -> <<Send(next, "true"), Notify("RUNNING")>>

\* one phase of the update: progress is passed on, the last success signals the
\* next command, a failure is cleaned up at once and not checked any further
PhaseFeedback(d, s, from, progress, success, failure, next) ==
    \/ /\ s = progress
       /\ todo' = <<Notify("RUNNING")>>
       /\ UNCHANGED <<domains, delayedStatus>>
    \/ /\ s = success
       /\ domains' = [domains EXCEPT ![d] = success]
       /\ todo' = IF Some(domains', from) THEN <<>> ELSE <<Send(next, "true"), Notify("RUNNING")>>
       /\ UNCHANGED delayedStatus
    \/ /\ s = failure
       /\ domains' = [domains EXCEPT ![d] = failure]
       /\ delayedStatus' = "INCOMPLETE"
       /\ todo' = <<Command("CLEANUP", {d}, activity)>>

HandleDomainDownload(d, s) ==
    PhaseFeedback(d, s, Downloadable, "DOWNLOADING", "DOWNLOAD_SUCCESS", "DOWNLOAD_FAILURE", "UPDATE")

HandleDomainUpdate(d, s) ==
    PhaseFeedback(d, s, Updatable, "UPDATING", "UPDATE_SUCCESS", "UPDATE_FAILURE", "ACTIVATE")

HandleDomainActivation(d, s) ==
    PhaseFeedback(d, s, Activatable, "ACTIVATING", "ACTIVATION_SUCCESS", "ACTIVATION_FAILURE", "CLEANUP")

HandleDomainRollback(d, s) ==
    PhaseFeedback(d, s, Rollbackable, "ROLLBACK", "ROLLBACK_SUCCESS", "ROLLBACK_FAILURE", "CLEANUP")

\* (mutants) the signal overtakes the status; RUNNING is reported as after any
\* other signal; the first domain that finishes ends the activity
completedWith == IF delayedStatus' = "INCOMPLETE" THEN <<"INCOMPLETE", "err">> ELSE <<"COMPLETED", "done">>

DomainUpdateCompletedSignalFirst ==
    /\ todo' = IF Some(domains', DomainStatus \ Finished) THEN <<>>
               ELSE <<Send(completedWith[2], "true"), SetStatus(completedWith[1])>>
    /\ UNCHANGED rebootRequired

DomainUpdateCompletedReports ==
    /\ todo' = IF Some(domains', DomainStatus \ Finished) THEN <<>>
               ELSE <<SetStatus(completedWith[1]), Send(completedWith[2], "true"), Notify("RUNNING")>>
    /\ UNCHANGED rebootRequired

DomainUpdateCompletedFirst ==
    /\ todo' = <<SetStatus(completedWith[1]), Send(completedWith[2], "true")>>
    /\ rebootRequired' = (rebootRequired \/ actions' \cap RebootRequired # {})

\* domains', delayedStatus' and actions' are those of the report being handled
DomainUpdateCompleted ==
    IF Some(domains', DomainStatus \ Finished)
    THEN todo' = <<>> /\ UNCHANGED rebootRequired
    ELSE /\ rebootRequired' = (rebootRequired \/ actions' \cap RebootRequired # {})
         /\ todo' = IF delayedStatus' = "INCOMPLETE"
                    THEN <<SetStatus("INCOMPLETE"), Send("err", "true")>>
                    ELSE <<SetStatus("COMPLETED"), Send("done", "true")>>

HandleDomainFinished(d, s) ==
    \/ /\ s \in {"COMPLETED", "CLEANUP_SUCCESS"}
       /\ domains' = [domains EXCEPT ![d] = "CLEANUP_SUCCESS"]
       /\ UNCHANGED delayedStatus
       /\ DomainUpdateCompleted
    \/ /\ s \in {"INCOMPLETE", "CLEANUP_FAILURE"}
       /\ domains' = [domains EXCEPT ![d] = "CLEANUP_FAILURE"]
       /\ delayedStatus' = IF s = "INCOMPLETE" THEN "INCOMPLETE" ELSE delayedStatus
       /\ DomainUpdateCompleted

\* a report that no handler ignores
HandleAccepted(d, s, hasActions) ==
    \/ s = "IDENTIFIED" /\ HandleDomainIdentified(d, hasActions)
    \/ s = "IDENTIFICATION_FAILED" /\ HandleDomainIdentificationFailed(d)
    \/ /\ \/ HandleDomainDownload(d, s)
          \/ HandleDomainUpdate(d, s)
          \/ HandleDomainActivation(d, s)
          \/ HandleDomainRollback(d, s)
          \/ s = "CLEANUP" /\ todo' = <<Notify("RUNNING")>> /\ UNCHANGED <<domains, delayedStatus>>
       /\ UNCHANGED rebootRequired
    \/ HandleDomainFinished(d, s)

\* validateActivity drops the reports of other activities and unknown domains
HandleDesiredStateFeedbackEvent(d, s, hasActions) ==
    /\ todo = <<>>
    /\ d \in DOMAIN domains
    /\ actions' = IF hasActions THEN actions \cup {d} ELSE actions
    /\ \/ Accepts(d, s) /\ HandleAccepted(d, s, hasActions)
       \/ ~Accepts(d, s) /\ UNCHANGED <<domains, delayedStatus, rebootRequired, todo>>
    /\ UNCHANGED <<activity, pc, status, chan, handlers, terminated, reported, reboot>>

\* a report of the agent of d; its update manager drops those that come before
\* the desired state was sent
AgentFeedback(d, s, hasActions) ==
    /\ pc # "identify"
    /\ applying[d] # "spawned"
    /\ HandleDesiredStateFeedbackEvent(d, s, hasActions)
    /\ UNCHANGED applying

\* the goroutine of apply that sends the desired state to d
SendDesiredState(d) ==
    /\ applying[d] = "spawned"
    /\ \/ applying' = [applying EXCEPT ![d] = "no"]
       \/ "publish" \in Faults /\ applying' = [applying EXCEPT ![d] = "failed"]
    /\ UNCHANGED <<activity, pc, opVars, todo, handlers, terminated, reported, reboot>>

\* ... and, when that failed, reports INCOMPLETE for d, still holding managerLock
SendDesiredStateFailed(d) ==
    /\ applying[d] = "failed"
    /\ applying' = [applying EXCEPT ![d] = "no"]
    /\ \/ HandleDesiredStateFeedbackEvent(d, "INCOMPLETE", FALSE)
       \/ /\ todo = <<>>
          /\ d \notin DOMAIN domains
          /\ UNCHANGED <<activity, pc, opVars, todo, handlers, terminated, reported, reboot>>

-----------------------------------------------------------------------------
(* What the holder of operationLock does, step by step *)

holderUnchanged == UNCHANGED <<activity, pc, delayedStatus, domains, actions, rebootRequired,
                               handlers, applying, terminated, reboot>>

NotifyFeedback ==
    /\ todo # <<>> /\ Head(todo).op = "notify"
    /\ reported' = Head(todo).status
    /\ todo' = Tail(todo)
    /\ UNCHANGED <<status, chan>>
    /\ holderUnchanged

UpdateStatus ==
    /\ todo # <<>> /\ Head(todo).op = "setStatus"
    /\ status' = Head(todo).status
    /\ todo' = Tail(todo)
    /\ UNCHANGED <<reported, chan>>
    /\ holderUnchanged

SendSignal ==
    /\ todo # <<>> /\ Head(todo).op = "send"
    /\ chan[Head(todo).channel] = "empty"
    /\ chan' = [chan EXCEPT ![Head(todo).channel] = Head(todo).value]
    /\ todo' = Tail(todo)
    /\ UNCHANGED <<reported, status>>
    /\ holderUnchanged

\* command: needs the managerLock of d
CommandDomain(d) ==
    /\ todo # <<>> /\ Head(todo).op = "command"
    /\ d \in Head(todo).targets
    /\ applying[d] # "failed"
    /\ todo' = IF Head(todo).targets = {d} THEN Tail(todo)
               ELSE [todo EXCEPT ![1].targets = @ \ {d}]
    /\ UNCHANGED <<reported, status, chan>>
    /\ holderUnchanged

\* publishing the command failed: the update manager of d reports INCOMPLETE
\* to the orchestrator from within the call, which waits for operationLock,
\* held by the very goroutine that waits
CommandFailed(d) ==
    /\ "publish" \in Faults
    /\ todo # <<>> /\ Head(todo).op = "command"
    /\ d \in Head(todo).targets
    /\ applying[d] # "failed"
    /\ todo' = <<Blocked>>
    /\ UNCHANGED <<reported, status, chan>>
    /\ holderUnchanged

Terminate ==
    /\ "terminate" \in Faults
    /\ ~terminated
    /\ terminated' = TRUE
    /\ UNCHANGED <<activity, pc, opVars, todo, handlers, applying, reported, reboot>>

-----------------------------------------------------------------------------
Wait == ErrorSignalled \/ RollbackSignalled \/ Signalled \/ ContextDone
Apply == Identify \/ Wait \/ ReturnReboot \/ ReportFinal \/ DisposeUpdateOperation
HoldLock ==
    \/ OwnerConsented
    \/ NotifyFeedback
    \/ UpdateStatus
    \/ SendSignal

Next ==
    \/ \E ds \in SUBSET Domains : SetupUpdateOperation(ds)
    \/ Apply
    \/ PhaseTimeout
    \/ HoldLock
    \/ OwnerConsentFailed
    \/ Terminate
    \/ \E h \in handlers : HandleCommandSignal(h)
    \/ \E approved \in BOOLEAN : HandleOwnerConsentFeedback(approved)
    \/ \E d \in Domains :
         \/ SendDesiredState(d)
         \/ SendDesiredStateFailed(d)
         \/ CommandDomain(d)
         \/ CommandFailed(d)
         \/ \E s \in FeedbackStatus, hasActions \in BOOLEAN : AgentFeedback(d, s, hasActions)

Spec == Init /\ [][Next]_vars

-----------------------------------------------------------------------------
(* Properties *)

\* the lock holder is about to command c, whichever activity it was started for
issuing(c) == todo # <<>> /\ Head(todo).op = "command" /\ Head(todo).command = c

\* the statuses a domain must have left before c is commanded to any
Before(c) == {"IDENTIFYING", "IDENTIFICATION_FAILED"} \cup (IF c = "UPDATE" THEN {"IDENTIFIED"} ELSE {})

Gated == {"DOWNLOAD", "UPDATE"}

\* No goroutine of an earlier activity waits for operationLock when this one goes
\* on.  One that does would act on this operation: handleCommandSignal looks at
\* what orchestrator.operation is by then (apply.go:95), not at whose it is.
Undisturbed == pc # "idle" => \A h \in handlers : h.spawnedIn = activity

\* Whatever the agents report and when, if Undisturbed: DOWNLOAD is commanded only when every
\* domain was identified, and UPDATE only when in addition every domain has left
\* the download phase (the loops over operation.domains in handleDomainIdentified
\* and handleDomainDownloadSuccess decide this, the goroutines act on it later).
PhaseBarrier == \A c \in Gated : issuing(c) => ~Some(domains, Before(c))

\* Apply asks for a reboot of the device only when no domain is in the middle of
\* its update any more, and none can get back into it before Apply has returned:
\* the unlocked reads of rebootRequired and status (apply.go:52) see no less.
RebootOnlyWhenFinished ==
    reboot /\ pc \in {"report", "dispose"} => ~Some(domains, DomainStatus \ Finished)

-----------------------------------------------------------------------------
(* Why PhaseBarrier holds: an inductive invariant *)

past(c) == ~Some(domains, Before(c))

\* Apply may still take the signal of c
early(c) == pc \in {"identify", "DOWNLOAD"} \cup (IF c = "UPDATE" THEN {"UPDATE"} ELSE {})

identifying == status \in IdentificationStatus
failing == todo # <<>> /\ Head(todo) = SetStatus("IDENTIFICATION_FAILED")

\* a RUNNING operation has identified its domains
RunningInv ==
    status = "RUNNING" \/ (\E i \in DOMAIN todo : todo[i] = SetStatus("RUNNING")) => past("DOWNLOAD")

\* a signal that Apply may still take was sent for good
SignalInv == \A c \in Gated : early(c) /\ chan[c] = "true" => past(c) /\ ~identifying /\ ~failing

\* and so is one about to be sent; the status is set before the signal
PendingInv ==
    \A i \in DOMAIN todo :
        /\ todo[i] = SetStatus("IDENTIFICATION_FAILED") => i = 1
        /\ todo[i] = Send("DOWNLOAD", "true") =>
              /\ past("DOWNLOAD")
              /\ IF i = 1 THEN early("DOWNLOAD") => ~identifying ELSE todo[i - 1] = SetStatus("RUNNING")
        /\ todo[i] = Send("UPDATE", "true") => i = 1 /\ (early("UPDATE") => past("UPDATE") /\ ~identifying)

\* what the goroutine of a current command relies on until it has the lock ...
HandlerInv ==
    \A h \in handlers :
        /\ h.spawnedIn <= activity
        /\ h.command \in Gated /\ h.spawnedIn = activity /\ pc # "idle" =>
              past(h.command) /\ ~early(h.command) /\ ~identifying /\ ~failing

\* ... and while it holds it
CommandInv ==
    \A i \in DOMAIN todo :
        todo[i].op \in {"command", "consent"} /\ todo[i].command \in Gated /\ todo[i].spawnedIn = activity
            => past(todo[i].command)

\* The phase barrier as an inductive invariant: the status, every signal and
\* every goroutine on its way to a command vouch for the barrier it was sent by.
BarrierInv == RunningInv /\ SignalInv /\ PendingInv /\ HandlerInv /\ CommandInv

-----------------------------------------------------------------------------
(* What it all amounts to: the lifecycle of an activity *)

stageOf ==
    CASE pc = "idle"                   -> "idle"
      [] pc \in {"identify", "DOWNLOAD"} -> "identify"
      [] pc = "UPDATE"                 -> "download"
      [] pc = "ACTIVATE"               -> "update"
      [] pc \in {"report", "dispose"}  -> "closed"
      [] OTHER                         -> "finish"

levelOf(s) ==
    CASE s \in {"IDENTIFYING", "IDENTIFICATION_FAILED"} -> 0
      [] s = "IDENTIFIED"                               -> 1
      [] s \in Finished                                 -> 3
      [] OTHER                                          -> 2

commandingOf == IF issuing("DOWNLOAD") THEN 1 ELSE IF issuing("UPDATE") THEN 2 ELSE 0

Abstract == INSTANCE ActivityLifecycle
    WITH stage <- stageOf, level <- [d \in DOMAIN domains |-> levelOf(domains[d])],
         commanding <- commandingOf

\* The channels, goroutines and locks of the orchestrator amount to the barriers
\* of ActivityLifecycle, whatever agents and owner do: it proceeds, commands and
\* decides only over domains that have come as far, and none is moved back under it.
ImplementsLifecycle == Abstract!Lifecycle

=============================================================================
