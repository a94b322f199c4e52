# Verification of the Eclipse Kanto Update Manager

The update manager receives a *desired state* of a device from a backend, splits
it by *domain*, has the *update agent* of each domain download, install and
activate its part, asks the *owner* of the device for consent where configured,
and reports progress and the *current state* back. Everything travels over MQTT.
This directory holds TLA+ models of its concurrent core, the TLC configurations
that check them, and proofs for TLAPS. Paths below are relative to `src/`; the
`updatem/orchestration/update_orchestrator_*.go` files are written `apply.go`,
`feedback.go`, and so on.

## 1. Inventory

| component | state | operations | what makes it correct |
| - | - | - | - |
| update orchestrator (`updatem/orchestration/update_orchestrator*.go`, `update_operation.go`) | `operation`: status, delayedStatus, a status per domain, actions, rebootRequired, nine channels of capacity one; `operationLock` | `Apply` and its waits, `handleCommandSignal`, `getOwnerConsent`, 19 feedback handlers | phases are barriers; one truthful final feedback, the last one; consent before command; refusal rolls back; reboot only when every domain is finished; every activity ends |
| domain update manager (`updatem/domain`) | the activity it applies; last known current state with timestamp; the activity a `Get` waits for and its channel; three locks | `Apply`, `Command`, `Get`, `HandleDesiredStateFeedback`, `HandleCurrentState` | feedback of other activities is dropped; an older current state never replaces a newer one; `Get` returns by its timeout |
| aggregated update manager (`updatem/orchestration/update_manager*.go`) | `inProgress`, `activityInProgress`, `domainsInventory`; `applyLock`, `eventLock` | `Apply`, `Get`, `HandleDesiredStateFeedbackEvent`, `HandleCurrentStateEvent`, reboot | one activity at a time; the inventory joins the newest state of each domain |
| update agent, i.e. the update manager's face to the backend (`api/agent`) | `clientLock`, `currentStateLock`, two notifiers with a timer each | handlers of desired state, command and current state requests; callbacks of the manager | nothing reported after the final feedback; every change of the current state is reported in the end |
| feedback and current state notifiers (`api/agent/timer_*.go`) | timer, activity, pending and reported actions or inventory | `set`, `stop`, `notifyEvent` | throttling loses no news and reports nothing stale |
| MQTT clients (`mqtt`) | subscriptions, topics, connection | publish with acknowledgement timeout, subscribe, unsubscribe, `handleMessage` on one router goroutine | a message reaches the handler of its topic |
| digital twin clients (`mqtt/*_things_client.go`, `things`) | `edgeConfig`, `dittoClient`, `umFeature`; per feature `active`, `consentHandler`, `consentCorrelationID` | apply and replace the edge configuration, activate, operations and consent answers, ask the owner | the last configuration is applied; operations of another thing are dropped; an answer counts once and for the request it is to |
| data helpers (`api/types`, `api/util`), configuration (`config`) | none | split by domain, join inventories, parse | no component lost or sent twice |
| reboot, logging, TLS, launch | none | I/O | not modelled |

Interactions. The backend's desired state arrives on the router goroutine of the
MQTT client; the agent starts a goroutine that calls `Apply` of the aggregated
manager, which calls `Apply` of the orchestrator and stays in it until the
activity has ended. The orchestrator publishes through the domain update
managers; the agents' feedback comes back on the router goroutine, through
domain update manager (`desiredStateLock`) and aggregated manager (`eventLock`)
into the orchestrator (`operationLock`), which signals the waiting `Apply`
through the channels of the operation. For every signal `Apply` starts a
goroutine that takes `operationLock` and issues the command, after asking the
owner, whose answer comes on the same router goroutine.

What is hard here: the same operation is changed by the waiting goroutine (on a
timeout, without the lock), by the goroutines it starts and by the router; the
signals travel in channels of capacity one, sent to while the lock is held;
goroutines outlive the activity that started them; a publish may fail, or be
delivered although it seems to have failed; QoS 1 may deliver twice; agents and
owner may never answer. `PROJECT.json` lists every hazard at its line with the
properties that guard it.

## 2. Modules

| module | what it models |
| - | - |
| `UpdateOrchestrator` | the orchestrator with an open environment: any report from any domain, any answer of the owner, at any time |
| `ActivityLifecycle` | the abstract specification of an update activity, which `UpdateOrchestrator` implements |
| `UpdateActivity` | `UpdateOrchestrator` composed with update agents, owner and the router of the MQTT client |
| `UpdateOrchestratorProofs` | theorems about `UpdateOrchestrator`: types, the barrier between the phases, the reboot decision, and that it implements `ActivityLifecycle` |
| `UpdateActivityProofs` | that `UpdateActivity` is the orchestrator of `UpdateOrchestrator`, its types, and the order of the commands |
| `OwnerConsentProofs` | that what the owner must agree to is commanded with the owner's consent |
| `OutcomeProofs` | that an activity in which a domain failed is not reported `COMPLETED` |
| `ConclusionProofs` | how an activity ends: its final feedback, what becomes of a refusal, that it succeeds unless somebody is to blame, and that the channels have room |
| `CurrentState` | how the current state is collected and reported: domain update managers, aggregated manager, update agent with its delayed notifier, router; the commands and feedback of an activity that get in its way |
| `UpdateAgent` | how desired states are taken one at a time and feedback is throttled: update agent, feedback notifier, aggregated manager, termination |
| `ThingsClient` | the update manager as a feature of a digital twin: edge configuration, activation, operations, consent |
| `CurrentStateProofs`, `UpdateAgentProofs`, `ThingsClientProofs` | theorems about these three |
| `MCUpdateOrchestrator`, `MCUpdateActivity`, `MCCurrentState`, `MCUpdateAgent`, `MCThingsClient` | what TLC needs to run them (symmetries) |

A definition marked *(mutant)* is part of no specification. It is a plausible
fault in the definition below it; with it in that definition's place, a run must
fail. `PROJECT.json` says which property each one breaks.

### UpdateOrchestrator

State. `operation` is the variables `status`, `delayedStatus`, `domains`,
`actions`, `rebootRequired` and `chan`; `pc` is where `Apply` is, `"idle"`
exactly when `operation` is `nil`, and otherwise named for the signal it waits
for. `handlers` are the goroutines that `waitCommandSignal` has started and that
still wait for `operationLock`. `todo` is what the holder of `operationLock` has
still to do: a handler first decides and updates the maps of the operation in
one step, as nobody else can look at them, and then performs what others *can*
observe one step at a time, in the order of the code: reporting to the backend,
setting the status (`Apply` reads it without the lock), sending to a channel,
commanding one domain after another, awaiting consent. The lock is free when
`todo` is empty. `applying` are the goroutines that send the desired state, and
whether one sits in the failure callback with `managerLock` held.

Actions. `SetupUpdateOperation`, `Identify`, the cases of `waitSignal`
(`PhaseTimeout`, `ErrorSignalled`, `RollbackSignalled`, `Signalled`,
`ContextDone`), `ReturnReboot`, `ReportFinal` and `DisposeUpdateOperation` are
`Apply`. `HandleCommandSignal`, `OwnerConsented` and `OwnerConsentFailed` are
the command goroutine. `HandleDesiredStateFeedbackEvent` is the table of feedback
handlers: `AcceptedIn` and `AcceptedFrom` are the two checks each makes, on the
status of the operation and of the domain; `HandleDomain...` is what it does.
`NotifyFeedback`, `UpdateStatus`, `SendSignal`, `CommandDomain` and
`CommandFailed` are the steps of the holder of the lock.

`reported` and `reboot` are history: the last feedback the backend was sent, and
what `Apply` returned. So is `spawnedIn` of a command: the activity whose
`Apply` started the goroutine.

Abstractions. Actions are a flag per domain (has it any); baselines, messages
and progress are left out. `eventLock` and `desiredStateLock` are taken in front
of `operationLock` by every feedback and by nobody else on these paths, so they
are part of it. `HandleOwnerConsentFeedback` checks the operation and sends in
one step, and the operation is disposed of only after the goroutines of
`Identify` have read it; both are races on a pointer that would end in a `nil`
dereference, listed as hazards and not modelled. A desired state for unknown
domains is one with no domains.

### ActivityLifecycle

What the orchestrator promises, without channels, goroutines or locks: a stage that
only goes forward, a level for each domain (unidentified, identified, downloaded or
beyond, finished), the phase being commanded, and whether a reboot was decided. A
phase begins when *all* domains have come far enough (`Proceed`), commands are issued
only over such domains (`Issue`), no report moves a domain below what the stage was
entered with or while commands are being issued (`Move`), and a reboot is decided
only over finished domains (`Close`). `UpdateOrchestrator` implements it
(`ImplementsLifecycle`): `stageOf` is read off `pc`, `levelOf` off the status of each
domain, `commandingOf` off `todo`. The refinement has one direction of control that
`PhaseBarrier` alone does not show: that reports cannot undo a barrier later.

### UpdateActivity

Adds what the orchestrator talks to. `requests[d]` and `feedback[d]` are the
messages to and from the agent of `d`, `asked` and `answers` those to and from
the owner, `inHand` is the message the router goroutine is handling. Delivery is
in order per agent and in any order between agents. The router handles one
message at a time (paho keeps order by default and no option changes that), so
it is stuck while a feedback handler waits for `operationLock`, and then cannot
deliver the owner's answer either. An answer that arrives while no consent is
awaited is dropped, as the topic is not subscribed to.

A copy (`KeepCopy`) comes directly after its original. In MQTT 3.1.1 a sender repeats
what was not acknowledged in the order it was sent, so a copy comes behind other messages
of its sender only if these are repeated as well, and those copies are the ones that make
the difference; a bound on single copies leaves that case out.

`Untimed` is what goroutines, agents, owner and router do without a timer, `Settled` that
none of them can do anything. With `Prompt` the phase timer (`Timeout`) and the consent
timer (`ConsentTimeout`) fire in such states, and only in such: when a message is awaited
that nobody will send, or when the lock holder and the router wait for each other, however
much is still undelivered. Without it they fire at any time.

Agents answer a request with the progress and a result of that phase, success or
failure, and after `CLEANUP` with their overall result, in line with
`docs/desired-state-feedback-specification.md` and what the handlers expect. They
may take for ever. `failed`, `granted` and `refused` are history; a failure *in*
the cleanup is not counted in `failed`, as the code means it not to matter
(`handleDomainCleanupFailure` does not set `delayedStatus`).

Every step of `UpdateActivity` is a step of `UpdateOrchestrator` or leaves its
variables alone, so what is proved of the latter holds here as well
(`ActivityIsOrchestrator`).

### CurrentState

State. A state of a domain is a version that grows with every change. Per domain
update manager: `managerLock` (whose `Get` holds it), `waiting` (that `Get` is in
its `select`), `expActivityID`, `receiveChan` (`nil`, empty or full: its capacity
is one), `inventory` and `timestamp` (`internalCurrentState`). `sending` is a
`HandleCurrentState` on its last step, the send to `receiveChan`; it holds
`currentStateLock` and the router meanwhile. `domainsInventory` belongs to the
aggregated manager, `timer` and `currentState` to the notifier. Three things call
`Get`, each once and with an activity of its own: the goroutine started on
connecting (`"initial"`), a request of the backend (`"backend"`), which the router
goroutine handles itself, and the end of an update activity (`"apply"`).

Of an update activity the module has what shares locks with `Get`. `commands` are
the domains the holder of `operationLock` still has to command, each `Command`
needing `managerLock`; `feedback` is a `HandleDesiredStateFeedback` that waits for
`operationLock` on the router goroutine. So a `Get` that holds `managerLock` may wait
for an answer behind a feedback that waits for a command that waits for `managerLock`.

Actions. `Get` copies `domainsInventory`; `SendCurrentStateGet`, `ReceiveReply`,
`ReadTimeout`, `GetCancelled` and `LeaveGet` are `Get` of one domain, which runs
on a goroutine per domain. `HandleCurrentState` runs in one step up to its last
send, which is `SendReply`. `StopNotifier` and `SendCurrentState` are the rest of
`HandleCurrentStateGet`, `ReportApplied` is `HandleCurrentStateEvent` at the end of
an activity, `NotifyEvent` the timer.

`published` is the current state last published (the retained message), `asOf`
what was installed when a request began, `excused` the requests that an agent did
not get or did not answer in time. A timeout does *not* excuse a request when the
answer had arrived and only waited for the router, which waited for it.

Abstractions. The goroutines of one `Get` read and write their maps one at a
time; in the code they do so without a lock, and the race is a hazard of its own.
Timestamps of an agent grow with every message: they have the resolution of a
millisecond (`api/types/envelope.go:42`), and that of two messages sent within one the
second is accepted as well (`update_manager_handler.go:47`), in whichever order they come,
is left out. The end of an activity comes after the subscription
to the agents' topics. The timer may fire at any time after it was set.

### UpdateAgent

State. `request[a]` is how far the goroutine of desired state `a` has come, in
`applyDesiredState`, the aggregated manager's `Apply` and the orchestrator's.
`clientLock` and `activityInProgress` (with `inProgress`) guard it. The notifier
is `activityID`, `actions`, `reportedActions` and `internalTimer`; `stray` counts
timers that go on ticking although `internalTimer` no longer names them, `expired`
the `notifyEvent` goroutines that wait for the notifier's lock. Both exist because
`Timer.Stop` does not stop a goroutine that was already started.

Actions. `HandleDesiredState` starts the goroutine; `CheckIfInProgress` is the
lock and `checkIfInProgress`, followed by `Start` or `Reject`. The orchestrator is
what it reports: `Identified`, `ReportRunning`, `PublishFinal`, between which
anything may happen; `StopNotifier` and `DisposeUpdateOperation` follow the final
feedback as separate steps. `set`, `stop` and `notifyEvent` are the notifier, each
a step because each holds its lock. `Terminate`, `Stop` and `Disconnect` are the
end of the process.

Assumptions about the orchestrator, checked elsewhere or named here: it ends
every activity (`Terminates`), with a final status (`FinalFeedbackIsFinal`), and
reports nothing after the final feedback (`FinalReportStands`, except after an
`INCOMPLETE` by which a timeout ends the activity while a domain is under way: such
reports are left out as `LateReports` is `FALSE`; after termination they are allowed).

### ThingsClient

State. `edgeConfig`, `dittoClient` and `umFeature` are those of
`updateAgentThingsClient`; features and Ditto clients are numbered in the order they
are made, so that goroutines can still hold an earlier one, and `features` keeps their
fields. `router` is where `handleEdgeResponse` is, `localCfg` and `err` its local
variables; its connect handler captures `err` and so may still assign it.
`connectHandlers` are the connect handlers running, with the feature each has read
from `client.umFeature`; `handling` the goroutines that wait for a feature's lock in
`messagesHandler`; `forwarded` those that hand an answer to the orchestrator. `route`
is the Ditto client whose subscription to the commands is in force. `consent` is the
activity as far as `getOwnerConsent` is concerned: started, waiting, stopping.

Actions. `HandleEdgeResponse` to `EdgeConfigApplied` are `handleEdgeResponse`, one
step per call that others can see; `ReadFeature` and `Activate` are the connect
handler. `Deliver` is the Ditto client, `SkipMessage`, `ProcessOperation` and
`ProcessConsent` are `messagesHandler`. `SetConsentHandler`, `SendConsent`,
`OwnerConsented`, `ConsentTimeout`, `ResetConsentHandler` are `getOwnerConsent` with
the consent client; `Deactivate` and `Disconnect` are `Stop`.

`taken`, `accepted`, `via`, `rejected` and `revived` are history. A fault is a send, a
subscription or the making of a client that fails; `faults` counts them. The owner's
answer is put where it can be delivered when the request is sent, as it may arrive at
any time from then on. A configuration is the thing it names: tenant and policy only
matter for being equal. Sending feedback and the current state changes nothing here
and is left out. The Ditto client is a library: its handlers run on goroutines of
their own, and one subscription to the commands replaces another, as they share a
topic.

## 3. What is checked

| run | instance | shows |
| - | - | - |
| `open_environment` | 2 domains, 1 activity, no consent, phase timeouts | the barrier between the phases (`PhaseBarrier`, through `BarrierInv`), the reboot decision and the refinement of `ActivityLifecycle`, against agents that report anything at any time |
| `open_next` | 1 domain, 2 activities, failing publishes, termination | the reboot decision when goroutines and consent answers of one activity are left over in the next |
| `activity_prompt` | 2 protocol-abiding agents, 2 activities, consent for `DOWNLOAD` and `UPDATE`, both timers when nothing else can move | the outcome: final, truthful, last unless a timeout speaks; a refusal that was heard rolls everything back; no channel overflows; no goroutine outlives its activity into the next, where commands are in order and consented again |
| `activity_faults` | 2 agents, every timer at any moment, failing publishes, 1 duplicate, termination | commands are in order and none follows a refusal but back, whatever goes wrong, and nothing is reported after `COMPLETED` |
| `activity_terminates` | 2 agents that may fall silent, consent for `ACTIVATE` | every activity ends |
| `current_state` | 2 domains, 2 versions, the request at the end of an activity, 1 duplicate, failing publishes, termination | what is collected is current, what is known never goes back, the router is never blocked on a dead channel |
| `current_state_live` | 1 domain, 3 versions, the request after connecting and one of the backend, 1 command, delayed reports | requests end; commands get through; a change that meets no request is reported |
| `update_agent` | 3 desired states, 2 steps of progress each, termination | each is applied to its end; throttled feedback loses nothing and mixes nothing up |
| `things_client` | 2 configurations, 2 connections or changes, 2 activities, 2 requests for consent, 1 operation or duplicate, 1 fault, termination | answers count for their request and once, operations are of the configured thing, the last configuration is applied |
| `refused_activation`, `publish_failure`, `stale_answer` | the smallest that show it | findings, section 5 |

Bounds. Two domains are the smallest number for which "all domains" and "this
domain" differ, and the code treats domains alike: it looks at one and loops over
all of them. Where an activity meets leftovers of another, two activities are
needed, and for the order of the commands two domains with them (`activity_prompt`);
the reboot decision of `open_next` is about all domains being finished,
and one will do to show that leftovers do not feign it.
One duplicate can come between any two messages; two versions make "old" and
"new", a third is needed for two changes that are coalesced while a request runs.
Three desired states let one hold the lock while two wait, and leave a stopped
timer's goroutine behind for each of two successors. In `things_client`
a second configuration meets features, handlers and answers of the first, and a second
request for consent the answers to the first, in the same activity or the next. What
is proved holds without bounds. Consent is left out of `open_environment`, which keeps
it small with two domains; it is in `open_next`, and `PhaseBarrier` is proved with it.
Activities are numbered and stop at `MaxActivities`, changes at
`MaxVersion`, progress at `MaxProgress`: at the bound the system stops there,
hence `CHECK_DEADLOCK FALSE` throughout; that nothing stops too early is what the
liveness properties say.

Faults are constants. `"publish"` lets any publish fail, having been delivered or
not; `"terminate"` cancels the context; `"phaseTimeout"` and `"consentTimeout"`
let these timers fire. With `Prompt`, timers fire when nothing else can happen and
only then, which stands for agents and owners that answer well within 10 and 30 minutes
and a process that runs: what the code makes wait for a timeout, waits for it. The order in
which the two timers fire is left open.

Fairness. Weak fairness is assumed of the goroutines of the process (Go runs
every goroutine that can run, and its mutexes serve those who wait), of its
timers, and of the router, which delivers what has arrived. It is *not* assumed of
agents, the owner, the backend or faults. So `Terminates` and `GetReturns` rest on
the timeouts alone; `GetReturns` counts on `readTimeout` also when the router is
what the request waits for. In `UpdateAgent` fairness of `ApplyStep` includes that
the orchestrator ends, which is `Terminates`.

Properties worth a remark:

- `CommandsInOrder` and `PhaseBarrier` look alike. `PhaseBarrier` is about
  `DOWNLOAD` and `UPDATE` and holds in an open environment. For `ACTIVATE` the open
  environment breaks it: a domain may report `UPDATE_SUCCESS` before `UPDATE` was
  commanded, and the loop of `handleDomainUpdateSuccess` does not look for domains
  that are still `IDENTIFIED`. `CommandsInOrder` shows that agents following the
  protocol never get there, not even with duplicates and timeouts.
- `RefusalRollsBack` is what the documentation says of a refusal, and false, because the
  refusal may not be heard in time (section 5). `HeardRefusalRollsBack` excludes
  just that: that the final feedback is about to be given with the refusal still on its way.
  It needs `DOWNLOAD` and `UPDATE` to be what the owner is asked for; with `ACTIVATE` it is
  false as well (finding 1).
- `FinalReportStands` and `NoCommandAfterFinal` leave out what follows when a timeout ends
  the activity with agents at work: after its `INCOMPLETE`, `RUNNING` may be reported and a
  `ROLLBACK` commanded. In `activity_prompt` that happens when the phase timer fires while
  the lock holder awaits a consent and the router waits for the lock. `CompletedStands` has no
  exception and holds with timers at any time, copies and failing publishes.
- `Undisturbed` (no goroutine of an earlier activity waits for `operationLock`) is a hypothesis
  of theorems; `activity_prompt` shows that it holds as long as timers only fire when nothing
  else can move.
- `EndsAfterCommandFailure` is a part of `Terminates` that fails when publishes do; section 5
  names another.
- `KnownNeverGoesBack` is the timestamp check against duplicated and late
  messages; `AnswersAreCurrent` is what a request is for.
- `HeldBackHasTimer` and `OwnProgress` are about timers that fire while they are
  being stopped: `notifyEvent` cannot tell whose timer it is called by.
- `CommandGetsThrough` is the circle described under `CurrentState`; it is broken by
  `readTimeout` and nothing else (without it, the mutant, the property fails).
- `OwnerIsHeard` and `AnswerOfRequest` pull in opposite directions: the checks that keep
  late answers out must not keep the right one out.
- `OperationsOfTheThing` excludes runs in which a late connect handler has activated a
  feature already given up; that it can is an observation of section 5.
- `QuietAfterEnd` begins with the stop of the notifier, see section 5.

## 4. What is proved

`UpdateOrchestratorProofs`, from `ConstantsAssumption` (which TLC evaluates in the
runs) and nothing else, for every set of domains, configuration, set of faults and
number of activities:

- `TypeCorrect`: `Spec => []TypeOK`. `TypeOK` says which status every domain can
  be in and which effects the lock holder can still have; one lemma per operator
  that builds a list of effects.
- `BarrierInvariant`: `Spec => []BarrierInv`, and from it
- `PhaseBarrierHolds`: `Spec /\ []Undisturbed => []PhaseBarrier`. No agent is commanded
  `DOWNLOAD` while a domain has not been identified, or `UPDATE` while one is still to
  download, whatever the agents report, the owner answers, times out or is lost.
  `PhaseBarrier` counts every command, also one of a goroutine whose activity is over.
  `Undisturbed` says that no such goroutine waits for `operationLock`; with one the barrier
  is broken (section 5, stale commands). `OwnInv` carries it from the goroutines to their commands.
- `FirstOperationUndisturbed`: `Spec => [](activity <= 1 => Undisturbed)`, and with it
  `FirstOperationBarrier`: `Spec /\ [](activity <= 1) => []PhaseBarrier`, where nothing
  is assumed of goroutines.

`PhaseBarrier` is not inductive: when a command is issued, nothing in that step
looks at the other domains. The decision was made earlier, by the feedback handler
that found the phase complete, and was passed on through a channel, the `Apply`
goroutine, a new goroutine and a wait for the lock. `BarrierInv` follows it on its
way. `RunningInv`: an operation that is, or is about to be set, `RUNNING` has
identified its domains. `PendingInv`: a handler that is about to send a signal saw
the barrier reached, and sets the status first. `SignalInv`: a signal in a channel
that `Apply` may still take was sent at the barrier, and the status can no longer
be one in which identification reports are accepted. `HandlerInv`: so it is for the
goroutine waiting for the lock, unless its activity is over. `CommandInv`: and for
every command it has left to issue. The phases make it work in one direction: the
checks on the status (`AcceptedIn`) let no domain go back across a barrier while
the status has moved on.

In the same module, on top of `BarrierInvariant`:

- `RebootOnlyWhenFinishedHolds`: `Spec => []RebootOnlyWhenFinished`.
- `ImplementsLifecycleHolds`: `Spec /\ []Undisturbed => ImplementsLifecycle`, the refinement
  of `ActivityLifecycle` under the mapping `stageOf`, `levelOf`, `commandingOf`, for any number
  of activities that do not interfere; `FirstOperationImplements` for the first one.

`LifecycleInv` says what `BarrierInv` leaves open. `StageInv`: past the wait for the
first phase, identification is over for good. `LeftInv`: a phase is commanded only after
`Apply` has left the wait for it. `RebootInv`: `rebootRequired` stands over finished
domains, and nothing that could still unfinish one is accepted or pending. The
refinement splits the steps in those of `Apply`, of the lock holder and of the feedback
handlers (`ApplyImplements`, `CommandingStep`, `FeedbackImplements`); every step is an
action of `ActivityLifecycle` or leaves its variables alone (`StepImplements`).

`UpdateActivityProofs`, about the composition with agents, owner and router:

- `ActivityIsOrchestrator`: `SpecActivity => Spec`, which carries the theorems above over.
- `ActivityTypeCorrect`: `SpecActivity => []TypeOKActivity`.
- `CommandsInOrderHolds`: `SpecActivity /\ []Undisturbed => []CommandsInOrder`, and
  `FirstActivityInOrder`, which needs `activity <= 1` instead.

`CommandsInOrder` is about `ACTIVATE` as well, and there it is the agents that keep the
order: they report the end of a phase only after they were asked for it. `OrderInv`
follows a phase around the circle. `CarriedInv`: whatever shows that an activity has
come to a phase (a signal, a goroutine, a question to the owner, a command, a request, a
report) shows that every domain has left the one before. `AgeInv`: no message is of a
later activity than the one under way, so nothing is taken for a part of the next.
`ProgressInv` and `IdleInv`: no domain is left in a progress status, and between two
activities nothing is left to do.

`Undisturbed` is a hypothesis because the code does not ensure it, and without it
the barrier and the order are false (section 5, stale commands). It is not empty: `FirstActivityUndisturbed`
(`SpecActivity => [](activity <= 1 => Undisturbed)`) shows that it holds until a second
desired state is applied, so it always holds in the runs with one activity. It
also holds in later ones in which the goroutines of the one before have had the lock, which
`activity_prompt` checks.

`OwnerConsentProofs`, on top of `OrderInvariant`:

- `ConsentBeforeCommandHolds` and `NoProgressAfterRefusalHolds`, for `[]Undisturbed` and
  `Once \/ Single`: answers are not delivered twice, or at most one command needs
  consent. Otherwise the second answer serves the next question (section 5, copied
  answers). `NoProgressAfterRefusal` needs `Undisturbed`; of `ConsentBeforeCommand` TLC finds
  no violation without it, as a stale goroutine asks again, but the proof uses it.
- `FirstActivityConsented`: the former in the first activity.

An answer does not name its command, so that the right command gets it is a property of
everything on the way. `ConsentInv` follows the questions: one that is still to be asked
has left no trace (`FreshInv`); an answer says what the owner said (`AnswerInv`) and there
is one of each (`UniqueInv`), put into the channel by the owner alone (`SendInv`); the one
in the channel is to the question last asked (`ConsultInv`); nothing of a phase begins
before its question is done with (`DoneInv`), and no question is asked while a command of
an earlier phase is still being issued (`PassedInv`).

`OutcomeProofs`, on top of `OrderInvariant`:

- `CompletedOnlyIfNoneFailedHolds`, for `[]Undisturbed` and `"publish" \notin Faults`, with
  any timeouts, duplicates, refusals and termination. With failing publishes it is false
  (section 5). `FirstActivityCompletes` needs `activity <= 1` instead of `Undisturbed`.

When a domain fails, nothing is noted: the report is still on its way, and may be
dropped, as the handlers accept it from one status only. That the activity does not
complete meanwhile is what `OutcomeInv` shows, in parts. `TurnInv` and `OnceInv`: each
step (identification, then the phases) is requested of a domain once and answered by it
once, whatever copies the broker delivers. `PlaceInv`: until then the domain has the
status the step is taken from. `FailedInv`: so a domain that failed is `stuck` there until
its report sets `delayedStatus`, because nothing on its way could move it, and nothing
will be requested of it. `AsideInv` and `IntactInv`: while `delayedStatus` is not set, only
domains that were activated are cleaned up, and none is rolled back, so no other report
finishes a stuck domain. `FinishInv`: `COMPLETED` is decided when every domain has
finished, hence none is stuck, and then nothing more can fail. `LastInv` and `SentInv` are
about the lock holder and the desired state.

`ConclusionProofs`, on top of `OutcomeInvariant`, all for `[]Undisturbed` and
`"publish" \notin Faults`; each has a sibling `FirstActivity...` that needs `activity <= 1`
instead of `Undisturbed`:

- `FinalFeedbackIsFinalHolds`, `CommandsOverHolds` and `ReportsOverHolds`, for
  `Unhurried`: no phase times out, the process is not terminated, and the owner is not asked
  about `ACTIVATE`. Duplicates, failures, refusals of `DOWNLOAD` and `UPDATE` and timeouts of
  requests for consent are allowed.
  `CommandsOver` and `ReportsOver` say without exception that nothing is commanded, and
  nothing reported, after the final feedback; `NoCommandAfterFinalHolds` and
  `FinalReportStandsHolds` follow.
- `RefusalRollsBackHolds`, for `Unhurried` and `Once \/ Single`, as in `OwnerConsentProofs`,
  and `HeardRefusalRollsBackHolds` with it.
- `SuccessCompletesHolds`, for `Unhurried` and an owner who answers in time
  (`"consentTimeout" \notin Faults`): a request for consent that times out counts as a
  refusal in the code, though not in `refused`.
- `SenderNeverBlockedHolds`, for `Once` only: with timeouts, termination and consent for any
  command.

Each hypothesis excludes behaviours in which what is proved is false. Without `Unhurried` an
activity ends while agents are at work: the status may be `RUNNING` (finding 1), a refusal is not
heard, and reports and a rollback come after the final feedback (section 5); agents
and an owner that answer at once do not prevent it, as the phase timer also fires when router and
lock holder wait for each other. Without `Once` the copy of an answer serves another question,
and the copy of a report makes the lock holder signal twice (both in section 5).

Nothing looks at an activity as a whole when it ends: `Apply` takes a signal that a handler
sent when the last domain changed, and everything else must have come to rest by itself.
`ConclusionInv` follows that from the beginning. `LevelInv` and `CleanInv`: a phase is
begun with, and a domain rolled back or cleaned up, only after the activity has come that far.
`OfferInv`: when a phase is signalled, or its goroutine or question is on its way, some domain
is up for it. `BackInv`: once a rollback is signalled no phase is begun any more.
`FirstInv`, `WorthInv`, `LateInv`: until the first command is issued no domain has begun;
`false` is signalled for `DOWNLOAD` only; a refusal of `UPDATE` finds `Apply` where it waits
for `ACTIVATE`. `InertInv`: from the first signal that tells `Apply` to end every domain has
finished or was never asked for anything, no phase is announced, and no step changes that
(`Inert`). `EndInv` and `FinalInv`: whoever sends that signal has set the status before, and
nobody sets it back or reports `RUNNING` after it. `ReportedInv`: a final status is reported
at the end only.

For `RefusalRollsBack`, `RefusalInv` adds that a refusal leaves a mark (`RefusedInv`): a
refused `DOWNLOAD` ends the activity `INCOMPLETE` there and then (`declined`), a refused `UPDATE`
sets `delayedStatus`, and with that an activity does not complete (`CompleteInv`). That
no domain is left with its update is `Inert`. For `SuccessCompletes`, `BlameInv` follows
everything by which an activity can fail back to a report of failure or a refusal:
`HomeInv` (a message of an agent is about its own domain), `SequelInv` (an overall result is on
its way only when the cleanup of its domain has been reported before it, so it finds the
domain finished), `DenialInv` (a refusal in the channel was given by the owner), `Blameless`
(as long as there is neither, no status of a failure is set or about to be).

For `SenderNeverBlocked`, `RoomInv` says that what the lock holder sends, it sends once, to an
empty channel. A channel is written by handlers that decide that a step is complete, so the
question is whether any step can be found complete twice. `HeardInv`: an identification is
reported once. `IdentifyInv`: until that report is handled, the domain is `IDENTIFYING`.
`AnnouncedInv`: once a phase is signalled, no domain is in a status from which a report could
complete the one before it again, and once the end is signalled, no report changes
anything. `NilInv`: the `nil` channels of an operation without domains are not sent to.

`UpdateAgentProofs`, from `AgentAssumption`:

- `AgentTypeCorrect`, and `EndsBeforeDisconnectHolds` from `LockInv`: `clientLock` is held
  exactly by the goroutine whose activity is under way.
- `OwnProgressHolds`, `QuietAfterEndHolds`, `HeldBackHasTimerHolds`, for a notifier with an
  interval (`Interval`) and an orchestrator that reports nothing after its final feedback
  (`~LateReports`): as in the runs, and false without. `NotifierInv`: a timer that runs
  belongs to the activity under way, and what it does not hold back was published;
  `ProgressInv`: an activity begins without progress.

`CurrentStateProofs`, for all domains, changes, requests and faults:

- `StateTypeCorrect`, and `ChannelOutlivesSenderHolds` from `ChannelInv`: a `Get` that is
  waiting holds `managerLock`, and there is a channel as long as a request is expected to
  be answered.
- `KnownNeverGoesBackHolds` from `OrderInv`: timestamps order the states of a domain in
  everything on its way, whatever comes late or twice, and what is known is not newer
  than what is on its way with a later timestamp.
- `AnswersAreCurrentHolds`: `SpecState /\ []routerDelivers => []AnswersAreCurrent`. A request
  is answered with what was installed when it began, or later: only a request that has
  begun is sent or waited for (`BegunInv`), what an agent sends for it and the update
  manager of the domain hands over is as current as that (`AnsweredInv`), and so is what
  has been collected (`CollectedInv`). `routerDelivers` says that the router goroutine is
  occupied neither by a request of the backend nor by a feedback that waits for the
  orchestrator; without it the property is false (`stale_answer`, and the last
  observation about the router in section 5). `OwnGoroutinesAreCurrent` needs no such
  hypothesis if there are no requests of the backend and no commands.

`ThingsClientProofs`, from `ThingsAssumption`:

- `ThingsTypeCorrect`, with `RouterInv`: clients and features are made in step, and
  there is a current feature whenever one is used.
- `OneAnswerPerRequestHolds` and `AnswerOfRequestHolds`, from `ConsentInv`. Neither is
  inductive: an answer passes from the inbox (`AnswersInv`) to a goroutine (`ForwardedInv`)
  and a channel (`ChannelInv`), and at each place the invariant says for which requests of
  the activity there can still be one. `CorrelationInv`: a correlation id is that of one
  feature and of a request without an answer. `AcceptedInv`: requests not yet sent have
  none.
- `OperationsOfTheThingHolds`, from `ConfigInv`. `AppliedInv`: nothing is active, and one
  connect handler at most is running, before a configuration counts as applied.
  `RevivedInv`: the only active feature is the current one, unless a late connect handler
  activated another.
- `OwnerIsHeardHolds`, from `RouteInv` (commands are routed to no feature that was given
  up) and `HeardInv`: while the feature asked through is current, the request in progress
  is the one it expects an answer to, and no answer to an earlier one clears it.
- `ConfigurationAppliedHolds`, from `SmoothInv`: if nothing has failed, feature, Ditto
  client and the edge's last configuration agree at every point of `handleEdgeResponse`
  (`ThingInv`, `DeviceInv`), and a feature that is not active yet has a connect handler on
  its way (`ConnectedInv`).

Only model-checked: liveness, which is out of the prover's reach (`Terminates`,
`GetReturns`, `QuietChangeReported`, `CommandGetsThrough`, `EveryRequestApplied`), and what
holds in spite of timers. The theorems of `ConclusionProofs` assume that no phase times out;
that `FinalFeedbackIsFinal`, `SuccessCompletes`, `HeardRefusalRollsBack`, `NoCommandAfterFinal`
and `FinalReportStands` hold when phases and requests for consent time out in settled states is
shown by `activity_prompt` only, that `CompletedStands` holds with any timer by
`activity_faults`, that `Undisturbed` holds with a second activity by `activity_prompt`. A proof
would need an invariant that says of every settled state how the activity came to it.
Every other invariant and action property the runs check is stated by a theorem under the
hypotheses named above.

## 5. Where code and documentation differ

Each of the first three is a run that must fail.

1. `refused_activation` (`apply.go:81`). The rollback signal of a refused `ACTIVATE`
   arrives when `Apply` waits for `CLEANUP` or the end and is taken for that
   signal. `Apply` returns without waiting for the rollback, and the final feedback
   is `RUNNING`.
2. `publish_failure` (`updatem/domain/update_manager.go:105`). A command that
   cannot be published is reported by a callback that waits for the lock its caller
   holds. The phase timer ends the wait of `Apply`, which publishes its final feedback
   and then waits for that lock for ever in `disposeUpdateOperation`.
3. `stale_answer` (`mqtt/update_agent_client.go:224`). A request of the backend
   occupies the router goroutine that would have to deliver the agents' answers: it
   always takes `readTimeout` and returns what was known before.

Further observations, each reproduced with the models by changing the constants
named, and kept out of the runs:

- Stale commands (`apply.go:95`). A command goroutine that gets `operationLock` only after
  its activity has ended and the next has begun acts in that one: it looks at `operation`,
  not at whose it is. It commands `DOWNLOAD` while a domain is still identifying
  (`UpdateActivity`, `CommandsInOrder` with two domains, two activities, no consent,
  `Faults = {"phaseTimeout"}`, `Prompt = FALSE`). With consent for `UPDATE` it asks the owner
  in the middle of the identification, and the activity goes on to `DOWNLOAD` after a refusal
  (`NoProgressAfterRefusal`, one domain is enough).
- Unheard refusals (`apply.go:162`). The consent is awaited with `operationLock` held. A domain
  that failed `DOWNLOAD` reports its cleanup, the router waits for the lock with it and cannot
  deliver the owner's refusal of `UPDATE`. The phase times out first (10 minutes by default,
  the consent 30): `INCOMPLETE` is reported while the other domain is left with its download,
  where `docs/owner-consent-specification.md` line 2 has denied updates rolled back.
  (`RefusalRollsBack` with two domains, consent for `UPDATE`, `Faults = {"phaseTimeout"}`,
  `Prompt = TRUE`.)
- Copied answers (`update_orchestrator.go:92`). An answer names no command, and the channel is
  not emptied before the next question: a copy of the approval of `DOWNLOAD` answers the
  question about `UPDATE` (`ConsentBeforeCommand` with one domain, consent for both,
  `MaxDuplicates = 1`, no faults). An update the owner then refuses can be `COMPLETED`, the
  refusal still on its way (`RefusalRollsBack` with the same constants).
- A desired state whose acknowledgement is lost, though the agent got it
  (`updatem/domain/update_manager.go:80`): the callback waits for `operationLock` with
  `managerLock` held, while the goroutine of `DOWNLOAD` holds `operationLock` and waits for
  `managerLock` to command the agent. The activity does not end
  (`(\E d \in Domains : applying[d] = "failed") ~> (pc = "idle")` under `FairSpecActivity`, with
  the constants of `publish_failure`).
- A desired state that could not be sent to one domain is forgotten if the other domain
  has no actions: `handleDomainIdentified` reports `COMPLETED` (`feedback.go:118`),
  where `docs/desired-state-feedback-specification.md` line 134 asks for all of them to
  have completed. (`UpdateActivity`, `CompletedOnlyIfNoneFailed` with `Prompt`, no
  consent, `Faults = {"phaseTimeout", "publish"}`.)
- A domain that succeeds in a phase *before* another fails in it is commanded no
  further and not rolled back: only the success handlers look for the end of the
  phase (`feedback.go:185`). The activity ends by its timeout. (`UpdateActivity`,
  two domains, a success followed by a failure.)
- A feedback handled between the final feedback and `disposeUpdateOperation` may
  report `RUNNING` after the end when a phase has timed out (`FinalReportStands` without its
  exception for `INCOMPLETE`, in `activity_prompt`), and the lock holder whose question timed
  out last commands a rollback then. `RUNNING` sets the notifier of the ended activity, and the
  progress of the next activity is published under the old name until the timer
  fires (`OwnProgress` with `LateReports = TRUE`).
- The notifier's timer may fire between the final feedback and the stop of the
  notifier: `RUNNING` is the last feedback (`callback_desired_state_feedback.go:24-33`).
- A domain without actions is `CLEANUP_SUCCESS` once it is identified, and
  `checkIdentificationStatus` accepts the report again (`feedback.go:399-414`). If it is
  delivered twice and another domain could not be identified, `errChan` is sent to twice:
  the router then waits for `Apply` with `operationLock` held. (`SenderNeverBlocked` with two
  domains, no consent and `MaxDuplicates = 1`.)
- `errChan` may also be sent to when `Apply` has given up, and then again by the next handler
  that finds a failure: the second waits with `operationLock` held, and `Apply` for that lock
  (`SenderNeverBlocked` with two domains, no consent, `Faults = {"phaseTimeout", "publish"}` and
  `Prompt = FALSE`).
- Two replies to the same request for the current state block the router for ever
  (`GetReturns` with `MaxDuplicates = 1`): the second waits for `receiveChan` while
  it holds the lock that `Get` needs to leave.
- A change that is notified between the reading of the current state and the stop of
  the notifier in `HandleCurrentStateGet` is never published (`agent.go:137-141`);
  `QuietChangeReported` therefore speaks of changes after the requests.
- A second desired state waits for `clientLock` until the first has ended and is
  then applied. The rejection in `checkIfInProgress`, which
  `TestApplyDesiredStateWhileInProgress` expects of the aggregated manager, is never
  reached through the update agent: `Reject` is modelled, and never happens
  (`EveryRequestApplied`).
- A desired state without a supported domain is answered `INCOMPLETE` with an empty
  activity, as `setupUpdateOperation` replaces the operation by one without
  (`Start` of `UpdateAgent`).
- The answer to a request for the current state arrives too late if the router is held up
  by a feedback, which waits for a command, which waits for that request
  (`AnswersAreCurrent` with `Getters = {"initial"}` and `MaxCommands = 1`).

And of the digital twin clients:

- The consent handler is set on the feature that is current when consent is asked for
  (`owner_consent_things_client.go:48`). If the configuration changes meanwhile, the
  new feature has none and refuses the answer; the consent times out. (`OwnerIsHeard`
  without `via = umFeature` in `rejected`.)
- When the new Ditto client cannot be made or connected, `edgeConfig` still names the
  old configuration, whose feature has been deactivated
  (`update_agent_things_client.go:107-117`): if the edge reports the old one again, it
  is ignored and nothing is active. If it could not be made, the next different
  configuration dereferences the `nil` client in line 92. (`ConfigurationApplied` without
  `faults = 0`.)
- A connect handler that runs late activates the feature that is current by then, or
  one that was current and has been given up since it read it; such a feature stays
  active (`revived`). After `Stop` it uses a handler that is `nil` (line 103).
- After a reconnection `onConnect` only renews the subscription to edge responses. If the
  configuration is unchanged, `handleEdgeResponse` does nothing and the commands of the
  twin are no longer subscribed to, as sessions are clean (`ConfigurationApplied` without
  `counters["connect"] > 1`).
- While no feature is active, feedback, current states and requests for consent are
  dropped without an error; before the first edge response `umFeature` is `nil`.

## 6. Not modelled

- Data races that would end the process: `orchestrator.operation` read without a
  lock by the goroutines of `Identify` and by `HandleOwnerConsentFeedback`, the maps
  of `Get`. Listed as hazards.
- Topics, envelopes, JSON, configuration, logging, TLS: plain data and I/O.
- The reboot: a system call after the decision, which is modelled.
- Reconnection to the broker in `CurrentState`: every connection starts the initial
  request anew; the model has one. `ThingsClient` has reconnections.
- The helpers of `api/types` and `api/util` (split by domain, join inventories): straight
  loops without state, for which a unit test says as much as a model would.
- The other end of the owner consent protocol (`owner_consent_agent_client .go`): the
  owner is part of the environment of `UpdateActivity` and `ThingsClient`.

## 7. Plan

Done: the modules of section 2 with their runs, the refinement of
`ActivityLifecycle` and the theorems of section 4. Left:

1. Reconnection of the update agent client (`mqtt/update_agent_client.go`), which starts
   the initial request of `CurrentState` once more, and its composition with `UpdateAgent`:
   both answer on the same router goroutine.
2. The theorems of `ConclusionProofs` for timers that fire in settled states (`Prompt`): which
   states those are, and how an activity comes to them.
