----------------------------- MODULE CurrentState -----------------------------
(***************************************************************************)
(* How the current state of the device is collected and reported: the      *)
(* domain update managers (Get, HandleCurrentState), the aggregated update *)
(* manager, the update agent with its delayed notifier, and the router     *)
(* goroutine of the MQTT client, which all messages come in on.  Of an     *)
(* update activity there is what gets in the way: the commands of the      *)
(* orchestrator take managerLock as well, and feedback that waits for      *)
(* operationLock keeps the router.                                         *)
(*                                                                         *)
(* A state of a domain is a version: 1, 2, ... as the domain changes, and  *)
(* 0 while none is known.                                                  *)
(***************************************************************************)
EXTENDS Naturals, Sequences

CONSTANTS
    Domains,        \* the configured domains
    Getters,        \* who asks for the current state, each once: a subset of AllGetters
    Delayed,        \* currentStateReportDelay > 0
    MaxVersion,     \* bound: how far the state of a domain changes
    MaxDuplicates,  \* bound: how many messages are delivered twice (QoS 1)
    MaxCommands,    \* bound: how many commands an activity issues to the domains
    StateFaults     \* what may go wrong: a subset of AllStateFaults

AllGetters ==
    {"initial",  \* the goroutine started when the client connects
     "backend",  \* a request of the backend, handled by the router itself
     "apply"}    \* the end of an update activity

AllStateFaults ==
    {"publish",     \* an MQTT publish (or its acknowledgement) fails
     "terminate"}   \* the context of the process is cancelled

None == ""   \* no activity

ASSUME CurrentStateAssumption ==
    /\ Getters \subseteq AllGetters
    /\ Delayed \in BOOLEAN
    /\ MaxVersion \in Nat \ {0} /\ MaxDuplicates \in Nat /\ MaxCommands \in Nat
    /\ StateFaults \subseteq AllStateFaults

VARIABLES
    installed,         \* the state of each domain, known to its agent
    requests,          \* requests[d]: published to the agent of d
    messages,          \* messages[d]: current states from the agent of d for the router
    clock,             \* clock[d]: the timestamp of the last message of the agent
    duplicates,        \* how many messages were delivered twice
    terminated,        \* ctx.Done() is closed
    commands,          \* domains still to be commanded by the holder of operationLock
    issued,            \* how many commands have been issued to all domains
    feedback,          \* HandleDesiredStateFeedback waits for operationLock, on the router
    managerLock,       \* managerLock[d]: whose Get holds it, or "free"
    waiting,           \* waiting[d]: that Get waits for the answer
    expActivityID,     \* expActivityID[d]: whose request is expected to be answered, or None
    receiveChan,       \* receiveChan[d]: "nil", "empty" or "full"
    inventory,         \* inventory[d] of the domain update manager
    timestamp,         \* timestamp[d] of it
    sending,           \* domains whose HandleCurrentState still has to send to receiveChan;
                       \* it holds currentStateLock and the router meanwhile
    domainsInventory,  \* of the aggregated update manager
    getter,            \* getter[g]: what the request of g has come to
    open,              \* open[g]: the domains whose Get has not returned
    collected,         \* collected[g]: the inventories of its Get
    timer,             \* internalTimer # nil
    currentState,      \* of the notifier: what the timer is to publish
    published,         \* history: the current state last published
    asOf,              \* history: asOf[g]: what was installed when g asked
    excused            \* history: requests an agent did not get or did not answer in time

agentVars == <<installed, requests, messages, clock, duplicates, terminated>>
domainVars == <<managerLock, waiting, expActivityID, receiveChan, inventory, timestamp, sending>>
commandVars == <<commands, issued, feedback>>
managerVars == <<domainsInventory, getter, open, collected, asOf, excused>>
reportVars == <<timer, currentState, published>>
stateVars == <<agentVars, commandVars, domainVars, managerVars, reportVars>>

Version == 0..MaxVersion
Inventory == [Domains -> Version]
Unknown == [d \in Domains |-> 0]

StateMessage == [id : Getters \cup {None}, version : Version, time : Nat]

TypeOKState ==
    /\ installed \in Inventory
    /\ requests \in [Domains -> Seq(Getters)]
    /\ messages \in [Domains -> Seq(StateMessage)]
    /\ clock \in [Domains -> Nat]
    /\ duplicates \in 0..MaxDuplicates
    /\ terminated \in BOOLEAN
    /\ commands \subseteq Domains
    /\ issued \in 0..MaxCommands
    /\ feedback \in BOOLEAN
    /\ managerLock \in [Domains -> Getters \cup {"free"}]
    /\ waiting \in [Domains -> BOOLEAN]
    /\ expActivityID \in [Domains -> Getters \cup {None}]
    /\ receiveChan \in [Domains -> {"nil", "empty", "full"}]
    /\ \A d \in Domains : receiveChan[d] = "nil" <=> managerLock[d] = "free"
    /\ inventory \in Inventory
    /\ timestamp \in [Domains -> Nat]
    /\ sending \subseteq Domains
    /\ domainsInventory \in Inventory
    /\ getter \in [Getters -> {"idle", "collecting", "reporting", "done"}]
    /\ open \in [Getters -> SUBSET Domains]
    /\ collected \in [Getters -> Inventory]
    /\ timer \in BOOLEAN
    /\ currentState \in Inventory
    /\ published \in Inventory
    /\ asOf \in [Getters -> Inventory]
    /\ excused \subseteq Getters

InitState ==
    /\ installed = [d \in Domains |-> 1]
    /\ requests = [d \in Domains |-> <<>>]
    /\ messages = [d \in Domains |-> <<>>]
    /\ clock = [d \in Domains |-> 0]
    /\ duplicates = 0
    /\ terminated = FALSE
    /\ commands = {}
    /\ issued = 0
    /\ feedback = FALSE
    /\ managerLock = [d \in Domains |-> "free"]
    /\ waiting = [d \in Domains |-> FALSE]
    /\ expActivityID = [d \in Domains |-> None]
    /\ receiveChan = [d \in Domains |-> "nil"]
    /\ inventory = Unknown
    /\ timestamp = [d \in Domains |-> 0]
    /\ sending = {}
    /\ domainsInventory = Unknown
    /\ getter = [g \in Getters |-> "idle"]
    /\ open = [g \in Getters |-> {}]
    /\ collected = [g \in Getters |-> Unknown]
    /\ timer = FALSE
    /\ currentState = Unknown
    /\ published = Unknown
    /\ asOf = [g \in Getters |-> Unknown]
    /\ excused = {}

-----------------------------------------------------------------------------
(* The agents *)

\* WatchEvents subscribes to the topics of the agents in the first request
subscribed == "initial" \in Getters => getter["initial"] # "idle"

ReportState(d, id) ==
    /\ clock' = [clock EXCEPT ![d] = @ + 1]
    /\ messages' = IF ~subscribed THEN messages
                   ELSE [messages EXCEPT ![d] =
                           Append(@, [id |-> id, version |-> installed'[d], time |-> clock'[d]])]

StateChanges(d) ==
    /\ installed[d] < MaxVersion
    /\ installed' = [installed EXCEPT ![d] = @ + 1]
    /\ ReportState(d, None)
    /\ UNCHANGED <<requests, duplicates, terminated, commandVars, domainVars, managerVars, reportVars>>

AgentReplies(d) ==
    /\ requests[d] # <<>>
    /\ requests' = [requests EXCEPT ![d] = Tail(@)]
    /\ UNCHANGED installed
    /\ ReportState(d, Head(requests[d]))
    /\ UNCHANGED <<duplicates, terminated, commandVars, domainVars, managerVars, reportVars>>

-----------------------------------------------------------------------------
(* The current state of all domains: Get of the aggregated update manager *)

\* the request of the backend is handled by the router goroutine, to the end
routerGets == "backend" \in Getters /\ getter["backend"] \in {"collecting", "reporting"}
routerFree == sending = {} /\ ~routerGets /\ ~feedback

\* HandleCurrentStateGet, or the end of Apply, which had to hear from the agents
\* and to get operationLock
Get(g) ==
    /\ getter[g] = "idle"
    /\ g = "backend" => routerFree
    /\ g = "apply" => subscribed /\ commands = {}
    /\ getter' = [getter EXCEPT ![g] = "collecting"]
    /\ open' = [open EXCEPT ![g] = Domains]
    /\ collected' = [collected EXCEPT ![g] = domainsInventory]
    /\ asOf' = [asOf EXCEPT ![g] = installed]
    /\ UNCHANGED <<domainsInventory, excused, agentVars, commandVars, domainVars, reportVars>>

\* Get of the domain update manager: the request is sent ...
SendCurrentStateGet(g, d) ==
    /\ d \in open[g]
    /\ managerLock[d] = "free"
    /\ d \notin sending
    /\ managerLock' = [managerLock EXCEPT ![d] = g]
    /\ expActivityID' = [expActivityID EXCEPT ![d] = g]
    /\ receiveChan' = [receiveChan EXCEPT ![d] = "empty"]
    /\ \/ /\ requests' = [requests EXCEPT ![d] = Append(@, g)]
          /\ waiting' = [waiting EXCEPT ![d] = TRUE]
          /\ UNCHANGED excused
       \/ /\ "publish" \in StateFaults
          /\ \/ requests' = [requests EXCEPT ![d] = Append(@, g)]
             \/ UNCHANGED requests
          /\ excused' = excused \cup {g}
          /\ UNCHANGED waiting
    /\ UNCHANGED <<installed, messages, clock, duplicates, terminated, commandVars, inventory, timestamp, sending,
                   domainsInventory, getter, open, collected, asOf, reportVars>>

\* (mutant) only domains known before are brought up to date
takeInventoryKnown(d) ==
    collected' = IF inventory[d] = 0 \/ collected[managerLock[d]][d] = 0 THEN collected
                 ELSE [collected EXCEPT ![managerLock[d]][d] = inventory[d]]

\* ... and the answer awaited; a result that is known replaces the one collected
takeInventory(d) ==
    collected' = IF inventory[d] = 0 THEN collected
                 ELSE [collected EXCEPT ![managerLock[d]][d] = inventory[d]]

ReceiveReply(d) ==
    /\ waiting[d]
    /\ receiveChan[d] = "full"
    /\ receiveChan' = [receiveChan EXCEPT ![d] = "empty"]
    /\ waiting' = [waiting EXCEPT ![d] = FALSE]
    /\ takeInventory(d)
    /\ UNCHANGED <<managerLock, expActivityID, inventory, timestamp, sending,
                   domainsInventory, getter, open, asOf, excused, agentVars, commandVars, reportVars>>

\* (mutant) there is no read timeout
ReadTimeoutNever(d) == FALSE /\ waiting[d]

\* the agent of d has answered, but the router waits, and be it for that very answer
answeredInVain(d) == requests[d] = <<>> /\ messages[d] # <<>> /\ (routerGets \/ feedback)

ReadTimeout(d) ==
    /\ waiting[d]
    /\ waiting' = [waiting EXCEPT ![d] = FALSE]
    /\ takeInventory(d)
    /\ excused' = IF answeredInVain(d) THEN excused ELSE excused \cup {managerLock[d]}
    /\ UNCHANGED <<managerLock, expActivityID, receiveChan, inventory, timestamp, sending,
                   domainsInventory, getter, open, asOf, agentVars, commandVars, reportVars>>

GetCancelled(d) ==
    /\ waiting[d]
    /\ terminated
    /\ waiting' = [waiting EXCEPT ![d] = FALSE]
    /\ excused' = excused \cup {managerLock[d]}
    /\ UNCHANGED <<managerLock, expActivityID, receiveChan, inventory, timestamp, sending,
                   domainsInventory, getter, open, collected, asOf, agentVars, commandVars, reportVars>>

leaveUnchanged == UNCHANGED <<waiting, inventory, timestamp, sending, domainsInventory, getter,
                              collected, asOf, excused, agentVars, commandVars, reportVars>>

\* (mutants) the request is not forgotten; ... and without currentStateLock
LeaveGetExpecting(d) ==
    /\ managerLock[d] # "free"
    /\ ~waiting[d]
    /\ d \notin sending
    /\ managerLock' = [managerLock EXCEPT ![d] = "free"]
    /\ open' = [open EXCEPT ![managerLock[d]] = @ \ {d}]
    /\ UNCHANGED <<expActivityID, receiveChan>>
    /\ leaveUnchanged

LeaveGetUnlocked(d) ==
    /\ managerLock[d] # "free"
    /\ ~waiting[d]
    /\ expActivityID' = [expActivityID EXCEPT ![d] = None]
    /\ receiveChan' = [receiveChan EXCEPT ![d] = "nil"]
    /\ managerLock' = [managerLock EXCEPT ![d] = "free"]
    /\ open' = [open EXCEPT ![managerLock[d]] = @ \ {d}]
    /\ leaveUnchanged

\* the deferred setCurrentStateActivityID(""), under currentStateLock
LeaveGet(d) ==
    /\ managerLock[d] # "free"
    /\ ~waiting[d]
    /\ d \notin sending
    /\ expActivityID' = [expActivityID EXCEPT ![d] = None]
    /\ receiveChan' = [receiveChan EXCEPT ![d] = "nil"]
    /\ managerLock' = [managerLock EXCEPT ![d] = "free"]
    /\ open' = [open EXCEPT ![managerLock[d]] = @ \ {d}]
    /\ leaveUnchanged

-----------------------------------------------------------------------------
(* HandleCurrentState, on the router goroutine *)

\* a publish of the current state; a failed one is only logged, but the backend may have got it
Publish(state) ==
    \/ published' = state
    \/ "publish" \in StateFaults /\ UNCHANGED published

\* (mutant) a notifier whose timer runs keeps the state it was set to first
NotifyLaterFirst(state) ==
    /\ currentState' = IF timer THEN currentState ELSE state
    /\ timer' = TRUE

\* set of the notifier
NotifyLater(state) ==
    /\ currentState' = state
    /\ timer' = TRUE

\* HandleCurrentStateEvent of the update agent for a state nobody asked for
ReportChange(state) ==
    IF Delayed
    THEN NotifyLater(state) /\ UNCHANGED published
    ELSE Publish(state) /\ UNCHANGED <<timer, currentState>>

\* (mutant) messages are not checked for their age
OutdatedNever(d, m) == inventory[d] # inventory[d]

Outdated(d, m) == inventory[d] # 0 /\ m.time < timestamp[d]

TakeMessage(d) ==
    \/ messages' = [messages EXCEPT ![d] = Tail(@)] /\ UNCHANGED duplicates
    \/ /\ duplicates < MaxDuplicates
       /\ duplicates' = duplicates + 1
       /\ \/ UNCHANGED messages
          \/ messages' = [messages EXCEPT ![d] = Append(Tail(@), Head(@))]

KnowState(d, m) ==
    /\ inventory' = [inventory EXCEPT ![d] = m.version]
    /\ timestamp' = [timestamp EXCEPT ![d] = m.time]
    /\ domainsInventory' = [domainsInventory EXCEPT ![d] = m.version]

HandleCurrentState(d) ==
    /\ routerFree
    /\ messages[d] # <<>>
    /\ TakeMessage(d)
    /\ LET m == Head(messages[d])
       IN  \/ /\ Outdated(d, m)
              /\ UNCHANGED <<inventory, timestamp, sending, domainsInventory, reportVars>>
           \/ /\ ~Outdated(d, m)
              /\ KnowState(d, m)
              /\ IF m.id = None THEN ReportChange(domainsInventory') ELSE UNCHANGED reportVars
              /\ sending' = IF m.id # None /\ m.id = expActivityID[d] THEN {d} ELSE {}
    /\ UNCHANGED <<installed, requests, clock, terminated, commandVars, managerLock, waiting, expActivityID,
                   receiveChan, getter, open, collected, asOf, excused>>

\* its last step may have to wait: receiveChan holds one answer
SendReply(d) ==
    /\ d \in sending
    /\ receiveChan[d] = "empty"
    /\ receiveChan' = [receiveChan EXCEPT ![d] = "full"]
    /\ sending' = {}
    /\ UNCHANGED <<managerLock, waiting, expActivityID, inventory, timestamp, agentVars, commandVars, managerVars,
                   reportVars>>

-----------------------------------------------------------------------------
(* Reporting *)

\* stop of the notifier
stopNotifier ==
    /\ timer' = FALSE
    /\ currentState' = Unknown

collectedAll(g) == getter[g] = "collecting" /\ open[g] = {}

\* HandleCurrentStateGet stops the notifier, whatever it was to publish ...
StopNotifier(g) ==
    /\ g # "apply"
    /\ collectedAll(g)
    /\ getter' = [getter EXCEPT ![g] = "reporting"]
    /\ stopNotifier
    /\ UNCHANGED <<published, domainsInventory, open, collected, asOf, excused, agentVars, commandVars, domainVars>>

\* ... and publishes what it collected
SendCurrentState(g) ==
    /\ getter[g] = "reporting"
    /\ getter' = [getter EXCEPT ![g] = "done"]
    /\ Publish(collected[g])
    /\ UNCHANGED <<timer, currentState, domainsInventory, open, collected, asOf, excused, agentVars, commandVars, domainVars>>

\* the end of Apply does both in HandleCurrentStateEvent, under currentStateLock
ReportApplied ==
    /\ "apply" \in Getters
    /\ collectedAll("apply")
    /\ getter' = [getter EXCEPT !["apply"] = "done"]
    /\ Publish(collected["apply"])
    /\ IF Delayed THEN stopNotifier ELSE UNCHANGED <<timer, currentState>>
    /\ UNCHANGED <<domainsInventory, open, collected, asOf, excused, agentVars, commandVars, domainVars>>

\* the timer of the notifier
NotifyEvent ==
    /\ timer
    /\ timer' = FALSE
    /\ Publish(currentState)
    /\ UNCHANGED <<currentState, agentVars, commandVars, domainVars, managerVars>>

CancelContext ==
    /\ "terminate" \in StateFaults
    /\ ~terminated
    /\ terminated' = TRUE
    /\ UNCHANGED <<installed, requests, messages, clock, duplicates, commandVars, domainVars, managerVars, reportVars>>

-----------------------------------------------------------------------------
(* Commands and feedback of an update activity *)

commandUnchanged == UNCHANGED <<agentVars, domainVars, managerVars, reportVars>>

\* handleCommandSignal takes operationLock, and commands domain after domain
HandleCommandSignal ==
    /\ commands = {}
    /\ issued < MaxCommands
    /\ "apply" \in Getters => getter["apply"] = "idle"
    /\ issued' = issued + 1
    /\ commands' = Domains
    /\ UNCHANGED feedback
    /\ commandUnchanged

\* Command of the domain update manager needs managerLock
Command(d) ==
    /\ d \in commands
    /\ managerLock[d] = "free"
    /\ commands' = commands \ {d}
    /\ UNCHANGED <<issued, feedback>>
    /\ commandUnchanged

\* HandleDesiredStateFeedback needs operationLock
ReceiveFeedback ==
    /\ routerFree
    /\ commands # {}
    /\ feedback' = TRUE
    /\ UNCHANGED <<commands, issued>>
    /\ commandUnchanged

HandleDesiredStateFeedback ==
    /\ feedback
    /\ commands = {}
    /\ feedback' = FALSE
    /\ UNCHANGED <<commands, issued>>
    /\ commandUnchanged

-----------------------------------------------------------------------------
ReportStep ==
    \/ NotifyEvent
    \/ ReportApplied
    \/ \E g \in Getters : StopNotifier(g) \/ SendCurrentState(g)

GetStep(d) ==
    \/ ReceiveReply(d)
    \/ GetCancelled(d)
    \/ LeaveGet(d)
    \/ \E g \in Getters : SendCurrentStateGet(g, d)

NextState ==
    \/ ReportStep
    \/ CancelContext
    \/ HandleCommandSignal
    \/ ReceiveFeedback
    \/ HandleDesiredStateFeedback
    \/ \E g \in Getters : Get(g)
    \/ \E d \in Domains :
         \/ StateChanges(d)
         \/ AgentReplies(d)
         \/ GetStep(d)
         \/ ReadTimeout(d)
         \/ HandleCurrentState(d)
         \/ SendReply(d)
         \/ Command(d)

SpecState == InitState /\ [][NextState]_stateVars

\* the goroutines run, the router delivers and the timers fire; agents may be silent
FairnessState ==
    /\ WF_stateVars(NotifyEvent)
    /\ WF_stateVars(ReportApplied)
    /\ WF_stateVars(HandleDesiredStateFeedback)
    /\ \A g \in Getters : WF_stateVars(StopNotifier(g)) /\ WF_stateVars(SendCurrentState(g))
    /\ \A d \in Domains :
         /\ WF_stateVars(ReceiveReply(d) \/ GetCancelled(d) \/ LeaveGet(d))
         /\ WF_stateVars(ReadTimeout(d))
         /\ WF_stateVars(HandleCurrentState(d))
         /\ WF_stateVars(SendReply(d))
         /\ WF_stateVars(Command(d))
         /\ \A g \in Getters : WF_stateVars(SendCurrentStateGet(g, d))

FairSpecState == SpecState /\ FairnessState

-----------------------------------------------------------------------------
(* Properties *)

\* A state that is known is never replaced by an older one, whatever is
\* delivered twice or late (the check of the timestamp, update_manager_handler.go:47).
KnownNeverGoesBack ==
    [][\A d \in Domains : domainsInventory'[d] >= domainsInventory[d]]_stateVars

\* HandleCurrentState never sends to the channel of a request that has ended:
\* the router would be blocked in it for ever.
ChannelOutlivesSender == \A d \in sending : receiveChan[d] # "nil"

\* What is reported in answer to a request is no older than the request, if its
\* agents were asked and answered before the read timeout.
AnswersAreCurrent ==
    \A g \in Getters \ excused : getter[g] \in {"reporting", "done"} =>
        \A d \in Domains : collected[g][d] >= asOf[g][d]

\* A request for the current state ends, by the read timeout if not by the answers.
GetReturns == \A g \in Getters : (getter[g] # "idle") ~> (getter[g] = "done")

\* The commands of an activity reach their domains and operationLock is released, even if
\* the managerLock they need is held by a Get whose answer the router cannot deliver,
\* because it waits with a feedback for operationLock: the circle lasts until readTimeout.
CommandGetsThrough == commands # {} ~> commands = {}

\* A change whose message arrives is reported in the end, also when it is
\* coalesced with others by the notifier; requests under way are not considered.
QuietChangeReported ==
    \A d \in Domains, v \in Version \ {0} :
        (\A g \in Getters : getter[g] = "done") /\ (\E i \in DOMAIN messages[d] :
                messages[d][i].id = None /\ messages[d][i].version = v)
            ~> published[d] >= v

=============================================================================
