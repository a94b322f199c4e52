---------------------------- MODULE UpdateActivity ----------------------------
(***************************************************************************)
(* The update orchestrator with what it talks to: update agents that       *)
(* answer every request as the feedback handlers expect it, the owner who  *)
(* answers every consent request once, and the router goroutine of the     *)
(* MQTT client, which delivers agent feedback and owner consent one after  *)
(* the other and is blocked while a handler waits for operationLock.       *)
(*                                                                         *)
(* Every step of this specification is a step of UpdateOrchestrator or     *)
(* leaves its variables alone.                                             *)
(***************************************************************************)
EXTENDS UpdateOrchestrator

CONSTANTS
    MaxDuplicates,  \* bound: how many messages the broker delivers twice (QoS 1)
    Prompt          \* agents and owner answer before any timer of the orchestrator fires

ASSUME ActivityAssumption == MaxDuplicates \in Nat /\ Prompt \in BOOLEAN

VARIABLES
    requests,    \* requests[d]: published to the agent of d, first one next
    feedback,    \* feedback[d]: reports of the agent of d the router has not taken yet
    asked,       \* consent requests the owner has not answered
    answers,     \* the owner's answers the router has not taken yet
    inHand,      \* the message the router goroutine is handling; at most one
    duplicates,  \* how many messages were delivered twice
    failed,      \* history: domains that reported a failure before their cleanup
    granted,     \* history: the commands of this activity the owner approved
    refused      \* history: ... and those the owner denied

envVars == <<requests, feedback, asked, answers, inHand, duplicates, failed, granted, refused>>
allVars == <<vars, envVars>>

Report == [domain : Domains, status : FeedbackStatus, hasActions : BOOLEAN, activity : Nat]
Answer == [command : Commands, approved : BOOLEAN, activity : Nat]

TypeOKActivity ==
    /\ TypeOK
    /\ requests \in [Domains -> Seq([job : AllCommands \cup {"identify"}, activity : Nat])]
    /\ feedback \in [Domains -> Seq(Report)]
    /\ asked \subseteq [command : Commands, activity : Nat]
    /\ answers \in Seq(Answer)
    /\ inHand \in Seq(Report \cup Answer) /\ Len(inHand) <= 1
    /\ duplicates \in 0..MaxDuplicates
    /\ failed \subseteq Domains
    /\ granted \subseteq Commands
    /\ refused \subseteq Commands

InitActivity ==
    /\ Init
    /\ requests = [d \in Domains |-> <<>>]
    /\ feedback = [d \in Domains |-> <<>>]
    /\ asked = {}
    /\ answers = <<>>
    /\ inHand = <<>>
    /\ duplicates = 0
    /\ failed = {}
    /\ granted = {}
    /\ refused = {}

-----------------------------------------------------------------------------
(* The orchestrator's own steps, with what they publish *)

Start ==
    /\ \E ds \in SUBSET Domains : SetupUpdateOperation(ds)
    /\ failed' = {}
    /\ granted' = {}
    /\ refused' = {}
    /\ UNCHANGED <<requests, feedback, asked, answers, inHand, duplicates>>

ApplyStep ==
    /\ Apply
    /\ UNCHANGED envVars

Publish(d, job) == [requests EXCEPT ![d] = Append(@, [job |-> job, activity |-> activity])]

\* a publish that was not acknowledged in time may have been delivered or not
DesiredState(d) ==
    /\ SendDesiredState(d)
    /\ \/ requests' = Publish(d, "identify")
       \/ applying'[d] = "failed" /\ UNCHANGED requests
    /\ UNCHANGED <<feedback, asked, answers, inHand, duplicates, failed, granted, refused>>

DesiredStateFailed(d) ==
    /\ SendDesiredStateFailed(d)
    /\ failed' = failed \cup ({d} \cap DOMAIN domains)
    /\ UNCHANGED <<requests, feedback, asked, answers, inHand, duplicates, granted, refused>>

CommandStep(d) ==
    /\ CommandDomain(d)
    /\ requests' = Publish(d, Head(todo).command)
    /\ UNCHANGED <<feedback, asked, answers, inHand, duplicates, failed, granted, refused>>

CommandStepFailed(d) ==
    /\ CommandFailed(d)
    /\ \/ requests' = Publish(d, Head(todo).command)
       \/ UNCHANGED requests
    /\ UNCHANGED <<feedback, asked, answers, inHand, duplicates, failed, granted, refused>>

\* SendOwnerConsent is part of the handler; it may have been delivered although it failed
HandlerStep(h) ==
    /\ HandleCommandSignal(h)
    /\ \/ /\ pc # "idle" /\ h.command \in OwnerConsentCommands
          /\ asked' = asked \cup {[command |-> h.command, activity |-> activity]}
       \/ /\ ~(todo' # <<>> /\ Head(todo').op = "consent")
          /\ UNCHANGED asked
    /\ UNCHANGED <<requests, feedback, answers, inHand, duplicates, failed, granted, refused>>

HoldLockStep ==
    /\ HoldLock
    /\ UNCHANGED envVars

-----------------------------------------------------------------------------
(* Agents and owner *)

\* what an agent may answer to a request: the progress of the phase, then its
\* result; after CLEANUP its overall result follows
Results(job) ==
    CASE job = "identify" -> {<<"IDENTIFIED">>, <<"IDENTIFICATION_FAILED">>}
      [] job = "DOWNLOAD" -> {<<"DOWNLOADING", r>> : r \in {"DOWNLOAD_SUCCESS", "DOWNLOAD_FAILURE"}}
      [] job = "UPDATE"   -> {<<"UPDATING", r>> : r \in {"UPDATE_SUCCESS", "UPDATE_FAILURE"}}
      [] job = "ACTIVATE" -> {<<"ACTIVATING", r>> : r \in {"ACTIVATION_SUCCESS", "ACTIVATION_FAILURE"}}
      [] job = "ROLLBACK" -> {<<"ROLLBACK", r>> : r \in {"ROLLBACK_SUCCESS", "ROLLBACK_FAILURE"}}
      [] job = "CLEANUP"  -> {<<"CLEANUP", r, f>> : r \in Finished, f \in {"COMPLETED", "INCOMPLETE"}}

Failures == {"IDENTIFICATION_FAILED", "DOWNLOAD_FAILURE", "UPDATE_FAILURE", "ACTIVATION_FAILURE",
             "ROLLBACK_FAILURE"}

AgentAnswers(d) ==
    /\ requests[d] # <<>>
    /\ \E result \in Results(Head(requests[d]).job), hasActions \in BOOLEAN :
         LET report(s) == [domain |-> d, status |-> s, hasActions |-> hasActions,
                           activity |-> Head(requests[d]).activity]
         IN  /\ Head(requests[d]).job = "identify" \/ hasActions
             /\ feedback' = [feedback EXCEPT ![d] = @ \o [i \in DOMAIN result |-> report(result[i])]]
             /\ failed' = IF /\ Head(requests[d]).activity = activity
                             /\ \E i \in DOMAIN result : result[i] \in Failures
                          THEN failed \cup {d} ELSE failed
    /\ requests' = [requests EXCEPT ![d] = Tail(@)]
    /\ UNCHANGED <<vars, asked, answers, inHand, duplicates, granted, refused>>

OwnerAnswers(approved) ==
    /\ \E r \in asked :
         /\ asked' = asked \ {r}
         /\ answers' = Append(answers, [command |-> r.command, approved |-> approved,
                                        activity |-> r.activity])
         /\ granted' = IF approved /\ r.activity = activity THEN granted \cup {r.command} ELSE granted
         /\ refused' = IF ~approved /\ r.activity = activity THEN refused \cup {r.command} ELSE refused
    /\ UNCHANGED <<vars, requests, feedback, inHand, duplicates, failed>>

-----------------------------------------------------------------------------
(* The router goroutine of the MQTT client *)

\* QoS 1: the message just taken may be delivered once more
KeepCopy ==
    /\ duplicates < MaxDuplicates
    /\ duplicates' = duplicates + 1

TakeFeedback(d) ==
    /\ inHand = <<>>
    /\ feedback[d] # <<>>
    /\ inHand' = <<Head(feedback[d])>>
    /\ \/ feedback' = [feedback EXCEPT ![d] = Tail(@)] /\ UNCHANGED duplicates
       \/ KeepCopy /\ UNCHANGED feedback
    /\ UNCHANGED <<vars, requests, asked, answers, failed, granted, refused>>

\* the topic of the answers is subscribed to while a handler awaits one
TakeConsent ==
    /\ inHand = <<>>
    /\ answers # <<>>
    /\ inHand' = IF awaitingConsent THEN <<Head(answers)>> ELSE <<>>
    /\ \/ answers' = Tail(answers) /\ UNCHANGED duplicates
       \/ KeepCopy /\ UNCHANGED answers
    /\ UNCHANGED <<vars, requests, feedback, asked, failed, granted, refused>>

\* a report of an earlier activity is dropped
Deliver ==
    /\ inHand # <<>>
    /\ LET m == inHand[1]
       IN  \/ /\ m \in Report /\ m.activity = activity
              /\ AgentFeedback(m.domain, m.status, m.hasActions)
           \/ /\ m \in Answer /\ m.activity = activity
              /\ HandleOwnerConsentFeedback(m.approved)
           \/ /\ m.activity # activity \/ pc = "idle"
              /\ UNCHANGED vars
    /\ inHand' = <<>>
    /\ UNCHANGED <<requests, feedback, asked, answers, duplicates, failed, granted, refused>>

-----------------------------------------------------------------------------
(* Timers *)

\* what goroutines, agents, owner and router do without waiting for a timer
Untimed ==
    \/ ApplyStep
    \/ HoldLockStep
    \/ Deliver
    \/ TakeConsent
    \/ \E h \in handlers : HandlerStep(h)
    \/ \E approved \in BOOLEAN : OwnerAnswers(approved)
    \/ \E d \in Domains :
         \/ DesiredState(d)
         \/ DesiredStateFailed(d)
         \/ CommandStep(d)
         \/ CommandStepFailed(d)
         \/ AgentAnswers(d)
         \/ TakeFeedback(d)

\* everybody waits: for a message nobody is going to send, or for each other
Settled == ~ENABLED Untimed

Timeout ==
    /\ PhaseTimeout
    /\ Prompt => Settled
    /\ UNCHANGED envVars

\* ... or ctx.Done(), which is no timer
ConsentTimeout ==
    /\ OwnerConsentFailed
    /\ Prompt => terminated \/ Settled
    /\ UNCHANGED envVars

TerminateStep ==
    /\ Terminate
    /\ UNCHANGED envVars

NextActivity ==
    \/ Start
    \/ Untimed
    \/ Timeout
    \/ ConsentTimeout
    \/ TerminateStep

SpecActivity == InitActivity /\ [][NextActivity]_allVars

\* The goroutines of the update manager run and its timers fire; whether agents
\* and owner ever answer is up to them, and what may fail does not have to.
Fairness ==
    /\ WF_allVars(ApplyStep)
    /\ WF_allVars(Timeout)
    /\ WF_allVars(HoldLockStep)
    /\ WF_allVars(ConsentTimeout)
    /\ WF_allVars(Deliver)
    /\ WF_allVars(TakeConsent)
    /\ WF_allVars(\E h \in handlers : HandlerStep(h))
    /\ \A d \in Domains :
         /\ WF_allVars(DesiredState(d))
         /\ WF_allVars(DesiredStateFailed(d))
         /\ WF_allVars(CommandStep(d) \/ CommandStepFailed(d))
         /\ WF_allVars(TakeFeedback(d))

FairSpecActivity == SpecActivity /\ Fairness

-----------------------------------------------------------------------------
(* Properties *)

commanding == todo # <<>> /\ Head(todo).op = "command"

\* What Apply is about to report as the final feedback of an activity is a final
\* status (update_orchestrator.go:62-74): no path through apply leaves RUNNING.
FinalFeedbackIsFinal == pc = "report" => status \in FinalStatus

\* some domain has begun its update and not finished it
underWay ==
    Some(domains, DomainStatus \ ({"IDENTIFYING", "IDENTIFIED", "IDENTIFICATION_FAILED"} \cup Finished))

\* Nothing is reported for an activity once its final feedback was published,
\* although feedback handlers report RUNNING without looking at apply.  INCOMPLETE
\* while a domain is under way is a timeout speaking, and no last word.
FinalReportStands ==
    [][(/\ reported \in FinalStatus
        /\ reported = "INCOMPLETE" => ~underWay
        /\ activity' = activity) => (reported' = reported)]_allVars

\* COMPLETED is the last report of its activity, whatever comes late, twice or fails:
\* the handlers that come after it find every domain finished.
CompletedStands ==
    [][(reported = "COMPLETED" /\ activity' = activity) => (reported' = reported)]_allVars

\* COMPLETED is reported only if no domain of the activity reported a failure
\* before its cleanup: the failure survives in delayedStatus whatever the others do.
CompletedOnlyIfNoneFailed == reported = "COMPLETED" => failed = {}

\* An activity in which nothing failed and nothing was refused ends COMPLETED.
SuccessCompletes ==
    pc = "report" /\ failed = {} /\ refused = {} /\ DOMAIN domains # {} => status = "COMPLETED"

\* No goroutine sends to a full channel while it holds operationLock, so the
\* capacity of one each channel has (update_operation.go:82-104) is enough.
SenderNeverBlocked ==
    todo # <<>> /\ Head(todo).op = "send" => chan[Head(todo).channel] = "empty"

\* After the final feedback of an activity no agent is commanded any further: only
\* back, when apply gave up while the lock holder still waited for the owner
\* (the two timers of apply.go:77 and apply.go:165 run side by side).
NoCommandAfterFinal ==
    commanding /\ pc = "dispose" => Head(todo).command = "ROLLBACK" /\ reported = "INCOMPLETE"

\* A command that needs the owner's consent is issued only if the owner approved
\* that very command in this activity; the answer itself does not name a command.
ConsentBeforeCommand ==
    commanding /\ Head(todo).command \in OwnerConsentCommands => Head(todo).command \in granted

\* Once the owner refused, no agent is sent further: only back or to clean up.
NoProgressAfterRefusal ==
    commanding /\ refused # {} => Head(todo).command \in {"ROLLBACK", "CLEANUP"}

\* An activity the owner refused ends INCOMPLETE, and no domain is left with an
\* update downloaded or installed that was neither activated nor rolled back.
RefusalRollsBack ==
    pc = "report" /\ refused # {} =>
        status = "INCOMPLETE" /\ ~Some(domains, {"DOWNLOAD_SUCCESS", "UPDATE_SUCCESS"})

\* a refusal the goroutine that asked has not read: the router is kept from
\* delivering it by a feedback that waits for the lock this goroutine holds
refusalOnItsWay ==
    \/ chan["consent"] = "false"
    \/ \E q \in {answers, inHand} : \E i \in DOMAIN q : q[i] \in Answer /\ ~q[i].approved

\* The same for a refusal that was heard in time, whatever else is timed out.
HeardRefusalRollsBack == ~refusalOnItsWay => RefusalRollsBack

\* No domain is commanded to the next phase while another is still in one before
\* (the loops over operation.domains in the success handlers).
CommandsInOrder ==
    commanding =>
        /\ Head(todo).command = "DOWNLOAD" => ~Some(domains, {"IDENTIFYING", "IDENTIFICATION_FAILED"})
        /\ Head(todo).command = "UPDATE" =>
             ~Some(domains, {"IDENTIFYING", "IDENTIFICATION_FAILED", "IDENTIFIED"})
        /\ Head(todo).command = "ACTIVATE" =>
             ~Some(domains, {"IDENTIFYING", "IDENTIFICATION_FAILED", "IDENTIFIED", "DOWNLOAD_SUCCESS"})

\* Every activity ends and operationLock is released, whatever agents and owner
\* do or fail to do: the next desired state can be applied.
Terminates == (pc # "idle") ~> (pc = "idle")

\* ... also when a command could not be published: the failure is reported to the
\* orchestrator as INCOMPLETE (updatem/domain/update_manager.go).
EndsAfterCommandFailure == (todo # <<>> /\ Head(todo) = Blocked) ~> (pc = "idle")

=============================================================================
