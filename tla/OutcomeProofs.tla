---------------------------- MODULE OutcomeProofs ----------------------------
(***************************************************************************)
(* Theorems about UpdateActivity: an activity is reported COMPLETED only   *)
(* if no domain of it has failed, whatever times out, is delivered twice   *)
(* or is refused.                                                          *)
(***************************************************************************)
EXTENDS OwnerConsentProofs

-----------------------------------------------------------------------------
(* How far a domain has come *)

\* what is requested of a domain in the course of its update
Steps == {"identify"} \cup Phases

\* the status of operation.domains from which a step is taken, and how it may end
from(c) ==
    CASE c = "identify" -> {"IDENTIFYING", "IDENTIFICATION_FAILED"}
      [] c = "DOWNLOAD" -> {"IDENTIFIED"}
      [] c = "UPDATE"   -> {"DOWNLOAD_SUCCESS"}
      [] c = "ACTIVATE" -> {"UPDATE_SUCCESS"}
\* ... also for the way back
takes(c) ==
    CASE c = "CLEANUP"  -> {"ACTIVATION_SUCCESS", "ROLLBACK_SUCCESS"}
      [] c = "ROLLBACK" -> {"DOWNLOAD_SUCCESS", "UPDATE_SUCCESS"}
      [] OTHER          -> from(c)
success(c) ==
    CASE c = "identify" -> "IDENTIFIED"
      [] c = "DOWNLOAD" -> "DOWNLOAD_SUCCESS"
      [] c = "UPDATE"   -> "UPDATE_SUCCESS"
      [] c = "ACTIVATE" -> "ACTIVATION_SUCCESS"
replies(c) ==
    CASE c = "identify" -> {"IDENTIFIED", "IDENTIFICATION_FAILED"}
      [] c = "ROLLBACK" -> {"ROLLBACK", "ROLLBACK_SUCCESS", "ROLLBACK_FAILURE"}
      [] c = "CLEANUP"  -> {"CLEANUP", "CLEANUP_SUCCESS", "CLEANUP_FAILURE", "COMPLETED", "INCOMPLETE"}
      [] OTHER          -> ReportsOf(c)

\* the lock holder is to command c to d; the agent of d has the request; its report s is on its way
targeted(c, d) == \E i \in DOMAIN todo : todo[i].op = "command" /\ todo[i].command = c /\ d \in todo[i].targets
asks(c, d) == \E i \in DOMAIN requests[d] : requests[d][i].job = c /\ requests[d][i].activity = activity
tells(s, d) ==
    \/ \E e \in Domains : \E i \in DOMAIN feedback[e] :
          feedback[e][i].domain = d /\ feedback[e][i].status = s /\ feedback[e][i].activity = activity
    \/ \E i \in DOMAIN inHand : /\ inHand[i] \in Report /\ inHand[i].domain = d
                                /\ inHand[i].status = s /\ inHand[i].activity = activity
askedOnce(c, d) ==
    \A i, j \in DOMAIN requests[d] :
        i # j /\ requests[d][i].activity = activity /\ requests[d][j].activity = activity
          => requests[d][i].job # c \/ requests[d][j].job # c
responds(c, d) == \E s \in replies(c) : tells(s, d)
involves(c, d) == targeted(c, d) \/ asks(c, d) \/ responds(c, d)

\* d may still be requested to take the step c
unissued(c, d) ==
    IF c = "identify" THEN pc = "identify" \/ applying[d] = "spawned"
    ELSE ahead(c) \/ waitingFor(c) \/ consulted(c) \/ targeted(c, d)

intact == delayedStatus # "INCOMPLETE"

\* every publish succeeds, so no desired state is given up
SentInv == \A d \in Domains : applying[d] # "failed"

\* who holds the lock commands last, and does nothing but wait for the owner's consent
LastInv ==
    \A i \in DOMAIN todo : /\ todo[i].op = "command" => i = Len(todo)
                           /\ todo[i].op = "consent" => Len(todo) = 1 /\ todo[i].command \in Phases

\* each phase is brought up once, by Apply, then a goroutine, then a question, then its command
TurnInv ==
    /\ pc = "identify" => \A d \in Domains : applying[d] = "no"
    /\ \A c \in Phases : /\ ahead(c) => ~waitingFor(c)
                         /\ ahead(c) \/ waitingFor(c) => ~consulted(c)
                         /\ ahead(c) \/ waitingFor(c) \/ consulted(c) => ~pursued(c)

\* and requested of a domain, and answered by it, once
OnceInv ==
    \A d \in Domains, c \in Steps :
        /\ asks(c, d) => ~unissued(c, d)
        /\ responds(c, d) => ~unissued(c, d) /\ ~asks(c, d)
        /\ askedOnce(c, d)

\* while a domain takes a step, it has the status it took it from
PlaceInv ==
    intact => \A d \in Domains :
        /\ \A c \in Steps : targeted(c, d) \/ asks(c, d) => d \in DOMAIN domains /\ domains[d] \in from(c)
        /\ applying[d] = "spawned" => d \in DOMAIN domains
        /\ (pc = "identify" \/ applying[d] = "spawned") /\ d \in DOMAIN domains => domains[d] \in from("identify")
        /\ d \in DOMAIN domains /\ domains[d] \in {"DOWNLOAD_SUCCESS", "UPDATE_SUCCESS", "ACTIVATION_SUCCESS"}
             => reached("DOWNLOAD")

\* nothing goes wrong for good before the update began
IntactInv == intact \/ reached("DOWNLOAD")

\* nothing is rolled back or cleaned up while all goes well, but for the domains that were activated
AsideInv ==
    intact =>
        /\ \A d \in Domains : ~involves("ROLLBACK", d)
        /\ \A d \in Domains : involves("CLEANUP", d) =>
             /\ d \in DOMAIN domains /\ domains[d] \in {"ACTIVATION_SUCCESS"} \cup Finished
             /\ reached("DOWNLOAD")
        /\ \A d \in DOMAIN domains :
             domains[d] \in {"IDENTIFYING", "IDENTIFICATION_FAILED", "IDENTIFIED", "DOWNLOAD_SUCCESS",
                             "UPDATE_SUCCESS", "ACTIVATION_SUCCESS"} \cup Finished

\* the domain failed in step c, and will not get past it
stuck(c, d) ==
    /\ d \in DOMAIN domains /\ domains[d] \in from(c)
    /\ ~unissued(c, d) /\ ~asks(c, d) /\ ~tells(success(c), d)
    /\ c \in Phases => reached("DOWNLOAD")
FailedInv == intact => \A d \in failed : \E c \in Steps : stuck(c, d)

\* all is done: every domain has finished, none has failed or is asked to do anything it can fail in
closed ==
    /\ failed = {}
    /\ ~Some(domains, DomainStatus \ Finished)
    /\ \A d \in Domains, c \in Steps \cup {"ROLLBACK"} : ~targeted(c, d) /\ ~asks(c, d)
    /\ pc # "identify" /\ \A d \in Domains : applying[d] # "spawned"
toComplete == \E i \in DOMAIN todo : todo[i] = SetStatus("COMPLETED")
FinishInv ==
    /\ status = "COMPLETED" \/ toComplete \/ reported = "COMPLETED" =>
         closed /\ ~failing /\ (pc # "idle" /\ identifying => toComplete)
    /\ reported = "COMPLETED" => pc \in {"dispose", "idle"}

\* Why CompletedOnlyIfNoneFailed holds: until its failure has been handled, a domain is stuck
\* where it failed, and with a domain that is stuck an activity does not complete.
OutcomeInv ==
    /\ SentInv /\ LastInv /\ FinishInv
    /\ pc # "idle" => TurnInv /\ OnceInv /\ PlaceInv /\ IntactInv /\ AsideInv /\ FailedInv

-----------------------------------------------------------------------------
(* What a report does to its domain *)

\* nothing is commanded and the activity does not complete
plain(t) == \A i \in DOMAIN t : t[i].op # "command" /\ t[i] # SetStatus("COMPLETED")

becomes(d, v) == domains' = [domains EXCEPT ![d] = v]

\* the kinds of reports s of d that change something
identified(d, s) ==
    /\ s \in replies("identify") /\ identifying /\ domains[d] \notin {"IDENTIFIED", "IDENTIFICATION_FAILED"}
    /\ \E v \in {s, "CLEANUP_SUCCESS"} : becomes(d, v) /\ (s = "IDENTIFICATION_FAILED" => v = s)
    /\ UNCHANGED delayedStatus
    /\ \/ plain(todo')
       \/ todo' = nothingToDo /\ ~Some(domains', {"IDENTIFYING", "IDENTIFICATION_FAILED", "IDENTIFIED"})
advanced(d, s) ==
    /\ status = "RUNNING"
    /\ \E c \in Phases : s = success(c) /\ domains[d] \in from(c)
    /\ becomes(d, s) /\ UNCHANGED delayedStatus /\ plain(todo')
turnedBack(d, s) ==
    /\ s \in replies("ROLLBACK") /\ domains[d] \notin Finished
    /\ becomes(d, s) /\ UNCHANGED delayedStatus /\ plain(todo')
brokenOff(d, s) ==
    /\ s \in replies("ROLLBACK") \/ \E c \in Phases : s \in ReportsOf(c)
    /\ domains[d] \notin Finished
    /\ \E v : becomes(d, v)
    /\ delayedStatus' = "INCOMPLETE" /\ todo' = <<Command("CLEANUP", {d}, activity)>>
finished(d, s) ==
    /\ s \in replies("CLEANUP") /\ domains[d] \notin Finished
    /\ \E v \in Finished : becomes(d, v)
    /\ delayedStatus' \in {delayedStatus, "INCOMPLETE"}
    /\ \/ plain(todo')
       \/ todo' = <<SetStatus("COMPLETED"), Send("done", "true")>> /\ intact' /\ ~Some(domains', DomainStatus \ Finished)

LEMMA PlainTodo ==
    /\ plain(<<>>) /\ plain(<<Notify("RUNNING")>>)
    /\ plain(IdentificationFailed) /\ plain(running)
    /\ \A c : plain(<<Send(c, "true"), Notify("RUNNING")>>)
    /\ plain(<<SetStatus("INCOMPLETE"), Send("err", "true")>>)
    /\ \A i \in DOMAIN nothingToDo : nothingToDo[i].op # "command"
<1>1. /\ SetStatus("INCOMPLETE") # SetStatus("COMPLETED") /\ SetStatus("RUNNING") # SetStatus("COMPLETED")
      /\ SetStatus("IDENTIFICATION_FAILED") # SetStatus("COMPLETED")
  BY EffectFields
<1>2. plain(<<>>) /\ plain(<<Notify("RUNNING")>>)
  BY EffectFields DEF plain
<1>3. plain(IdentificationFailed)
  BY <1>1, EffectFields DEF plain, IdentificationFailed
<1>4. plain(running)
  BY <1>1, EffectFields DEF plain, running
<1>5. \A c : plain(<<Send(c, "true"), Notify("RUNNING")>>)
  BY EffectFields DEF plain
<1>6. plain(<<SetStatus("INCOMPLETE"), Send("err", "true")>>)
  BY <1>1, EffectFields DEF plain
<1>7. \A i \in DOMAIN nothingToDo : nothingToDo[i].op # "command"
  BY EffectFields DEF nothingToDo
<1> QED
  BY <1>2, <1>3, <1>4, <1>5, <1>6, <1>7

LEMMA PhaseOutcome ==
    ASSUME NEW d, NEW s, NEW begun, NEW progress, NEW good, NEW bad, NEW next,
           PhaseFeedback(d, s, begun, progress, good, bad, next)
    PROVE  \/ UNCHANGED <<domains, delayedStatus>> /\ todo' = <<Notify("RUNNING")>>
           \/ s = good /\ becomes(d, good) /\ UNCHANGED delayedStatus /\ plain(todo')
           \/ /\ s = bad /\ becomes(d, bad) /\ delayedStatus' = "INCOMPLETE"
              /\ todo' = <<Command("CLEANUP", {d}, activity)>>
<1>1. CASE s = progress /\ todo' = <<Notify("RUNNING")>> /\ UNCHANGED <<domains, delayedStatus>>
  BY <1>1
<1>2. CASE /\ s = good /\ domains' = [domains EXCEPT ![d] = good] /\ UNCHANGED delayedStatus
           /\ todo' = IF Some(domains', begun) THEN <<>> ELSE <<Send(next, "true"), Notify("RUNNING")>>
  BY <1>2, PlainTodo DEF becomes
<1>3. CASE /\ s = bad /\ domains' = [domains EXCEPT ![d] = bad] /\ delayedStatus' = "INCOMPLETE"
           /\ todo' = <<Command("CLEANUP", {d}, activity)>>
  BY <1>3 DEF becomes
<1> QED
  BY <1>1, <1>2, <1>3 DEF PhaseFeedback

LEMMA ReportOutcome ==
    ASSUME TypeOK, ProgressInv, NEW d, NEW s, NEW hasActions, HandleDesiredStateFeedbackEvent(d, s, hasActions)
    PROVE  /\ d \in DOMAIN domains /\ todo = <<>>
           /\ \/ UNCHANGED <<domains, delayedStatus>> /\ todo' \in {<<>>, <<Notify("RUNNING")>>}
              \/ identified(d, s) \/ advanced(d, s) \/ turnedBack(d, s) \/ brokenOff(d, s) \/ finished(d, s)
<1> DEFINE outcome == \/ UNCHANGED <<domains, delayedStatus>> /\ todo' \in {<<>>, <<Notify("RUNNING")>>}
                      \/ identified(d, s) \/ advanced(d, s) \/ turnedBack(d, s) \/ brokenOff(d, s) \/ finished(d, s)
<1>1. d \in DOMAIN domains /\ todo = <<>> /\ domains[d] \notin Progress
  BY DEF HandleDesiredStateFeedbackEvent, ProgressInv
<1>2. CASE ~(Accepts(d, s) /\ HandleAccepted(d, s, hasActions))
  BY <1>2 DEF HandleDesiredStateFeedbackEvent
<1>3. CASE Accepts(d, s) /\ HandleAccepted(d, s, hasActions)
  <2> SUFFICES outcome
    BY <1>1
  <2>1. status \in AcceptedIn(s) /\ domains[d] \in AcceptedFrom(s)
    BY <1>3 DEF Accepts
  <2>2. CASE s = "IDENTIFIED" /\ HandleDomainIdentified(d, hasActions)
    <3>1. identifying /\ domains[d] \notin {"IDENTIFIED", "IDENTIFICATION_FAILED"}
      BY <2>1, <2>2 DEF AcceptedIn, AcceptedFrom, identifying
    <3>2. /\ becomes(d, "IDENTIFIED") \/ becomes(d, "CLEANUP_SUCCESS")
          /\ UNCHANGED delayedStatus
          /\ \/ todo' \in {<<>>, IdentificationFailed, running}
             \/ todo' = nothingToDo /\ ~Some(domains', {"IDENTIFYING", "IDENTIFICATION_FAILED", "IDENTIFIED"})
      BY <2>2 DEF HandleDomainIdentified, becomes, running, nothingToDo, Some
    <3>3. identified(d, s)
      BY <2>2, <3>1, <3>2, PlainTodo DEF identified, replies
    <3> QED
      BY <3>3
  <2>3. CASE s = "IDENTIFICATION_FAILED" /\ HandleDomainIdentificationFailed(d)
    <3>1. identifying /\ domains[d] \notin {"IDENTIFIED", "IDENTIFICATION_FAILED"}
      BY <2>1, <2>3 DEF AcceptedIn, AcceptedFrom, identifying
    <3>2. /\ becomes(d, s) /\ UNCHANGED delayedStatus
          /\ todo' \in {<<>>, IdentificationFailed}
      BY <2>3 DEF HandleDomainIdentificationFailed, becomes
    <3>3. identified(d, s)
      BY <2>3, <3>1, <3>2, PlainTodo DEF identified, replies
    <3> QED
      BY <3>3
  <2>4. ASSUME NEW c \in Phases, NEW begun, NEW progress, NEW bad, NEW next,
               PhaseFeedback(d, s, begun, progress, success(c), bad, next), bad \in ReportsOf(c),
               status = "RUNNING", domains[d] \in from(c), domains[d] \notin Finished
        PROVE  outcome
    <3>1. \/ UNCHANGED <<domains, delayedStatus>> /\ todo' = <<Notify("RUNNING")>>
          \/ s = success(c) /\ becomes(d, success(c)) /\ UNCHANGED delayedStatus /\ plain(todo')
          \/ /\ s = bad /\ becomes(d, bad) /\ delayedStatus' = "INCOMPLETE"
             /\ todo' = <<Command("CLEANUP", {d}, activity)>>
      BY <2>4, PhaseOutcome, Zenon
    <3>2. s = bad => \E b \in Phases : s \in ReportsOf(b)
      BY <2>4
    <3>3. CASE s = success(c) /\ becomes(d, success(c)) /\ UNCHANGED delayedStatus /\ plain(todo')
      BY <2>4, <3>3, Zenon DEF advanced
    <3>4. CASE /\ s = bad /\ becomes(d, bad) /\ delayedStatus' = "INCOMPLETE"
               /\ todo' = <<Command("CLEANUP", {d}, activity)>>
      BY <2>4, <3>2, <3>4, Zenon DEF brokenOff
    <3> QED
      BY <3>1, <3>3, <3>4
  <2>5. CASE HandleDomainDownload(d, s)
    <3>1. status = "RUNNING" /\ domains[d] \in {"IDENTIFIED"}
      BY <1>1, <2>1, <2>5 DEF HandleDomainDownload, PhaseFeedback, AcceptedIn, AcceptedFrom, Downloadable, Progress
    <3> QED
      BY <2>4, <2>5, <3>1 DEF HandleDomainDownload, Phases, success, from, Finished, ReportsOf
  <2>6. CASE HandleDomainUpdate(d, s)
    <3>1. status = "RUNNING" /\ domains[d] \in {"DOWNLOAD_SUCCESS"}
      BY <1>1, <2>1, <2>6 DEF HandleDomainUpdate, PhaseFeedback, AcceptedIn, AcceptedFrom, Updatable, Progress
    <3> QED
      BY <2>4, <2>6, <3>1 DEF HandleDomainUpdate, Phases, success, from, Finished, ReportsOf
  <2>7. CASE HandleDomainActivation(d, s)
    <3>1. status = "RUNNING" /\ domains[d] \in {"UPDATE_SUCCESS"}
      BY <1>1, <2>1, <2>7 DEF HandleDomainActivation, PhaseFeedback, AcceptedIn, AcceptedFrom, Activatable, Progress
    <3> QED
      BY <2>4, <2>7, <3>1 DEF HandleDomainActivation, Phases, success, from, Finished, ReportsOf
  <2>8. CASE HandleDomainRollback(d, s)
    <3>1. domains[d] \notin Finished /\ s \in replies("ROLLBACK")
      BY <2>1, <2>8 DEF HandleDomainRollback, PhaseFeedback, AcceptedFrom, Rollbackable, Finished, replies
    <3> QED
      BY <2>8, <3>1, PhaseOutcome, Zenon DEF HandleDomainRollback, turnedBack, brokenOff
  <2>9. CASE s = "CLEANUP" /\ todo' = <<Notify("RUNNING")>> /\ UNCHANGED <<domains, delayedStatus>>
    BY <2>9
  <2>10. CASE HandleDomainFinished(d, s)
    <3>1. s \in replies("CLEANUP") /\ domains[d] \notin Finished
      BY <2>1, <2>10 DEF HandleDomainFinished, AcceptedFrom, Cleanable, Finished, replies
    <3>2. /\ \E v \in Finished : becomes(d, v)
          /\ delayedStatus' \in {delayedStatus, "INCOMPLETE"}
          /\ DomainUpdateCompleted
      BY <2>10 DEF HandleDomainFinished, becomes, Finished
    <3>3. \/ plain(todo')
          \/ /\ todo' = <<SetStatus("COMPLETED"), Send("done", "true")>> /\ intact'
             /\ ~Some(domains', DomainStatus \ Finished)
      BY <3>2, PlainTodo DEF DomainUpdateCompleted, intact
    <3> QED
      BY <3>1, <3>2, <3>3 DEF finished
  <2> QED
    BY <1>3, <2>2, <2>3, <2>5, <2>6, <2>7, <2>8, <2>9, <2>10 DEF HandleAccepted
<1> QED
  BY <1>1, <1>2, <1>3

-----------------------------------------------------------------------------
(* What changes operation.domains and operation.delayedStatus *)

\* a report s of d is handled and changes something
reports(d, s) ==
    /\ tells(s, d) /\ d \in DOMAIN domains /\ todo = <<>>
    /\ UNCHANGED <<activity, pc, status, chan, handlers, applying, reported, requests, feedback, failed>>
    /\ inHand' = <<>>
    /\ identified(d, s) \/ advanced(d, s) \/ turnedBack(d, s) \/ brokenOff(d, s) \/ finished(d, s)

LEMMA DeliverOutcome ==
    ASSUME TypeOKActivity, ProgressInv, Deliver
    PROVE  \/ UNCHANGED <<domains, delayedStatus>> /\ todo' \in {todo, <<Notify("RUNNING")>>}
           \/ \E d \in Domains, s \in FeedbackStatus : reports(d, s)
<1>1. CASE UNCHANGED vars \/ \E approved : HandleOwnerConsentFeedback(approved)
  BY <1>1 DEF vars, opVars, HandleOwnerConsentFeedback
<1>2. ASSUME NEW m, m = inHand[1], m \in Report, m.activity = activity,
             AgentFeedback(m.domain, m.status, m.hasActions)
      PROVE  \/ UNCHANGED <<domains, delayedStatus>> /\ todo' \in {todo, <<Notify("RUNNING")>>}
             \/ \E d \in Domains, s \in FeedbackStatus : reports(d, s)
  <2>1. m.domain \in Domains /\ m.status \in FeedbackStatus
    BY <1>2 DEF Report
  <2>2. 1 \in DOMAIN inHand
    BY HeadAndTail DEF Deliver, TypeOKActivity
  <2>3. tells(m.status, m.domain)
    BY <1>2, <2>2 DEF tells
  <2>4. HandleDesiredStateFeedbackEvent(m.domain, m.status, m.hasActions) /\ UNCHANGED applying
    BY <1>2 DEF AgentFeedback
  <2>5. /\ UNCHANGED <<activity, pc, status, chan, handlers, applying, reported, requests, feedback, failed>>
        /\ inHand' = <<>>
    BY <2>4 DEF HandleDesiredStateFeedbackEvent, Deliver
  <2>6. /\ m.domain \in DOMAIN domains /\ todo = <<>>
        /\ \/ UNCHANGED <<domains, delayedStatus>> /\ todo' \in {<<>>, <<Notify("RUNNING")>>}
           \/ identified(m.domain, m.status) \/ advanced(m.domain, m.status) \/ turnedBack(m.domain, m.status)
           \/ brokenOff(m.domain, m.status) \/ finished(m.domain, m.status)
    BY <2>4, ReportOutcome DEF TypeOKActivity
  <2>7. \/ UNCHANGED <<domains, delayedStatus>> /\ todo' \in {<<>>, <<Notify("RUNNING")>>}
        \/ reports(m.domain, m.status)
    BY <2>3, <2>5, <2>6, Zenon DEF reports
  <2> QED
    BY <2>1, <2>6, <2>7
<1> QED
  BY <1>1, <1>2 DEF Deliver

\* only a report changes the status of a domain, and a failure is not forgotten
LEMMA DomainsStep ==
    ASSUME TypeOKActivity, ProgressInv, SentInv, [NextActivity]_allVars, activity' = activity, pc' # "idle"
    PROVE  \/ UNCHANGED domains /\ (intact' => intact)
           \/ \E d \in Domains, s \in FeedbackStatus : reports(d, s)
<1>1. CASE Start
  <2>1. activity' = activity + 1 /\ activity \in Nat
    <3>1. activity' = activity + 1
      BY <1>1, Zenon DEF Start, SetupUpdateOperation
    <3> QED
      BY <3>1 DEF TypeOKActivity, TypeOK
  <2> QED
    BY <2>1
<1>2. CASE ApplyStep \/ Timeout \/ TerminateStep
  <2>1. CASE DisposeUpdateOperation
    BY <2>1 DEF DisposeUpdateOperation
  <2>2. CASE Identify \/ Wait \/ ReturnReboot \/ ReportFinal \/ PhaseTimeout \/ Terminate
    BY <2>2 DEF Identify, Wait, ErrorSignalled, RollbackSignalled, Signalled, ContextDone, applyUnchanged,
                ReturnReboot, ReportFinal, PhaseTimeout, Terminate, opVars, intact
  <2> QED
    BY <1>2, <2>1, <2>2 DEF ApplyStep, Apply, Timeout, TerminateStep
<1>3. CASE HoldLockStep \/ ConsentTimeout \/ \E h \in handlers : HandlerStep(h)
  <2>1. UNCHANGED domains
    BY <1>3 DEF HoldLockStep, ConsentTimeout, HandlerStep, HoldLock, OwnerConsented, NotifyFeedback,
                UpdateStatus, SendSignal, OwnerConsentFailed, HandleCommandSignal, handlerUnchanged,
                holderUnchanged
  <2>2. delayedStatus' \in {delayedStatus, "INCOMPLETE"}
    BY <1>3 DEF HoldLockStep, ConsentTimeout, HandlerStep, HoldLock, OwnerConsented, NotifyFeedback,
                UpdateStatus, SendSignal, OwnerConsentFailed, HandleCommandSignal, ConsentRefused,
                holderUnchanged
  <2> QED
    BY <2>1, <2>2 DEF intact
<1>4. CASE Deliver
  BY <1>4, DeliverOutcome DEF intact
<1>5. CASE \/ \E d \in Domains : \/ DesiredState(d) \/ DesiredStateFailed(d)
                                 \/ CommandStep(d) \/ CommandStepFailed(d)
  <2>1. ASSUME NEW d \in Domains
        PROVE  ~DesiredStateFailed(d)
    BY <2>1 DEF DesiredStateFailed, SendDesiredStateFailed, SentInv
  <2> QED
    BY <1>5, <2>1 DEF DesiredState, SendDesiredState, CommandStep, CommandStepFailed, CommandDomain,
                      CommandFailed, holderUnchanged, opVars, intact
<1>6. CASE \/ TakeConsent
           \/ \E approved \in BOOLEAN : OwnerAnswers(approved)
           \/ \E d \in Domains : AgentAnswers(d) \/ TakeFeedback(d)
           \/ UNCHANGED allVars
  <2>1. UNCHANGED vars
    BY <1>6 DEF TakeConsent, OwnerAnswers, AgentAnswers, TakeFeedback, allVars
  <2> QED
    BY <2>1 DEF vars, opVars, intact
<1> QED
  BY <1>1, <1>2, <1>3, <1>4, <1>5, <1>6 DEF NextActivity, Untimed

-----------------------------------------------------------------------------
(* What is commanded *)

LEMMA ExecuteTargets ==
    ASSUME NEW c \in AllCommands, NEW a, NEW i \in DOMAIN ExecuteCommand(c, a)
    PROVE  /\ i = Len(ExecuteCommand(c, a)) /\ ExecuteCommand(c, a)[i].command = c
           /\ \A d \in ExecuteCommand(c, a)[i].targets : d \in DOMAIN domains /\ domains[d] \in takes(c)
<1>1. ExecuteCommand(c, a) = Execute(c, takes(c), a)
  BY DEF ExecuteCommand, takes, from, AllCommands, Commands
<1> DEFINE targets == {d \in DOMAIN domains : domains[d] \in takes(c)}
<1>2. ExecuteCommand(c, a) = IF targets = {} THEN <<>> ELSE <<Command(c, targets, a)>>
  BY <1>1 DEF Execute
<1>3. \A d \in targets : d \in DOMAIN domains /\ domains[d] \in takes(c)
  OBVIOUS
<1> HIDE DEF targets
<1>4. Command(c, targets, a).command = c /\ Command(c, targets, a).targets = targets
  BY DEF Command
<1>5. DOMAIN <<>> = {} /\ DOMAIN <<Command(c, targets, a)>> = {1} /\ Len(<<Command(c, targets, a)>>) = 1
  OBVIOUS
<1> QED
  BY <1>2, <1>3, <1>4, <1>5

LEMMA RefusedTargets ==
    ASSUME TypeOK, NEW c \in Commands, NEW a \in Nat, ConsentRefused(c, a), NEW i \in DOMAIN todo',
           todo'[i].op = "command"
    PROVE  /\ i = Len(todo') /\ todo'[i].command = "ROLLBACK" /\ ~intact'
           /\ \A d \in todo'[i].targets : d \in DOMAIN domains /\ domains[d] \in takes("ROLLBACK")
<1>1. CASE c = "DOWNLOAD"
  <2>1. todo' = <<SetStatus("INCOMPLETE"), Send("err", "true")>>
    BY <1>1 DEF ConsentRefused
  <2>2. todo'[i].op # "command"
    BY <2>1, EffectFields
  <2> QED
    BY <2>2
<1>2. CASE c # "DOWNLOAD"
  <2> DEFINE rollback == ExecuteCommand("ROLLBACK", a)
  <2>1. todo' = <<Send("rollback", "true")>> \o rollback /\ delayedStatus' = "INCOMPLETE"
    BY <1>2 DEF ConsentRefused
  <2>2. rollback \in Seq(Effect)
    BY ExecuteTyped DEF AllCommands
  <2>3. \A k \in DOMAIN rollback : /\ k = Len(rollback) /\ rollback[k].command = "ROLLBACK"
                                   /\ \A d \in rollback[k].targets : d \in DOMAIN domains /\ domains[d] \in takes("ROLLBACK")
    BY ExecuteTargets DEF AllCommands
  <2> HIDE DEF rollback
  <2>4. /\ Len(todo') = 1 + Len(rollback) /\ todo'[1] = Send("rollback", "true")
        /\ \A k \in 2..Len(todo') : todo'[k] = rollback[k - 1]
        /\ DOMAIN todo' = 1..Len(todo') /\ DOMAIN rollback = 1..Len(rollback) /\ Len(rollback) \in Nat
    <3>1. <<Send("rollback", "true")>> \in Seq({Send("rollback", "true")}) /\ Len(<<Send("rollback", "true")>>) = 1
      OBVIOUS
    <3> QED
      BY <2>1, <2>2, <3>1, ConcatProperties, LenProperties
  <2>5. i # 1
    BY <2>4, EffectFields
  <2>6. i - 1 \in DOMAIN rollback /\ todo'[i] = rollback[i - 1]
    BY <2>4, <2>5
  <2> QED
    BY <2>1, <2>3, <2>4, <2>6 DEF intact
<1> QED
  BY <1>1, <1>2

\* c is commanded to the domains ds that are up for it: by its goroutine, or on the owner's word
issues(c, ds) ==
    /\ UNCHANGED domains /\ \A d \in ds : d \in DOMAIN domains /\ domains[d] \in takes(c)
    /\ pc # "idle"
    /\ \/ \E h \in handlers : HandlerStep(h) /\ h.command = c
       \/ OwnerConsented /\ todo # <<>> /\ Head(todo).op = "consent" /\ Head(todo).command = c
       \/ c = "ROLLBACK" /\ ~intact'

LEMMA CommandsStep ==
    ASSUME TypeOKActivity, IdleInv, ProgressInv, SentInv, LastInv, "publish" \notin Faults, [NextActivity]_allVars,
           NEW i \in DOMAIN todo', todo'[i].op = "command"
    PROVE  /\ i = Len(todo')
           /\ \/ \E j \in DOMAIN todo : /\ todo[j].op = "command" /\ todo[j].command = todo'[i].command
                                        /\ todo'[i].targets \subseteq todo[j].targets
              \/ issues(todo'[i].command, todo'[i].targets)
              \/ \E d \in Domains, s \in FeedbackStatus :
                   reports(d, s) /\ brokenOff(d, s) /\ todo'[i].targets = {d} /\ todo'[i].command = "CLEANUP"
<1> DEFINE goal == /\ i = Len(todo')
                   /\ \/ \E j \in DOMAIN todo : /\ todo[j].op = "command" /\ todo[j].command = todo'[i].command
                                                /\ todo'[i].targets \subseteq todo[j].targets
                      \/ issues(todo'[i].command, todo'[i].targets)
                      \/ \E d \in Domains, s \in FeedbackStatus :
                           reports(d, s) /\ brokenOff(d, s) /\ todo'[i].targets = {d} /\ todo'[i].command = "CLEANUP"
<1>1. TypeOK /\ todo \in Seq(Effect)
  BY DEF TypeOKActivity, TypeOK
<1>2. CASE UNCHANGED todo
  BY <1>2 DEF LastInv
<1>3. ASSUME NEW h \in handlers, HandlerStep(h)
      PROVE  goal
  <2>1. HandleCommandSignal(h) /\ UNCHANGED domains
    BY <1>3 DEF HandlerStep, HandleCommandSignal, handlerUnchanged
  <2>2. h.command \in Commands /\ h.spawnedIn \in Nat /\ h.command \in AllCommands
    BY <1>1 DEF TypeOK, AllCommands
  <2>3. todo = <<>>
    BY <2>1 DEF HandleCommandSignal
  <2>4. CASE pc # "idle" /\ todo' = ExecuteCommand(h.command, h.spawnedIn)
    BY <1>3, <2>1, <2>2, <2>4, ExecuteTargets DEF issues
  <2>5. CASE pc # "idle" /\ ConsentRefused(h.command, h.spawnedIn)
    BY <1>1, <2>1, <2>2, <2>5, RefusedTargets DEF issues
  <2>6. todo' # <<AwaitConsent(h.command, h.spawnedIn)>>
    <3>1. AwaitConsent(h.command, h.spawnedIn).op # "command"
      BY DEF AwaitConsent
    <3> QED
      BY <3>1, SingletonEntry
  <2> QED
    BY <1>2, <2>1, <2>4, <2>5, <2>6 DEF HandleCommandSignal
<1>4. CASE OwnerConsented \/ OwnerConsentFailed
  <2>1. todo # <<>> /\ Head(todo).op = "consent" /\ UNCHANGED domains
    BY <1>4 DEF OwnerConsented, OwnerConsentFailed, awaitingConsent, handlerUnchanged
  <2>2. /\ Head(todo).command \in Commands /\ Head(todo).spawnedIn \in Nat
        /\ Head(todo).command \in AllCommands
    BY <1>1, <2>1, HeadFields DEF AllCommands
  <2>3. pc # "idle"
    BY <2>1 DEF IdleInv
  <2>4. CASE OwnerConsented /\ todo' = ExecuteCommand(Head(todo).command, Head(todo).spawnedIn)
    BY <2>1, <2>2, <2>3, <2>4, ExecuteTargets DEF issues
  <2>5. CASE ConsentRefused(Head(todo).command, Head(todo).spawnedIn)
    BY <1>1, <2>1, <2>2, <2>3, <2>5, RefusedTargets DEF issues
  <2> QED
    BY <1>4, <2>4, <2>5 DEF OwnerConsented, OwnerConsentFailed
<1>5. CASE todo # <<>> /\ todo' = Tail(todo)
  <2>1. /\ Len(Tail(todo)) = Len(todo) - 1 /\ Len(todo) \in Nat
        /\ i \in Nat /\ i + 1 \in DOMAIN todo /\ todo'[i] = todo[i + 1]
    BY <1>1, <1>5, HeadIsFirst, HeadTailProperties, LenProperties
  <2>2. i + 1 = Len(todo)
    BY <2>1 DEF LastInv
  <2> QED
    BY <1>5, <2>1, <2>2
<1>6. ASSUME NEW d \in Domains, CommandStep(d)
      PROVE  goal
  <2>1. todo # <<>> /\ Head(todo).op = "command" /\ d \in Head(todo).targets
        /\ (todo' = Tail(todo) \/ todo' = [todo EXCEPT ![1].targets = @ \ {d}])
    BY <1>6 DEF CommandStep, CommandDomain
  <2>2. CASE todo' = [todo EXCEPT ![1].targets = @ \ {d}]
    <3>1. 1 \in DOMAIN todo /\ todo[1] = Head(todo) /\ Len(todo) = 1 /\ DOMAIN todo = {1}
      <4>1. 1 \in DOMAIN todo /\ todo[1] = Head(todo)
        BY <1>1, <2>1, FirstTodo
      <4>2. Len(todo) = 1
        BY <2>1, <4>1 DEF LastInv
      <4> QED
        BY <1>1, <4>1, <4>2, LenProperties
    <3>2. DOMAIN todo' = {1} /\ Len(todo') = 1
      BY <1>1, <2>2, <3>1, LenProperties
    <3>3. /\ todo'[1].command = todo[1].command
          /\ todo'[1].targets = todo[1].targets \ {d}
      <4>1. todo'[1] = [todo[1] EXCEPT !.targets = @ \ {d}]
        BY <1>1, <2>2, <3>1
      <4>2. todo[1] \in [op : {"command"}, command : AllCommands, targets : SUBSET Domains, spawnedIn : Nat]
        BY <1>1, <2>1, <3>1, HeadTyped DEF Effect, Blocked
      <4> QED
        BY <4>1, <4>2
    <3> QED
      BY <2>1, <3>1, <3>2, <3>3
  <2> QED
    BY <1>5, <2>1, <2>2
<1>7. CASE HoldLockStep \/ ConsentTimeout
  BY <1>4, <1>5, <1>7 DEF HoldLockStep, HoldLock, ConsentTimeout, NotifyFeedback, UpdateStatus, SendSignal
<1>8. CASE Deliver
  <2>1. CASE plain(todo')
    BY <2>1 DEF plain
  <2>1a. CASE todo' = <<Notify("RUNNING")>>
    BY <2>1, <2>1a, PlainTodo
  <2>2. ASSUME NEW d \in Domains, NEW s \in FeedbackStatus, reports(d, s)
        PROVE  goal
    <3>1. CASE brokenOff(d, s)
      <4>1. todo' = <<Command("CLEANUP", {d}, activity)>> /\ i = 1 /\ Len(todo') = 1
        BY <3>1 DEF brokenOff
      <4>2. todo'[i] = Command("CLEANUP", {d}, activity)
        BY <4>1
      <4>3. todo'[i].command = "CLEANUP" /\ todo'[i].targets = {d}
        BY <4>2 DEF Command
      <4> QED
        BY <2>2, <3>1, <4>1, <4>3
    <3>2. CASE finished(d, s)
      <4>1. ASSUME todo' = <<SetStatus("COMPLETED"), Send("done", "true")>>
            PROVE  FALSE
        BY <4>1, EffectFields
      <4> QED
        BY <2>1, <3>2, <4>1 DEF finished
    <3>3. CASE identified(d, s)
      BY <2>1, <3>3, PlainTodo DEF identified
    <3> QED
      BY <2>1, <2>2, <3>1, <3>2, <3>3 DEF reports, advanced, turnedBack
  <2> QED
    BY <1>2, <1>8, <2>1a, <2>2, DeliverOutcome
<1>9. CASE \/ Start \/ ApplyStep \/ Timeout \/ TerminateStep
  <2>1. UNCHANGED todo
    BY <1>9 DEF Start, SetupUpdateOperation, ApplyStep, Apply, Identify, Wait, ErrorSignalled, RollbackSignalled,
                Signalled, ContextDone, applyUnchanged, ReturnReboot, ReportFinal, DisposeUpdateOperation,
                Timeout, PhaseTimeout, TerminateStep, Terminate
  <2> QED
    BY <1>2, <2>1
<1>10. ASSUME NEW d \in Domains, DesiredState(d) \/ DesiredStateFailed(d) \/ CommandStepFailed(d)
       PROVE  goal
  BY <1>2, <1>10 DEF DesiredState, SendDesiredState, DesiredStateFailed, SendDesiredStateFailed, SentInv,
                     CommandStepFailed, CommandFailed
<1>11. CASE \/ TakeConsent
            \/ \E approved \in BOOLEAN : OwnerAnswers(approved)
            \/ \E d \in Domains : AgentAnswers(d) \/ TakeFeedback(d)
            \/ UNCHANGED allVars
  <2>1. UNCHANGED vars
    BY <1>11 DEF TakeConsent, OwnerAnswers, AgentAnswers, TakeFeedback, allVars
  <2> QED
    BY <1>2, <2>1 DEF vars
<1> QED
  BY <1>3, <1>6, <1>7, <1>8, <1>9, <1>10, <1>11 DEF NextActivity, Untimed

LEMMA TargetedStep ==
    ASSUME TypeOKActivity, IdleInv, ProgressInv, SentInv, LastInv, "publish" \notin Faults, [NextActivity]_allVars,
           NEW c, NEW d, targeted(c, d)'
    PROVE  \/ targeted(c, d)
           \/ \E ds : d \in ds /\ issues(c, ds)
           \/ c = "CLEANUP" /\ \E s \in FeedbackStatus : reports(d, s) /\ brokenOff(d, s)
<1>1. PICK i \in DOMAIN todo' : todo'[i].op = "command" /\ todo'[i].command = c /\ d \in todo'[i].targets
  BY DEF targeted
<1>2. CASE \E j \in DOMAIN todo : /\ todo[j].op = "command" /\ todo[j].command = todo'[i].command
                                  /\ todo'[i].targets \subseteq todo[j].targets
  BY <1>1, <1>2 DEF targeted
<1>3. CASE issues(todo'[i].command, todo'[i].targets)
  BY <1>1, <1>3
<1>4. CASE \E e \in Domains, s \in FeedbackStatus :
             reports(e, s) /\ brokenOff(e, s) /\ todo'[i].targets = {e} /\ todo'[i].command = "CLEANUP"
  BY <1>1, <1>4
<1> QED
  BY <1>1, <1>2, <1>3, <1>4, CommandsStep, Zenon

\* once a domain has been commanded, the lock holder is done with it
LEMMA CommandTaken ==
    ASSUME TypeOKActivity, LastInv, NEW d \in Domains, CommandStep(d)
    PROVE  /\ todo # <<>> /\ Head(todo).op = "command" /\ targeted(Head(todo).command, d)
           /\ \A c : ~targeted(c, d)'
           /\ UNCHANGED <<activity, pc, domains, delayedStatus, handlers, applying, failed>>
<1>1. /\ todo # <<>> /\ Head(todo).op = "command" /\ d \in Head(todo).targets
      /\ todo' = IF Head(todo).targets = {d} THEN Tail(todo) ELSE [todo EXCEPT ![1].targets = @ \ {d}]
      /\ UNCHANGED <<activity, pc, domains, delayedStatus, handlers, applying, failed>>
  BY DEF CommandStep, CommandDomain, holderUnchanged
<1>2. TypeOK /\ todo \in Seq(Effect)
  BY DEF TypeOKActivity, TypeOK
<1>3. 1 \in DOMAIN todo /\ todo[1] = Head(todo) /\ Len(todo) = 1 /\ DOMAIN todo = {1}
  <2>1. 1 \in DOMAIN todo /\ todo[1] = Head(todo)
    BY <1>1, <1>2, FirstTodo
  <2>2. Len(todo) = 1
    BY <1>1, <2>1 DEF LastInv
  <2> QED
    BY <1>2, <2>1, <2>2, LenProperties
<1>4. CASE todo' = Tail(todo)
  <2>1. DOMAIN todo' = {}
    BY <1>1, <1>2, <1>3, <1>4, HeadTailProperties, LenProperties
  <2> QED
    BY <1>1, <1>3, <2>1 DEF targeted
<1>5. CASE todo' = [todo EXCEPT ![1].targets = @ \ {d}]
  <2>1. DOMAIN todo' = {1} /\ todo'[1] = [todo[1] EXCEPT !.targets = @ \ {d}]
    BY <1>2, <1>3, <1>5
  <2>2. todo[1] \in [op : {"command"}, command : AllCommands, targets : SUBSET Domains, spawnedIn : Nat]
    BY <1>1, <1>2, <1>3, HeadTyped DEF Effect, Blocked
  <2>3. d \notin todo'[1].targets
    BY <2>1, <2>2
  <2> QED
    BY <1>1, <1>3, <2>1, <2>3 DEF targeted
<1> QED
  BY <1>1, <1>4, <1>5

-----------------------------------------------------------------------------
(* What is requested, and what is answered *)

LEMMA RequestsChange ==
    ASSUME TypeOKActivity, "publish" \notin Faults, [NextActivity]_allVars, NEW d \in Domains
    PROVE  \/ requests'[d] = requests[d]
           \/ AgentAnswers(d) /\ requests[d] # <<>> /\ requests'[d] = Tail(requests[d])
           \/ \E job \in AllCommands \cup {"identify"} :
                /\ requests'[d] = Append(requests[d], [job |-> job, activity |-> activity])
                /\ \/ CommandStep(d) /\ job = Head(todo).command
                   \/ DesiredState(d) /\ applying[d] = "spawned" /\ applying'[d] = "no" /\ job = "identify"
<1> DEFINE goal == \/ requests'[d] = requests[d]
                   \/ AgentAnswers(d) /\ requests[d] # <<>> /\ requests'[d] = Tail(requests[d])
                   \/ \E job \in AllCommands \cup {"identify"} :
                        /\ requests'[d] = Append(requests[d], [job |-> job, activity |-> activity])
                        /\ \/ CommandStep(d) /\ job = Head(todo).command
                           \/ DesiredState(d) /\ applying[d] = "spawned" /\ applying'[d] = "no" /\ job = "identify"
<1>1. requests \in [Domains -> Seq(Request)] /\ applying \in [Domains -> {"no", "spawned", "failed"}]
  BY DEF TypeOKActivity, TypeOK, Request
<1>2. CASE UNCHANGED requests
  BY <1>2
<1>3. ASSUME NEW e \in Domains, DesiredState(e)
      PROVE  goal
  <2>1. SendDesiredState(e) /\ requests' = Publish(e, "identify") /\ applying[e] = "spawned" /\ applying'[e] = "no"
    BY <1>1, <1>3 DEF DesiredState, SendDesiredState
  <2>2. requests'[d] = IF d = e THEN Append(requests[e], [job |-> "identify", activity |-> activity]) ELSE requests[d]
    BY <1>1, <2>1 DEF Publish
  <2> QED
    BY <1>3, <2>1, <2>2
<1>4. ASSUME NEW e \in Domains, CommandStep(e)
      PROVE  goal
  <2>1. todo # <<>> /\ Head(todo).op = "command" /\ requests' = Publish(e, Head(todo).command)
    BY <1>4 DEF CommandStep, CommandDomain
  <2>2. Head(todo).command \in AllCommands
    BY <2>1, HeadFields DEF TypeOKActivity
  <2>3. requests'[d] = IF d = e THEN Append(requests[e], [job |-> Head(todo).command, activity |-> activity])
                       ELSE requests[d]
    BY <1>1, <2>1 DEF Publish
  <2> QED
    BY <1>4, <2>2, <2>3
<1>5. ASSUME NEW e \in Domains, CommandStepFailed(e)
      PROVE  FALSE
  BY <1>5 DEF CommandStepFailed, CommandFailed
<1>6. ASSUME NEW e \in Domains, AgentAnswers(e)
      PROVE  goal
  <2>1. requests[e] # <<>> /\ requests' = [requests EXCEPT ![e] = Tail(@)]
    BY <1>6 DEF AgentAnswers
  <2>2. requests'[d] = IF d = e THEN Tail(requests[e]) ELSE requests[d]
    BY <1>1, <2>1
  <2> QED
    BY <1>6, <2>1, <2>2
<1>7. CASE \/ Start \/ ApplyStep \/ HoldLockStep \/ Deliver \/ Timeout \/ ConsentTimeout
           \/ TerminateStep \/ TakeConsent \/ \E h \in handlers : HandlerStep(h)
  BY <1>2, <1>7 DEF Start, ApplyStep, HoldLockStep, Deliver, Timeout, ConsentTimeout, TerminateStep,
                    TakeConsent, HandlerStep, envVars
<1>8. CASE \/ \E approved \in BOOLEAN : OwnerAnswers(approved)
           \/ \E e \in Domains : DesiredStateFailed(e) \/ TakeFeedback(e)
           \/ UNCHANGED allVars
  BY <1>2, <1>8 DEF OwnerAnswers, DesiredStateFailed, TakeFeedback, allVars, envVars
<1> QED
  BY <1>3, <1>4, <1>5, <1>6, <1>7, <1>8 DEF NextActivity, Untimed

LEMMA AsksStep ==
    ASSUME TypeOKActivity, LastInv, "publish" \notin Faults, [NextActivity]_allVars, activity' = activity,
           NEW c, NEW d \in Domains, asks(c, d)'
    PROVE  \/ asks(c, d)
           \/ CommandStep(d) /\ targeted(c, d)
           \/ DesiredState(d) /\ c = "identify" /\ applying[d] = "spawned" /\ applying'[d] = "no"
<1>1. requests \in [Domains -> Seq(Request)] /\ activity \in Nat
  BY DEF TypeOKActivity, TypeOK, Request
<1>2. PICK i \in DOMAIN requests'[d] : requests'[d][i].job = c /\ requests'[d][i].activity = activity
  BY DEF asks
<1>3. CASE requests'[d] = requests[d]
  BY <1>2, <1>3 DEF asks
<1>4. CASE requests[d] # <<>> /\ requests'[d] = Tail(requests[d])
  BY <1>1, <1>2, <1>4, HeadIsFirst DEF asks
<1>5. ASSUME NEW job \in AllCommands \cup {"identify"},
             requests'[d] = Append(requests[d], [job |-> job, activity |-> activity])
      PROVE  asks(c, d) \/ c = job
  <2> DEFINE q == [job |-> job, activity |-> activity]
  <2>1. q \in Request /\ q.job = job
    BY <1>1 DEF Request
  <2> HIDE DEF q
  <2>2. (\E j \in DOMAIN requests[d] : requests'[d][i] = requests[d][j]) \/ requests'[d][i] = q
    <3>1. requests'[d] = Append(requests[d], q)
      BY <1>5 DEF q
    <3> QED
      BY <1>1, <1>2, <2>1, <3>1, AppendEntries
  <2> QED
    BY <1>2, <2>1, <2>2 DEF asks
<1>6. CommandStep(d) => targeted(Head(todo).command, d)
  BY CommandTaken
<1> QED
  BY <1>3, <1>4, <1>5, <1>6, RequestsChange

LEMMA AskedOnceStep ==
    ASSUME TypeOKActivity, LastInv, "publish" \notin Faults, [NextActivity]_allVars, activity' = activity,
           NEW c \in Steps, NEW d \in Domains, askedOnce(c, d), asks(c, d) => ~unissued(c, d)
    PROVE  askedOnce(c, d)'
<1>1. requests \in [Domains -> Seq(Request)] /\ activity \in Nat
  BY DEF TypeOKActivity, TypeOK, Request
<1>2. CASE requests'[d] = requests[d]
  BY <1>2 DEF askedOnce
<1>3. CASE requests[d] # <<>> /\ requests'[d] = Tail(requests[d])
  <2>1. \A i \in DOMAIN requests'[d] : i \in Nat /\ i + 1 \in DOMAIN requests[d] /\ requests'[d][i] = requests[d][i + 1]
    BY <1>1, <1>3, HeadIsFirst, LenProperties, HeadTailProperties
  <2>2. SUFFICES ASSUME NEW i \in DOMAIN requests'[d], NEW j \in DOMAIN requests'[d], i # j,
                        requests'[d][i].activity = activity, requests'[d][j].activity = activity
                 PROVE  requests'[d][i].job # c \/ requests'[d][j].job # c
    BY DEF askedOnce
  <2>3. i + 1 # j + 1
    BY <2>1, <2>2
  <2> QED
    BY <2>1, <2>2, <2>3 DEF askedOnce
<1>4. ASSUME NEW job \in AllCommands \cup {"identify"},
             requests'[d] = Append(requests[d], [job |-> job, activity |-> activity]),
             job = c => ~asks(c, d)
      PROVE  askedOnce(c, d)'
  <2> DEFINE q == [job |-> job, activity |-> activity]
  <2>1. q \in Request /\ q.job = job
    BY <1>1 DEF Request
  <2>2. requests'[d] = Append(requests[d], q)
    BY <1>4
  <2> HIDE DEF q
  <2>3. \A i \in DOMAIN requests'[d] : \/ i \in DOMAIN requests[d] /\ requests'[d][i] = requests[d][i]
                                       \/ i = Len(requests[d]) + 1 /\ requests'[d][i] = q
    BY <1>1, <2>1, <2>2, AppendEntries
  <2>4. SUFFICES ASSUME NEW i \in DOMAIN requests'[d], NEW j \in DOMAIN requests'[d], i # j,
                        requests'[d][i].activity = activity, requests'[d][j].activity = activity,
                        requests'[d][i].job = c, requests'[d][j].job = c
                 PROVE  FALSE
    BY DEF askedOnce
  <2> QED
    BY <1>4, <2>1, <2>3, <2>4 DEF askedOnce, asks
<1>5. CommandStep(d) /\ Head(todo).command = c => ~asks(c, d)
  <2>1. c # "identify" => (targeted(c, d) => unissued(c, d))
    BY DEF unissued
  <2>2. CommandStep(d) => todo # <<>> /\ Head(todo).op = "command"
    BY DEF CommandStep, CommandDomain
  <2>3. CommandStep(d) => Head(todo).command # "identify"
    BY <2>2, HeadFields DEF TypeOKActivity, AllCommands, Commands
  <2> QED
    BY <2>1, <2>3, CommandTaken
<1>6. applying[d] = "spawned" => ~asks("identify", d) \/ c # "identify"
  BY DEF unissued
<1> QED
  BY <1>2, <1>3, <1>4, <1>5, <1>6, RequestsChange

\* a status belongs to the one request it is an answer to
LEMMA ResultsReply ==
    ASSUME NEW job \in AllCommands \cup {"identify"}, NEW result \in Results(job)
    PROVE  /\ \A i \in DOMAIN result : /\ result[i] \in replies(job)
                                       /\ \A c \in AllCommands \cup {"identify"} : result[i] \in replies(c) => c = job
                                       /\ result[i] \in Failures => job \in Steps \cup {"ROLLBACK"}
           /\ job \in Steps /\ (\E i \in DOMAIN result : result[i] \in Failures)
                => \A i \in DOMAIN result : result[i] # success(job)
<1>1. CASE job = "identify"
  BY <1>1 DEF Results, replies, ReportsOf, AllCommands, Commands, Steps, Phases, Failures, success
<1>2. CASE job = "DOWNLOAD"
  BY <1>2 DEF Results, replies, ReportsOf, AllCommands, Commands, Steps, Phases, Failures, success
<1>3. CASE job = "UPDATE"
  BY <1>3 DEF Results, replies, ReportsOf, AllCommands, Commands, Steps, Phases, Failures, success
<1>4. CASE job = "ACTIVATE"
  BY <1>4 DEF Results, replies, ReportsOf, AllCommands, Commands, Steps, Phases, Failures, success
<1>5. CASE job = "ROLLBACK"
  BY <1>5 DEF Results, replies, ReportsOf, AllCommands, Commands, Steps, Phases, Failures, success
<1>6. CASE job = "CLEANUP"
  BY <1>6 DEF Results, replies, ReportsOf, AllCommands, Commands, Steps, Phases, Failures, success, Finished
<1> QED
  BY <1>1, <1>2, <1>3, <1>4, <1>5, <1>6 DEF AllCommands, Commands

\* the agent of d answers its first request with result
answersWith(d, result) ==
    /\ AgentAnswers(d) /\ 1 \in DOMAIN requests[d] /\ requests[d][1] \in Request
    /\ result \in Results(requests[d][1].job)
    /\ \A s, e : tells(s, e)' => \/ tells(s, e)
                                 \/ /\ e = d /\ requests[d][1].activity = activity
                                    /\ \E i \in DOMAIN result : s = result[i]
    /\ failed' = IF requests[d][1].activity = activity /\ \E i \in DOMAIN result : result[i] \in Failures
                 THEN failed \cup {d} ELSE failed

LEMMA AnswersOutcome ==
    ASSUME TypeOKActivity, NEW d \in Domains, AgentAnswers(d)
    PROVE  \E result : answersWith(d, result)
<1>1. requests \in [Domains -> Seq(Request)] /\ feedback \in [Domains -> Seq(Report)]
  BY DEF TypeOKActivity, Request
<1>2. PICK result \in Results(Head(requests[d]).job), hasActions \in BOOLEAN :
        /\ feedback' = [feedback EXCEPT ![d] = @ \o [k \in DOMAIN result |->
                          [domain |-> d, status |-> result[k], hasActions |-> hasActions,
                           activity |-> Head(requests[d]).activity]]]
        /\ failed' = IF /\ Head(requests[d]).activity = activity
                        /\ \E i \in DOMAIN result : result[i] \in Failures
                     THEN failed \cup {d} ELSE failed
  BY Zenon DEF AgentAnswers
<1>3. requests[d] # <<>> /\ UNCHANGED <<activity, inHand>>
  BY DEF AgentAnswers, vars
<1>4. Head(requests[d]) \in Request /\ 1 \in DOMAIN requests[d] /\ requests[d][1] = Head(requests[d])
  BY <1>1, <1>3, HeadAndTail
<1>5. result \in Seq(FeedbackStatus)
  BY <1>2, <1>4, ResultsTyped DEF Request
<1> DEFINE report(s) == [domain |-> d, status |-> s, hasActions |-> hasActions,
                         activity |-> Head(requests[d]).activity]
           answer == [k \in DOMAIN result |-> report(result[k])]
<1>6. answer \in Seq(Report)
  <2>1. \A s \in FeedbackStatus : report(s) \in Report
    BY <1>4 DEF Report, Request
  <2> QED
    BY <1>5, <2>1
<1>7. \A e \in Domains : feedback'[e] = IF e = d THEN feedback[d] \o answer ELSE feedback[e]
  BY <1>1, <1>2
<1>8. \A k \in DOMAIN answer : /\ k \in DOMAIN result /\ answer[k].status = result[k] /\ answer[k].domain = d
                               /\ answer[k].activity = requests[d][1].activity
  BY <1>4
<1> HIDE DEF answer
<1>9. ASSUME NEW s, NEW e, tells(s, e)'
      PROVE  \/ tells(s, e)
             \/ /\ e = d /\ requests[d][1].activity = activity
                /\ \E i \in DOMAIN result : s = result[i]
  <2>1. CASE \E i \in DOMAIN inHand : /\ inHand[i] \in Report /\ inHand[i].domain = e
                                      /\ inHand[i].status = s /\ inHand[i].activity = activity
    BY <2>1 DEF tells
  <2>2. ASSUME NEW f \in Domains, NEW i \in DOMAIN feedback'[f],
               feedback'[f][i].domain = e, feedback'[f][i].status = s, feedback'[f][i].activity = activity
        PROVE  \/ tells(s, e)
               \/ /\ e = d /\ requests[d][1].activity = activity
                  /\ \E k \in DOMAIN result : s = result[k]
    <3>1. CASE i \in DOMAIN feedback[f] /\ feedback'[f][i] = feedback[f][i]
      BY <2>2, <3>1 DEF tells
    <3>2. CASE f = d /\ \E k \in DOMAIN answer : feedback'[f][i] = answer[k]
      BY <1>8, <2>2, <3>2
    <3>3. CASE f = d
      <4>1. feedback'[f] = feedback[f] \o answer /\ feedback[f] \in Seq(Report)
        BY <1>1, <1>7, <3>3
      <4>2. \/ i \in DOMAIN feedback[f] /\ feedback'[f][i] = feedback[f][i]
            \/ \E k \in DOMAIN answer : feedback'[f][i] = answer[k]
        BY <1>6, <2>2, <4>1, ConcatEntries
      <4> QED
        BY <3>1, <3>2, <3>3, <4>2
    <3> QED
      BY <1>7, <2>2, <3>1, <3>3
  <2> QED
    BY <1>3, <1>9, <2>1, <2>2 DEF tells
<1>10. answersWith(d, result)
  BY <1>2, <1>4, <1>9 DEF answersWith
<1> QED
  BY <1>10

\* only an agent answers
LEMMA TellsStep ==
    ASSUME TypeOKActivity, [NextActivity]_allVars, activity' = activity, \A d \in Domains : ~AgentAnswers(d),
           NEW s, NEW e, tells(s, e)'
    PROVE  tells(s, e)
<1>1. feedback \in [Domains -> Seq(Report)]
  BY DEF TypeOKActivity
<1>2. ASSUME NEW f \in Domains, NEW i \in DOMAIN feedback'[f]
      PROVE  \E j \in DOMAIN feedback[f] : feedback'[f][i] = feedback[f][j]
  <2>1. CASE UNCHANGED feedback
    BY <2>1
  <2>2. ASSUME NEW d \in Domains, TakeFeedback(d)
        PROVE  \E j \in DOMAIN feedback[f] : feedback'[f][i] = feedback[f][j]
    <3>1. feedback[d] # <<>> /\ (feedback' = [feedback EXCEPT ![d] = Tail(@)] \/ UNCHANGED feedback)
      BY <2>2 DEF TakeFeedback
    <3>2. CASE f = d /\ feedback' = [feedback EXCEPT ![d] = Tail(@)]
      <4>1. feedback'[f] = Tail(feedback[f])
        BY <1>1, <3>2
      <4> QED
        BY <1>1, <3>1, <3>2, <4>1, HeadIsFirst
    <3> QED
      BY <1>1, <2>1, <3>1, <3>2
  <2>3. CASE \/ Start \/ ApplyStep \/ HoldLockStep \/ Deliver \/ Timeout \/ ConsentTimeout
             \/ TerminateStep \/ TakeConsent \/ \E h \in handlers : HandlerStep(h)
    BY <2>1, <2>3 DEF Start, ApplyStep, HoldLockStep, Deliver, Timeout, ConsentTimeout, TerminateStep,
                      TakeConsent, HandlerStep, envVars
  <2>4. CASE \/ \E approved \in BOOLEAN : OwnerAnswers(approved)
             \/ \E d \in Domains : \/ DesiredState(d) \/ DesiredStateFailed(d)
                                   \/ CommandStep(d) \/ CommandStepFailed(d)
             \/ UNCHANGED allVars
    BY <2>1, <2>4 DEF OwnerAnswers, DesiredState, DesiredStateFailed, CommandStep, CommandStepFailed,
                      allVars, envVars
  <2> QED
    BY <2>2, <2>3, <2>4 DEF NextActivity, Untimed
<1>3. CASE \E f \in Domains : \E i \in DOMAIN feedback'[f] :
             feedback'[f][i].domain = e /\ feedback'[f][i].status = s /\ feedback'[f][i].activity = activity
  BY <1>2, <1>3 DEF tells
<1>4. ASSUME NEW i \in DOMAIN inHand', inHand'[i] \in Report, inHand'[i].domain = e,
             inHand'[i].status = s, inHand'[i].activity = activity
      PROVE  tells(s, e)
  <2>1. \/ i \in DOMAIN inHand /\ inHand'[i] = inHand[i]
        \/ \E d \in Domains : 1 \in DOMAIN feedback[d] /\ inHand'[i] = feedback[d][1]
    BY <1>4, InHandStep, ReportsAndAnswers
  <2> QED
    BY <1>4, <2>1 DEF tells
<1> QED
  BY <1>3, <1>4 DEF tells

-----------------------------------------------------------------------------
(* An activity that goes on *)

steady ==
    /\ TypeOKActivity /\ BarrierInv /\ LifecycleInv /\ OrderInv /\ OutcomeInv /\ Undisturbed
    /\ "publish" \notin Faults
proceeds ==
    /\ steady /\ TypeOKActivity' /\ [NextActivity]_allVars
    /\ activity' = activity /\ pc # "idle" /\ pc' # "idle"

LEMMA SteadyFacts ==
    ASSUME proceeds
    PROVE  /\ TypeOKActivity /\ TypeOKActivity' /\ TypeOK /\ TypeOK' /\ BarrierInv /\ LifecycleInv /\ Undisturbed
           /\ IdleInv /\ ProgressInv /\ CarriedInv /\ SentInv /\ LastInv /\ FinishInv /\ TurnInv /\ OnceInv /\ PlaceInv
           /\ IntactInv /\ AsideInv /\ FailedInv
           /\ "publish" \notin Faults /\ [NextActivity]_allVars /\ [Next]_vars
           /\ activity' = activity /\ pc # "idle" /\ pc' # "idle"
<1>1. [Next]_vars
  BY StepOfOrchestrator DEF proceeds
<1> QED
  BY <1>1 DEF proceeds, steady, OrderInv, OutcomeInv, TypeOKActivity

\* what is done for a phase shows that the activity has come to it
LEMMA InvolvedReached ==
    ASSUME proceeds
    PROVE  /\ \A c \in Phases : reached(c) => reached("DOWNLOAD")
           /\ reached("DOWNLOAD") => ~identifying /\ reached("DOWNLOAD")'
           /\ \A c \in Phases, d \in Domains : /\ targeted(c, d) => pursued(c)
                                               /\ asks(c, d) => pursued(c)
                                               /\ responds(c, d) => pursued(c)
           /\ \A c \in Phases : pursued(c) \/ consulted(c) \/ waitingFor(c) => reached("DOWNLOAD")
<1>1. \A c \in Phases : reached(c) => reached("DOWNLOAD")
  BY DEF reached, Behind, Some, Phases
<1>2. reached("DOWNLOAD") => ~identifying /\ reached("DOWNLOAD")'
  <2>1. reached("DOWNLOAD") => reached("DOWNLOAD")'
    BY SteadyFacts, ReachedKept DEF Phases
  <2>2. reached("DOWNLOAD") => ~identifying
    BY DEF reached
  <2> QED
    BY <2>1, <2>2
<1>3. ASSUME NEW c \in Phases, NEW d \in Domains
      PROVE  /\ targeted(c, d) => pursued(c)
             /\ asks(c, d) => pursued(c)
             /\ responds(c, d) => pursued(c)
  <2>1. targeted(c, d) => commanded(c)
    BY DEF targeted, commanded
  <2>2. asks(c, d) => requested(c)
    BY DEF asks, requested
  <2>3. replies(c) = ReportsOf(c)
    BY <1>3 DEF replies, Phases
  <2>4. responds(c, d) => answered(c) \/ delivered(c)
    BY <2>3 DEF responds, tells, answered, delivered
  <2> QED
    BY <2>1, <2>2, <2>4 DEF pursued
<1>4. \A c \in Phases : pursued(c) \/ consulted(c) \/ waitingFor(c) => reached("DOWNLOAD")
  BY <1>1, SteadyFacts, Zenon DEF CarriedInv, carried
<1> QED
  BY <1>1, <1>2, <1>3, <1>4

\* only apply spawns the goroutines that send the desired state, all at once
LEMMA SpawnStep ==
    ASSUME TypeOKActivity, SentInv, "publish" \notin Faults, [NextActivity]_allVars, activity' = activity
    PROVE  /\ pc' = "identify" => pc = "identify"
           /\ \A d \in Domains :
                /\ applying'[d] # "failed"
                /\ applying'[d] = "spawned" =>
                     applying[d] = "spawned" \/ (pc = "identify" /\ pc' = "DOWNLOAD" /\ d \in DOMAIN domains)
<1>1. /\ applying \in [Domains -> {"no", "spawned", "failed"}] /\ SentInv /\ "publish" \notin Faults
      /\ activity' = activity /\ activity \in Nat
  BY DEF TypeOKActivity, TypeOK
<1>2. CASE Start
  <2>1. activity' = activity + 1
    BY <1>2, Zenon DEF Start, SetupUpdateOperation
  <2> QED
    BY <1>1, <2>1
<1>3. CASE UNCHANGED <<pc, applying>>
  BY <1>1, <1>3 DEF SentInv
<1>4. CASE ApplyStep
  <2>1. CASE Identify
    BY <1>1, <2>1 DEF Identify, SentInv
  <2>2. CASE Wait
    BY <1>1, <2>2 DEF Wait, ErrorSignalled, RollbackSignalled, Signalled, ContextDone, applyUnchanged, AfterError,
                      After, SentInv
  <2>3. CASE ReturnReboot \/ ReportFinal \/ DisposeUpdateOperation
    BY <1>1, <2>3 DEF ReturnReboot, ReportFinal, DisposeUpdateOperation, SentInv
  <2> QED
    BY <1>4, <2>1, <2>2, <2>3 DEF ApplyStep, Apply
<1>5. CASE Timeout
  BY <1>1, <1>5 DEF Timeout, PhaseTimeout, AfterError, applyUnchanged, SentInv
<1>6. CASE HoldLockStep \/ ConsentTimeout \/ TerminateStep \/ \E h \in handlers : HandlerStep(h)
  BY <1>3, <1>6 DEF HoldLockStep, ConsentTimeout, TerminateStep, HandlerStep, HoldLock, OwnerConsented,
                    NotifyFeedback, UpdateStatus, SendSignal, OwnerConsentFailed, Terminate,
                    HandleCommandSignal, handlerUnchanged, holderUnchanged
<1>7. CASE Deliver
  BY <1>3, <1>7 DEF Deliver, AgentFeedback, HandleDesiredStateFeedbackEvent, HandleOwnerConsentFeedback, vars
<1>8. ASSUME NEW d \in Domains, DesiredState(d)
      PROVE  pc' = pc /\ applying' = [applying EXCEPT ![d] = "no"]
  BY <1>1, <1>8 DEF DesiredState, SendDesiredState
<1>9. ASSUME NEW d \in Domains, DesiredStateFailed(d)
      PROVE  FALSE
  BY <1>1, <1>9 DEF DesiredStateFailed, SendDesiredStateFailed, SentInv
<1>10. CASE \E d \in Domains : CommandStep(d) \/ CommandStepFailed(d)
  BY <1>3, <1>10 DEF CommandStep, CommandStepFailed, CommandDomain, CommandFailed, holderUnchanged
<1>11. CASE \/ TakeConsent
            \/ \E approved \in BOOLEAN : OwnerAnswers(approved)
            \/ \E d \in Domains : AgentAnswers(d) \/ TakeFeedback(d)
            \/ UNCHANGED allVars
  <2>1. UNCHANGED vars
    BY <1>11 DEF TakeConsent, OwnerAnswers, AgentAnswers, TakeFeedback, allVars
  <2> QED
    BY <1>3, <2>1 DEF vars
<1>12. CASE \E d \in Domains : DesiredState(d)
  BY <1>1, <1>8, <1>12 DEF SentInv
<1> QED
  BY <1>2, <1>4, <1>5, <1>6, <1>7, <1>9, <1>10, <1>11, <1>12 DEF NextActivity, Untimed

LEMMA ApplyingStep ==
    ASSUME proceeds
    PROVE  /\ pc' = "identify" => pc = "identify"
           /\ \A d \in Domains :
                /\ applying'[d] # "failed"
                /\ applying'[d] = "spawned" =>
                     applying[d] = "spawned" \/ (pc = "identify" /\ pc' = "DOWNLOAD" /\ d \in DOMAIN domains)
  BY SteadyFacts, SpawnStep

\* the owner's answer ends the question
LEMMA QuestionEnds ==
    ASSUME TypeOK, OwnerConsented \/ OwnerConsentFailed
    PROVE  \A i \in DOMAIN todo' : todo'[i].op # "consent"
<1> SUFFICES ASSUME NEW i \in DOMAIN todo'
             PROVE  todo'[i].op # "consent"
  OBVIOUS
<1>1. todo'[i].op = "command" \/ refusal(todo'[i])
  BY ConsentEntries
<1> QED
  BY <1>1, EffectFields DEF refusal

\* how a phase is taken up, one step after the other
LEMMA PhaseSteps ==
    ASSUME proceeds, NEW c \in Phases
    PROVE  /\ ahead(c)' => ahead(c)
           /\ waitingFor(c)' => waitingFor(c) \/ (ahead(c) /\ ~ahead(c)')
           /\ consulted(c)' => \/ consulted(c)
                               \/ waitingFor(c) /\ ~waitingFor(c)' /\ todo = <<>>
           /\ pursued(c)' => \/ pursued(c)
                             \/ waitingFor(c) /\ ~waitingFor(c)' /\ ~consulted(c)'
                             \/ consulted(c) /\ ~consulted(c)'
<1>1. ahead(c)' => ahead(c)
  BY SteadyFacts, AheadStep
<1>2. waitingFor(c)' => waitingFor(c) \/ (ahead(c) /\ ~ahead(c)')
  <2>1. ASSUME Signalled, pc = c
        PROVE  ahead(c) /\ ~ahead(c)'
    BY <2>1, SteadyFacts, AheadStep DEF ahead, Phases
  <2> QED
    BY <2>1, SteadyFacts, WaitingStep
<1>3. ASSUME NEW h \in handlers, HandlerStep(h), h.command = c
      PROVE  waitingFor(c) /\ ~waitingFor(c)' /\ todo = <<>>
  BY <1>3, SteadyFacts, HandlerTaken
<1>4. consulted(c)' => \/ consulted(c)
                       \/ waitingFor(c) /\ ~waitingFor(c)' /\ todo = <<>>
  BY <1>3, SteadyFacts, ConsultedStep
<1>5. commanded(c)' => \/ commanded(c)
                       \/ waitingFor(c) /\ ~waitingFor(c)' /\ ~consulted(c)'
                       \/ consulted(c) /\ ~consulted(c)'
  <2>1. ASSUME NEW h \in handlers, HandlerStep(h), h.command = c, c \notin OwnerConsentCommands
        PROVE  ~consulted(c)'
    <3>1. ~consulted(c)
      BY <1>3, <2>1 DEF consulted
    <3> QED
      BY <2>1, <3>1, SteadyFacts, ConsultedStep
  <2>2. ASSUME OwnerConsented
        PROVE  ~consulted(c)'
    BY <2>2, SteadyFacts, QuestionEnds DEF consulted
  <2> QED
    BY <1>3, <2>1, <2>2, SteadyFacts, CommandedStep
<1>6. requested(c)' \/ answered(c)' \/ delivered(c)' => pursued(c)
  BY SteadyFacts, RequestedStep, AnsweredStep, DeliveredStep DEF pursued
<1> QED
  BY <1>1, <1>2, <1>4, <1>5, <1>6 DEF pursued

LEMMA TurnStep == proceeds => TurnInv'
<1> SUFFICES ASSUME proceeds
             PROVE  TurnInv'
  OBVIOUS
<1>1. TurnInv /\ TypeOK'
  BY SteadyFacts
<1>2. ASSUME pc' = "identify", NEW d \in Domains
      PROVE  applying'[d] = "no"
  <2>1. /\ pc = "identify" /\ applying[d] = "no"
    BY <1>1, <1>2, ApplyingStep DEF TurnInv
  <2>2. applying'[d] \in {"no", "spawned", "failed"}
    BY <1>1 DEF TypeOK
  <2>3. applying'[d] # "failed"
    BY ApplyingStep
  <2>4. applying'[d] # "spawned"
    BY <1>2, <2>1, ApplyingStep
  <2> QED
    BY <2>2, <2>3, <2>4
<1>3. ASSUME NEW c \in Phases
      PROVE  /\ ahead(c)' => ~waitingFor(c)'
             /\ ahead(c)' \/ waitingFor(c)' => ~consulted(c)'
             /\ ahead(c)' \/ waitingFor(c)' \/ consulted(c)' => ~pursued(c)'
  <2>1. /\ ahead(c) => ~waitingFor(c)
        /\ ahead(c) \/ waitingFor(c) => ~consulted(c)
        /\ ahead(c) \/ waitingFor(c) \/ consulted(c) => ~pursued(c)
    BY <1>1 DEF TurnInv
  <2> QED
    BY <2>1, PhaseSteps, Zenon
<1> QED
  BY <1>2, <1>3 DEF TurnInv

LEMMA UnissuedStep ==
    ASSUME proceeds, NEW c \in Steps, NEW d \in Domains, unissued(c, d)'
    PROVE  unissued(c, d)
<1>1. CASE c = "identify"
  BY <1>1, ApplyingStep DEF unissued
<1>2. CASE c \in Phases
  <2>1. c # "identify" /\ c # "CLEANUP" /\ c # "ROLLBACK"
    BY <1>2 DEF Phases
  <2>2. ahead(c)' \/ waitingFor(c)' \/ consulted(c)' => ahead(c) \/ waitingFor(c) \/ consulted(c)
    BY <1>2, PhaseSteps
  <2>3. targeted(c, d)' => targeted(c, d) \/ waitingFor(c) \/ consulted(c)
    <3>1. ASSUME NEW ds, issues(c, ds)
          PROVE  waitingFor(c) \/ consulted(c)
      <4>1. CASE \E h \in handlers : HandlerStep(h) /\ h.command = c
        BY <4>1, SteadyFacts, HandlerTaken
      <4>2. CASE todo # <<>> /\ Head(todo).op = "consent" /\ Head(todo).command = c
        BY <4>2, SteadyFacts, FirstTodo DEF consulted
      <4> QED
        BY <2>1, <3>1, <4>1, <4>2 DEF issues
    <3> QED
      BY <2>1, <3>1, SteadyFacts, TargetedStep
  <2> QED
    BY <2>1, <2>2, <2>3 DEF unissued
<1> QED
  BY <1>1, <1>2 DEF Steps

LEMMA TargetedTyped ==
    ASSUME TypeOK, NEW c, NEW d, targeted(c, d)
    PROVE  c \in AllCommands /\ d \in Domains
<1>1. PICK i \in DOMAIN todo : todo[i].op = "command" /\ todo[i].command = c /\ d \in todo[i].targets
  BY DEF targeted
<1>2. todo[i] \in Effect
  <2>1. todo \in Seq(Effect)
    BY DEF TypeOK
  <2> QED
    BY <2>1, ElementOfSeq, LenProperties
<1>3. todo[i] \in [op : {"command"}, command : AllCommands, targets : SUBSET Domains, spawnedIn : Nat]
  BY <1>1, <1>2 DEF Effect, Blocked
<1> QED
  BY <1>1, <1>3

\* what is requested has been issued
LEMMA AsksIssued ==
    ASSUME proceeds, NEW c \in Steps, NEW d \in Domains, asks(c, d)'
    PROVE  \/ asks(c, d)
           \/ /\ unissued(c, d) /\ ~unissued(c, d)'
              /\ IF c = "identify" THEN applying[d] = "spawned" ELSE targeted(c, d)
<1>1. CASE CommandStep(d) /\ targeted(c, d)
  <2>1. c \in Phases /\ c # "identify"
    BY <1>1, SteadyFacts, TargetedTyped DEF Steps, Phases, AllCommands, Commands
  <2>2. pursued(c)
    BY <1>1, <2>1, InvolvedReached
  <2>3. ~ahead(c) /\ ~waitingFor(c) /\ ~consulted(c)
    BY <2>1, <2>2, SteadyFacts DEF TurnInv
  <2>4. ~ahead(c)' /\ ~waitingFor(c)' /\ ~consulted(c)'
    BY <2>1, <2>3, PhaseSteps
  <2>5. ~targeted(c, d)'
    BY <1>1, SteadyFacts, CommandTaken
  <2> QED
    BY <1>1, <2>1, <2>4, <2>5 DEF unissued
<1>2. CASE DesiredState(d) /\ c = "identify" /\ applying[d] = "spawned" /\ applying'[d] = "no"
  <2>1. pc # "identify"
    BY <1>2, SteadyFacts DEF TurnInv
  <2>2. pc' # "identify"
    BY <2>1, ApplyingStep
  <2> QED
    BY <1>2, <2>2 DEF unissued
<1> QED
  BY <1>1, <1>2, SteadyFacts, AsksStep

\* a report on its way is the answer to a request, the first of its agent
LEMMA RespondsStep ==
    ASSUME proceeds, NEW c \in AllCommands \cup {"identify"}, NEW d \in Domains, responds(c, d)'
    PROVE  \/ responds(c, d)
           \/ /\ AgentAnswers(d) /\ asks(c, d) /\ 1 \in DOMAIN requests[d]
              /\ requests[d][1].job = c /\ requests[d][1].activity = activity
<1>1. PICK s \in replies(c) : tells(s, d)'
  BY DEF responds
<1>2. ASSUME NEW e \in Domains, AgentAnswers(e)
      PROVE  \/ responds(c, d)
             \/ /\ AgentAnswers(d) /\ asks(c, d) /\ 1 \in DOMAIN requests[d]
                /\ requests[d][1].job = c /\ requests[d][1].activity = activity
  <2>1. PICK result : answersWith(e, result)
    BY <1>2, SteadyFacts, AnswersOutcome
  <2>2. CASE tells(s, d)
    BY <1>1, <2>2 DEF responds
  <2>3. CASE d = e /\ requests[e][1].activity = activity /\ \E i \in DOMAIN result : s = result[i]
    <3>1. c = requests[e][1].job
      <4>1. requests[e][1].job \in AllCommands \cup {"identify"} /\ result \in Results(requests[e][1].job)
        BY <2>1 DEF answersWith, Request
      <4> QED
        BY <1>1, <2>3, <4>1, ResultsReply
    <3> QED
      BY <2>1, <2>3, <3>1 DEF answersWith, asks
  <2> QED
    BY <1>1, <2>1, <2>2, <2>3 DEF answersWith
<1>3. CASE \A e \in Domains : ~AgentAnswers(e)
  BY <1>1, <1>3, SteadyFacts, TellsStep DEF responds
<1> QED
  BY <1>2, <1>3

\* an agent that has answered the one request for a step is asked for it no more
LEMMA AskedNoMore ==
    ASSUME proceeds, NEW c, NEW d \in Domains, askedOnce(c, d), AgentAnswers(d), 1 \in DOMAIN requests[d],
           requests[d][1].job = c, requests[d][1].activity = activity
    PROVE  ~asks(c, d)'
<1>1. requests \in [Domains -> Seq(Request)]
  BY SteadyFacts DEF TypeOKActivity, Request
<1>2. requests[d] # <<>> /\ requests'[d] = Tail(requests[d])
  BY <1>1 DEF AgentAnswers
<1>3. \A i \in DOMAIN requests'[d] : i \in Nat \ {0} /\ i + 1 \in DOMAIN requests[d] /\ requests'[d][i] = requests[d][i + 1]
  BY <1>1, <1>2, HeadIsFirst, LenProperties, HeadTailProperties
<1>4. ASSUME NEW i \in DOMAIN requests'[d], requests'[d][i].job = c, requests'[d][i].activity = activity
      PROVE  FALSE
  <2>1. i + 1 # 1 /\ i + 1 \in DOMAIN requests[d] /\ requests'[d][i] = requests[d][i + 1]
    BY <1>3
  <2> QED
    BY <1>4, <2>1 DEF askedOnce
<1> QED
  BY <1>4, SteadyFacts DEF asks

LEMMA OnceStep == proceeds => OnceInv'
<1> SUFFICES ASSUME proceeds, NEW d \in Domains, NEW c \in Steps
             PROVE  /\ asks(c, d)' => ~unissued(c, d)'
                    /\ responds(c, d)' => ~unissued(c, d)' /\ ~asks(c, d)'
                    /\ askedOnce(c, d)'
  BY DEF OnceInv
<1>1. /\ asks(c, d) => ~unissued(c, d)
      /\ responds(c, d) => ~unissued(c, d) /\ ~asks(c, d)
      /\ askedOnce(c, d)
  BY SteadyFacts DEF OnceInv
<1>2. unissued(c, d)' => unissued(c, d)
  BY UnissuedStep
<1>3. asks(c, d)' => asks(c, d) \/ (unissued(c, d) /\ ~unissued(c, d)')
  BY AsksIssued
<1>4. c \in AllCommands \cup {"identify"}
  BY DEF Steps, Phases, AllCommands, Commands
<1>5. responds(c, d)' => responds(c, d) \/ (asks(c, d) /\ ~asks(c, d)')
  BY <1>1, <1>4, RespondsStep, AskedNoMore
<1>6. askedOnce(c, d)'
  BY <1>1, SteadyFacts, AskedOnceStep
<1> QED
  BY <1>1, <1>2, <1>3, <1>5, <1>6

-----------------------------------------------------------------------------
(* What becomes of a domain while all goes well *)

cleanedUp(d) == domains[d] = "ACTIVATION_SUCCESS" /\ \E v \in Finished : becomes(d, v)

LEMMA ReportFacts ==
    ASSUME proceeds, intact', NEW d \in Domains, NEW s \in FeedbackStatus, reports(d, s)
    PROVE  /\ intact
           /\ identified(d, s) \/ advanced(d, s) \/ cleanedUp(d)
<1>1. AsideInv /\ tells(s, d)
  BY SteadyFacts DEF reports
<1>2. \A c : s \in replies(c) => responds(c, d) /\ involves(c, d)
  BY <1>1 DEF responds, involves
<1>3. CASE turnedBack(d, s)
  <2>1. intact /\ involves("ROLLBACK", d)
    BY <1>2, <1>3 DEF turnedBack, intact
  <2> QED
    BY <1>1, <2>1 DEF AsideInv
<1>4. CASE brokenOff(d, s)
  BY <1>4 DEF brokenOff, intact
<1>5. CASE finished(d, s)
  <2>1. intact /\ involves("CLEANUP", d)
    BY <1>2, <1>5 DEF finished, intact
  <2>2. domains[d] \in {"ACTIVATION_SUCCESS"} \cup Finished
    BY <1>1, <2>1 DEF AsideInv
  <2> QED
    BY <1>5, <2>1, <2>2 DEF finished, cleanedUp
<1>6. CASE identified(d, s) \/ advanced(d, s)
  BY <1>6 DEF identified, advanced, intact
<1> QED
  BY <1>3, <1>4, <1>5, <1>6 DEF reports

LEMMA DomainKept ==
    ASSUME proceeds, intact', NEW d \in Domains
    PROVE  /\ intact /\ DOMAIN domains' = DOMAIN domains
           /\ \/ d \in DOMAIN domains => domains'[d] = domains[d]
              \/ \E s \in FeedbackStatus :
                   reports(d, s) /\ (identified(d, s) \/ advanced(d, s) \/ cleanedUp(d))
<1>1. CASE UNCHANGED domains /\ (intact' => intact)
  BY <1>1
<1>2. ASSUME NEW e \in Domains, NEW s \in FeedbackStatus, reports(e, s)
      PROVE  /\ intact /\ DOMAIN domains' = DOMAIN domains
             /\ \/ d \in DOMAIN domains => domains'[d] = domains[d]
                \/ reports(d, s) /\ (identified(d, s) \/ advanced(d, s) \/ cleanedUp(d))
  <2>1. intact /\ (identified(e, s) \/ advanced(e, s) \/ cleanedUp(e))
    BY <1>2, ReportFacts
  <2>2. \E v : becomes(e, v)
    BY <2>1 DEF identified, advanced, cleanedUp
  <2>3. DOMAIN domains' = DOMAIN domains /\ (d # e /\ d \in DOMAIN domains => domains'[d] = domains[d])
    BY <2>2 DEF becomes
  <2> QED
    BY <1>2, <2>1, <2>3
<1> QED
  BY <1>1, <1>2, SteadyFacts, DomainsStep

\* where a domain is when a report of it changes something
LEMMA ReportPlace ==
    ASSUME proceeds, intact', NEW d \in Domains, NEW s \in FeedbackStatus, reports(d, s)
    PROVE  /\ d \in DOMAIN domains
           /\ identified(d, s) => ~reached("DOWNLOAD") /\ responds("identify", d)
           /\ advanced(d, s) => \E c \in Phases : /\ s = success(c) /\ domains[d] \in from(c) /\ domains'[d] = s
                                                  /\ responds(c, d) /\ reached("DOWNLOAD")
           /\ cleanedUp(d) => domains[d] = "ACTIVATION_SUCCESS" /\ domains'[d] \in Finished
           /\ UNCHANGED <<requests, activity, applying, pc>> /\ todo = <<>>
<1>1. /\ tells(s, d) /\ d \in DOMAIN domains
      /\ UNCHANGED <<requests, activity, applying, pc>> /\ todo = <<>>
  BY DEF reports
<1>2. \A v : becomes(d, v) => domains'[d] = v
  BY <1>1, SteadyFacts DEF becomes
<1>3. identified(d, s) => ~reached("DOWNLOAD") /\ responds("identify", d)
  BY <1>1, InvolvedReached DEF identified, responds
<1>4. ASSUME NEW c \in Phases, s = success(c), domains[d] \in from(c), becomes(d, s)
      PROVE  domains'[d] = s /\ responds(c, d) /\ reached("DOWNLOAD")
  <2>1. s \in replies(c)
    BY <1>4 DEF success, replies, ReportsOf, Phases
  <2>2. responds(c, d)
    BY <1>1, <2>1 DEF responds
  <2> QED
    BY <1>2, <1>4, <2>2, InvolvedReached
<1>5. cleanedUp(d) => domains[d] = "ACTIVATION_SUCCESS" /\ domains'[d] \in Finished
  BY <1>2 DEF cleanedUp
<1> QED
  BY <1>1, <1>3, <1>4, <1>5 DEF advanced

LEMMA StatusSets ==
    /\ \A b, c \in Steps : from(b) \cap from(c) # {} => b = c
    /\ \A c \in Steps : /\ takes(c) = from(c) /\ from(c) \cap ({"ACTIVATION_SUCCESS"} \cup Finished) = {}
                        /\ success(c) \notin from(c) /\ success(c) \in replies(c)
    /\ \A c \in Phases : /\ success(c) \in {"DOWNLOAD_SUCCESS", "UPDATE_SUCCESS", "ACTIVATION_SUCCESS"}
                         /\ from("identify") \cap {success(c)} = {} /\ c # "identify"
    /\ Steps \subseteq AllCommands \cup {"identify"} /\ "CLEANUP" \notin Steps /\ "ROLLBACK" \notin Steps
    /\ Phases \subseteq Steps /\ "identify" \in Steps
  BY DEF Steps, Phases, from, takes, success, replies, ReportsOf, Finished, AllCommands, Commands

LEMMA PlaceTargeted ==
    ASSUME proceeds, intact', NEW d \in Domains, NEW c \in Steps, targeted(c, d)'
    PROVE  d \in DOMAIN domains' /\ domains'[d] \in from(c)
<1>1. c # "CLEANUP" /\ c # "ROLLBACK" /\ takes(c) = from(c) /\ intact /\ DOMAIN domains' = DOMAIN domains
  BY StatusSets, DomainKept
<1>2. CASE targeted(c, d)
  <2>1. d \in DOMAIN domains /\ domains[d] \in from(c)
    BY <1>1, <1>2, SteadyFacts DEF PlaceInv
  <2>2. \A s : ~reports(d, s)
    BY <1>2 DEF targeted, reports
  <2> QED
    BY <1>1, <2>1, <2>2, DomainKept
<1>3. ASSUME NEW ds, d \in ds, issues(c, ds)
      PROVE  d \in DOMAIN domains' /\ domains'[d] \in from(c)
  BY <1>1, <1>3 DEF issues
<1> QED
  BY <1>1, <1>2, <1>3, SteadyFacts, TargetedStep

LEMMA PlaceAsks ==
    ASSUME proceeds, intact', NEW d \in Domains, NEW c \in Steps, asks(c, d)'
    PROVE  d \in DOMAIN domains' /\ domains'[d] \in from(c)
<1>1. PlaceInv /\ OnceInv /\ intact /\ DOMAIN domains' = DOMAIN domains
  BY SteadyFacts, DomainKept
<1>2. d \in DOMAIN domains /\ domains[d] \in from(c)
  <2>1. CASE asks(c, d) \/ targeted(c, d)
    BY <1>1, <2>1 DEF PlaceInv
  <2>2. CASE c = "identify" /\ applying[d] = "spawned"
    BY <1>1, <2>2 DEF PlaceInv
  <2> QED
    BY <2>1, <2>2, AsksIssued
<1>3. ASSUME NEW s \in FeedbackStatus, reports(d, s), identified(d, s) \/ advanced(d, s) \/ cleanedUp(d)
      PROVE  FALSE
  <2>1. asks(c, d)
    <3>1. UNCHANGED <<requests, activity>>
      BY <1>3, ReportPlace
    <3> QED
      BY <3>1 DEF asks
  <2>2. ~responds(c, d)
    BY <1>1, <2>1 DEF OnceInv
  <2>3. c \in Phases => reached("DOWNLOAD")
    BY <2>1, InvolvedReached
  <2>4. CASE identified(d, s)
    BY <1>3, <2>2, <2>3, <2>4, ReportPlace DEF Steps
  <2>5. CASE advanced(d, s)
    <3>1. PICK b \in Phases : domains[d] \in from(b) /\ responds(b, d)
      BY <1>3, <2>5, ReportPlace
    <3> QED
      BY <1>2, <2>2, <3>1, StatusSets
  <2>6. CASE cleanedUp(d)
    BY <1>2, <2>6, StatusSets DEF cleanedUp
  <2> QED
    BY <1>3, <2>4, <2>5, <2>6
<1> QED
  BY <1>1, <1>2, <1>3, DomainKept

LEMMA PlaceStep == proceeds => PlaceInv'
<1> SUFFICES ASSUME proceeds, intact', NEW d \in Domains
             PROVE  /\ \A c \in Steps : targeted(c, d)' \/ asks(c, d)' => d \in DOMAIN domains' /\ domains'[d] \in from(c)
                    /\ applying'[d] = "spawned" => d \in DOMAIN domains'
                    /\ (pc' = "identify" \/ applying'[d] = "spawned") /\ d \in DOMAIN domains'
                         => domains'[d] \in from("identify")
                    /\ d \in DOMAIN domains' /\ domains'[d] \in {"DOWNLOAD_SUCCESS", "UPDATE_SUCCESS", "ACTIVATION_SUCCESS"}
                         => reached("DOWNLOAD")'
  BY DEF PlaceInv
<1>1. PlaceInv /\ OnceInv /\ intact /\ DOMAIN domains' = DOMAIN domains
  BY SteadyFacts, DomainKept
<1>2. applying'[d] = "spawned" => d \in DOMAIN domains'
  BY <1>1, ApplyingStep DEF PlaceInv
<1>3. ASSUME pc' = "identify" \/ applying'[d] = "spawned", d \in DOMAIN domains'
      PROVE  domains'[d] \in from("identify")
  <2>1. domains[d] \in from("identify")
    BY <1>1, <1>3, ApplyingStep DEF PlaceInv
  <2>2. ASSUME NEW s \in FeedbackStatus, reports(d, s), identified(d, s) \/ advanced(d, s) \/ cleanedUp(d)
        PROVE  FALSE
    <3>1. pc = "identify" \/ applying[d] = "spawned"
      BY <1>3, <2>2, ReportPlace
    <3>2. ~responds("identify", d)
      BY <1>1, <3>1, StatusSets DEF OnceInv, unissued
    <3>3. ~advanced(d, s) /\ ~cleanedUp(d)
      <4>1. \A c \in Phases : domains[d] \notin from(c)
        BY <2>1, StatusSets
      <4>2. domains[d] # "ACTIVATION_SUCCESS"
        BY <2>1, StatusSets
      <4> QED
        BY <4>1, <4>2 DEF advanced, cleanedUp
    <3> QED
      BY <2>2, <3>2, <3>3, ReportPlace
  <2> QED
    BY <1>1, <1>3, <2>1, <2>2, DomainKept
<1>4. ASSUME d \in DOMAIN domains', domains'[d] \in {"DOWNLOAD_SUCCESS", "UPDATE_SUCCESS", "ACTIVATION_SUCCESS"}
      PROVE  reached("DOWNLOAD")'
  <2>1. CASE domains'[d] = domains[d]
    BY <1>1, <1>4, <2>1, InvolvedReached DEF PlaceInv
  <2>2. ASSUME NEW s \in FeedbackStatus, reports(d, s), identified(d, s) \/ advanced(d, s) \/ cleanedUp(d)
        PROVE  reached("DOWNLOAD")'
    <3>1. CASE identified(d, s)
      <4>1. domains'[d] \in {"IDENTIFIED", "IDENTIFICATION_FAILED", "CLEANUP_SUCCESS"}
        BY <3>1, <2>2, <1>1, <1>4, SteadyFacts DEF identified, becomes, replies
      <4> QED
        BY <1>4, <4>1
    <3>2. CASE advanced(d, s)
      BY <2>2, <3>2, ReportPlace, InvolvedReached
    <3>3. CASE cleanedUp(d)
      BY <1>4, <2>2, <3>3, ReportPlace DEF Finished
    <3> QED
      BY <2>2, <3>1, <3>2, <3>3
  <2> QED
    BY <1>1, <1>4, <2>1, <2>2, DomainKept
<1>5. \A c \in Steps : targeted(c, d)' \/ asks(c, d)' => d \in DOMAIN domains' /\ domains'[d] \in from(c)
  BY PlaceTargeted, PlaceAsks
<1> QED
  BY <1>2, <1>3, <1>4, <1>5

LEMMA IntactStep == proceeds => IntactInv'
<1> SUFFICES ASSUME proceeds, ~intact'
             PROVE  reached("DOWNLOAD")'
  BY DEF IntactInv
<1> SUFFICES reached("DOWNLOAD")
  BY InvolvedReached
<1>1. IntactInv /\ AsideInv /\ TypeOK /\ "publish" \notin Faults /\ activity \in Nat
  BY SteadyFacts DEF TypeOK
<1>2. CASE ~intact
  BY <1>1, <1>2 DEF IntactInv
<1>3. CASE UNCHANGED delayedStatus
  BY <1>2, <1>3 DEF intact
<1>4. CASE Deliver
  <2>1. ASSUME NEW d \in Domains, NEW s \in FeedbackStatus, reports(d, s)
        PROVE  reached("DOWNLOAD")
    <3>1. tells(s, d)
      BY <2>1 DEF reports
    <3>2. CASE brokenOff(d, s)
      <4>1. CASE s \in replies("ROLLBACK")
        <5>1. involves("ROLLBACK", d)
          BY <3>1, <4>1 DEF involves, responds
        <5> QED
          BY <1>1, <1>2, <5>1 DEF AsideInv
      <4>2. ASSUME NEW c \in Phases, s \in ReportsOf(c)
            PROVE  reached("DOWNLOAD")
        <5>1. replies(c) = ReportsOf(c)
          BY <4>2 DEF replies, Phases
        <5>2. responds(c, d)
          BY <3>1, <4>2, <5>1 DEF responds
        <5> QED
          BY <5>2, InvolvedReached
      <4> QED
        BY <3>2, <4>1, <4>2 DEF brokenOff
    <3>3. CASE finished(d, s)
      <4>1. involves("CLEANUP", d)
        BY <3>1, <3>3 DEF finished, involves, responds
      <4> QED
        BY <1>1, <1>2, <4>1 DEF AsideInv
    <3>4. CASE identified(d, s) \/ advanced(d, s) \/ turnedBack(d, s)
      BY <1>3, <3>4 DEF identified, advanced, turnedBack
    <3> QED
      BY <2>1, <3>2, <3>3, <3>4 DEF reports
  <2> QED
    BY <1>3, <1>4, <2>1, SteadyFacts, DeliverOutcome
<1>5. CASE OwnerConsented \/ OwnerConsentFailed
  <2>1. todo # <<>> /\ Head(todo).op = "consent"
    BY <1>5 DEF OwnerConsented, OwnerConsentFailed, awaitingConsent
  <2>2. Head(todo).command \in Phases
    <3>1. 1 \in DOMAIN todo /\ todo[1] = Head(todo)
      BY <1>1, <2>1, FirstTodo
    <3> QED
      BY <2>1, <3>1, SteadyFacts DEF LastInv
  <2>3. consulted(Head(todo).command)
    BY <1>1, <2>1, FirstTodo DEF consulted
  <2> QED
    BY <2>2, <2>3, InvolvedReached
<1>6. ASSUME NEW h \in handlers, HandlerStep(h), ~UNCHANGED delayedStatus
      PROVE  reached("DOWNLOAD")
  <2>1. h.command \in Phases
    BY <1>1, <1>6, ConstantsAssumption DEF HandlerStep, HandleCommandSignal, Phases
  <2> QED
    BY <1>6, <2>1, HandlerTaken, SteadyFacts, InvolvedReached
<1>7. CASE Start
  <2>1. activity' = activity + 1
    BY <1>7, Zenon DEF Start, SetupUpdateOperation
  <2> QED
    BY <1>1, <2>1, SteadyFacts
<1>8. CASE ApplyStep \/ Timeout \/ TerminateStep \/ HoldLockStep \/ ConsentTimeout
  <2>1. CASE DisposeUpdateOperation
    BY <2>1, SteadyFacts DEF DisposeUpdateOperation
  <2>2. CASE Identify \/ Wait \/ ReturnReboot \/ ReportFinal \/ PhaseTimeout \/ Terminate
    BY <1>3, <2>2 DEF Identify, Wait, ErrorSignalled, RollbackSignalled, Signalled, ContextDone, applyUnchanged,
                      ReturnReboot, ReportFinal, PhaseTimeout, Terminate, opVars
  <2>3. CASE NotifyFeedback \/ UpdateStatus \/ SendSignal
    BY <1>3, <2>3 DEF NotifyFeedback, UpdateStatus, SendSignal, holderUnchanged
  <2> QED
    BY <1>5, <1>8, <2>1, <2>2, <2>3 DEF ApplyStep, Apply, Timeout, TerminateStep, HoldLockStep, HoldLock, ConsentTimeout
<1>9. CASE \/ \E d \in Domains : \/ DesiredState(d) \/ DesiredStateFailed(d)
                                 \/ CommandStep(d) \/ CommandStepFailed(d)
  <2>1. ASSUME NEW d \in Domains
        PROVE  ~DesiredStateFailed(d)
    BY SteadyFacts DEF DesiredStateFailed, SendDesiredStateFailed, SentInv
  <2> QED
    BY <1>3, <1>9, <2>1 DEF DesiredState, SendDesiredState, CommandStep, CommandStepFailed, CommandDomain,
                            CommandFailed, holderUnchanged, opVars
<1>10. CASE \/ TakeConsent
            \/ \E approved \in BOOLEAN : OwnerAnswers(approved)
            \/ \E d \in Domains : AgentAnswers(d) \/ TakeFeedback(d)
            \/ UNCHANGED allVars
  <2>1. UNCHANGED vars
    BY <1>10 DEF TakeConsent, OwnerAnswers, AgentAnswers, TakeFeedback, allVars
  <2> QED
    BY <1>3, <2>1 DEF vars, opVars
<1> QED
  BY <1>3, <1>4, <1>6, <1>7, <1>8, <1>9, <1>10, SteadyFacts DEF NextActivity, Untimed

LEMMA AsideRollback ==
    ASSUME proceeds, intact', NEW d \in Domains
    PROVE  ~involves("ROLLBACK", d)'
<1>1. ~targeted("ROLLBACK", d) /\ ~asks("ROLLBACK", d) /\ ~responds("ROLLBACK", d)
  BY SteadyFacts, DomainKept DEF AsideInv, involves
<1>2. ~targeted("ROLLBACK", d)'
  <2>1. ASSUME NEW ds, issues("ROLLBACK", ds)
        PROVE  FALSE
    <3>1. "ROLLBACK" \notin Commands
      BY DEF Commands
    <3>2. \A h \in handlers : h.command # "ROLLBACK"
      BY <3>1, SteadyFacts DEF TypeOK
    <3>3. todo # <<>> /\ Head(todo).op = "consent" => Head(todo).command # "ROLLBACK"
      BY <3>1, SteadyFacts, HeadFields
    <3> QED
      BY <2>1, <3>2, <3>3 DEF issues
  <2> QED
    BY <1>1, <2>1, SteadyFacts, TargetedStep
<1>3. ~asks("ROLLBACK", d)'
  BY <1>1, SteadyFacts, AsksStep
<1>4. ~responds("ROLLBACK", d)'
  <2>1. "ROLLBACK" \in AllCommands
    BY DEF AllCommands
  <2> QED
    BY <1>1, <2>1, RespondsStep
<1> QED
  BY <1>2, <1>3, <1>4 DEF involves

LEMMA AsideCleanup ==
    ASSUME proceeds, intact', NEW d \in Domains, involves("CLEANUP", d)'
    PROVE  /\ d \in DOMAIN domains' /\ domains'[d] \in {"ACTIVATION_SUCCESS"} \cup Finished
           /\ reached("DOWNLOAD")'
<1>1. AsideInv /\ PlaceInv /\ intact /\ DOMAIN domains' = DOMAIN domains
  BY SteadyFacts, DomainKept
<1>2. involves("CLEANUP", d) \/ \E ds : d \in ds /\ issues("CLEANUP", ds)
  <2>1. CASE targeted("CLEANUP", d)'
    <3>1. \A s \in FeedbackStatus : ~(reports(d, s) /\ brokenOff(d, s))
      BY DEF brokenOff, intact
    <3> QED
      BY <2>1, <3>1, SteadyFacts, TargetedStep DEF involves
  <2>2. CASE asks("CLEANUP", d)'
    BY <2>2, SteadyFacts, AsksStep DEF involves
  <2>3. CASE responds("CLEANUP", d)'
    <3>1. "CLEANUP" \in AllCommands
      BY DEF AllCommands, Commands
    <3> QED
      BY <2>3, <3>1, RespondsStep DEF involves
  <2> QED
    BY <2>1, <2>2, <2>3 DEF involves
<1>3. CASE involves("CLEANUP", d)
  <2>1. d \in DOMAIN domains /\ domains[d] \in {"ACTIVATION_SUCCESS"} \cup Finished /\ reached("DOWNLOAD")
    BY <1>1, <1>3 DEF AsideInv
  <2>2. ASSUME NEW s \in FeedbackStatus, reports(d, s), identified(d, s) \/ advanced(d, s) \/ cleanedUp(d)
        PROVE  domains'[d] \in Finished
    <3>1. ~identified(d, s)
      BY <2>1, <2>2, ReportPlace
    <3>2. ~advanced(d, s)
      BY <2>1, StatusSets DEF advanced
    <3> QED
      BY <2>2, <3>1, <3>2, ReportPlace
  <2> QED
    BY <1>1, <2>1, <2>2, DomainKept, InvolvedReached
<1>4. ASSUME NEW ds, d \in ds, issues("CLEANUP", ds)
      PROVE  d \in DOMAIN domains' /\ domains'[d] = "ACTIVATION_SUCCESS" /\ reached("DOWNLOAD")'
  <2>1. UNCHANGED domains /\ d \in DOMAIN domains /\ domains[d] \in {"ACTIVATION_SUCCESS", "ROLLBACK_SUCCESS"}
    BY <1>4 DEF issues, takes
  <2>2. domains[d] # "ROLLBACK_SUCCESS"
    BY <1>1, <2>1 DEF AsideInv, Finished
  <2> QED
    BY <1>1, <2>1, <2>2, InvolvedReached DEF PlaceInv
<1> QED
  BY <1>2, <1>3, <1>4

LEMMA AsideStep == proceeds => AsideInv'
<1> DEFINE orderly == {"IDENTIFYING", "IDENTIFICATION_FAILED", "IDENTIFIED", "DOWNLOAD_SUCCESS",
                       "UPDATE_SUCCESS", "ACTIVATION_SUCCESS"} \cup Finished
<1> SUFFICES ASSUME proceeds, intact', NEW d \in DOMAIN domains'
             PROVE  domains'[d] \in orderly
  BY AsideRollback, AsideCleanup DEF AsideInv
<1>1. AsideInv /\ intact /\ DOMAIN domains' = DOMAIN domains /\ d \in Domains
  BY SteadyFacts, DomainKept DEF TypeOK
<1>2. domains[d] \in orderly
  BY <1>1 DEF AsideInv
<1>3. ASSUME NEW s \in FeedbackStatus, reports(d, s), identified(d, s) \/ advanced(d, s) \/ cleanedUp(d)
      PROVE  domains'[d] \in orderly
  <2>1. CASE identified(d, s)
    BY <1>1, <2>1, SteadyFacts DEF identified, becomes, replies, Finished
  <2>2. CASE advanced(d, s)
    <3>1. PICK c \in Phases : domains'[d] = success(c)
      BY <1>1, <1>3, <2>2, ReportPlace
    <3> QED
      BY <3>1, StatusSets
  <2>3. CASE cleanedUp(d)
    BY <1>1, <1>3, <2>3, ReportPlace
  <2> QED
    BY <1>3, <2>1, <2>2, <2>3
<1> QED
  BY <1>1, <1>2, <1>3, DomainKept

\* where a domain failed it stays
LEMMA StuckStep ==
    ASSUME proceeds, intact', NEW c \in Steps, NEW d \in Domains, stuck(c, d)
    PROVE  stuck(c, d)'
<1>1. /\ d \in DOMAIN domains /\ domains[d] \in from(c) /\ DOMAIN domains' = DOMAIN domains
      /\ ~unissued(c, d) /\ ~asks(c, d) /\ ~tells(success(c), d)
      /\ c \in Phases => reached("DOWNLOAD")
  BY DomainKept DEF stuck
<1>2. ~unissued(c, d)' /\ ~asks(c, d)'
  BY <1>1, UnissuedStep, AsksIssued
<1>3. ~tells(success(c), d)'
  <2>1. ASSUME NEW e \in Domains, AgentAnswers(e), tells(success(c), d)'
        PROVE  FALSE
    <3>1. PICK result : answersWith(e, result)
      BY <2>1, SteadyFacts, AnswersOutcome
    <3>2. PICK i \in DOMAIN result : success(c) = result[i] /\ d = e /\ requests[e][1].activity = activity
      BY <1>1, <2>1, <3>1 DEF answersWith
    <3>3. requests[e][1].job \in AllCommands \cup {"identify"} /\ result \in Results(requests[e][1].job)
      BY <3>1 DEF answersWith, Request
    <3>4. requests[e][1].job = c
      BY <3>2, <3>3, ResultsReply, StatusSets
    <3>5. asks(c, d)
      BY <3>1, <3>2, <3>4 DEF answersWith, asks
    <3> QED
      BY <1>1, <3>5
  <2> QED
    BY <1>1, <2>1, SteadyFacts, TellsStep
<1>4. domains'[d] \in from(c)
  <2>1. ASSUME NEW s \in FeedbackStatus, reports(d, s), identified(d, s) \/ advanced(d, s) \/ cleanedUp(d)
        PROVE  domains'[d] \in from(c)
    <3>1. CASE identified(d, s)
      <4>1. c = "identify"
        BY <1>1, <2>1, <3>1, ReportPlace DEF Steps
      <4>2. s # "IDENTIFIED"
        BY <1>1, <2>1, <4>1 DEF reports, success
      <4>3. s = "IDENTIFICATION_FAILED" /\ becomes(d, s)
        BY <3>1, <4>2 DEF identified, replies
      <4> QED
        BY <1>1, <4>1, <4>3, SteadyFacts DEF becomes, from
    <3>2. CASE advanced(d, s)
      <4>1. PICK b \in Phases : s = success(b) /\ domains[d] \in from(b)
        BY <2>1, <3>2, ReportPlace
      <4>2. b = c
        BY <1>1, <4>1, StatusSets
      <4> QED
        BY <1>1, <2>1, <4>1, <4>2 DEF reports
    <3>3. CASE cleanedUp(d)
      BY <1>1, <2>1, <3>3, ReportPlace, StatusSets
    <3> QED
      BY <2>1, <3>1, <3>2, <3>3
  <2> QED
    BY <1>1, <2>1, DomainKept
<1> QED
  BY <1>1, <1>2, <1>3, <1>4, InvolvedReached DEF stuck

\* only the answer to a request says that a domain has failed
LEMMA FailedChange ==
    ASSUME TypeOKActivity, SentInv, [NextActivity]_allVars, activity' = activity
    PROVE  \/ failed' = failed
           \/ \E d \in Domains : \E result : answersWith(d, result)
<1>1. CASE \E d \in Domains : AgentAnswers(d)
  BY <1>1, AnswersOutcome
<1>2. CASE Start
  <2>1. activity' = activity + 1 /\ activity \in Nat
    <3>1. activity' = activity + 1
      BY <1>2, Zenon DEF Start, SetupUpdateOperation
    <3> QED
      BY <3>1 DEF TypeOKActivity, TypeOK
  <2> QED
    BY <2>1
<1>3. CASE \E d \in Domains : DesiredStateFailed(d)
  BY <1>3 DEF DesiredStateFailed, SendDesiredStateFailed, SentInv
<1>4. CASE \/ ApplyStep \/ HoldLockStep \/ Deliver \/ Timeout \/ ConsentTimeout
           \/ TerminateStep \/ TakeConsent \/ \E h \in handlers : HandlerStep(h)
  BY <1>4 DEF ApplyStep, HoldLockStep, Deliver, Timeout, ConsentTimeout, TerminateStep, TakeConsent, HandlerStep,
              envVars
<1>5. CASE \/ \E approved \in BOOLEAN : OwnerAnswers(approved)
           \/ \E d \in Domains : \/ DesiredState(d) \/ CommandStep(d) \/ CommandStepFailed(d) \/ TakeFeedback(d)
           \/ UNCHANGED allVars
  BY <1>5 DEF OwnerAnswers, DesiredState, CommandStep, CommandStepFailed, TakeFeedback, allVars, envVars
<1> QED
  BY <1>1, <1>2, <1>3, <1>4, <1>5 DEF NextActivity, Untimed

LEMMA FailedStep == proceeds => FailedInv'
<1> SUFFICES ASSUME proceeds, intact', NEW d \in failed'
             PROVE  \E c \in Steps : stuck(c, d)'
  BY DEF FailedInv
<1>1. FailedInv /\ PlaceInv /\ OnceInv /\ AsideInv /\ intact /\ d \in Domains
  BY SteadyFacts, DomainKept DEF TypeOKActivity
<1>2. CASE d \in failed
  BY <1>1, <1>2, StuckStep DEF FailedInv
<1>3. ASSUME NEW e \in Domains, NEW result, answersWith(e, result), d \notin failed
      PROVE  \E c \in Steps : stuck(c, d)'
  <2>1. /\ e = d /\ requests[d][1].activity = activity
        /\ \E i \in DOMAIN result : result[i] \in Failures
    BY <1>3 DEF answersWith
  <2>1a. requests[d][1].job \in AllCommands \cup {"identify"}
    BY <1>3, <2>1 DEF answersWith, Request
  <2>1b. PICK c \in AllCommands \cup {"identify"} : c = requests[d][1].job
    BY <2>1a
  <2>2. AgentAnswers(d) /\ 1 \in DOMAIN requests[d] /\ result \in Results(c)
    BY <1>3, <2>1, <2>1b DEF answersWith
  <2>3. asks(c, d)
    BY <2>1, <2>1b, <2>2 DEF asks
  <2>4. c \in Steps
    <3>1. c \in Steps \cup {"ROLLBACK"}
      BY <2>1, <2>2, ResultsReply
    <3>2. c # "ROLLBACK"
      BY <1>1, <2>3 DEF AsideInv, involves
    <3> QED
      BY <3>1, <3>2
  <2>5. d \in DOMAIN domains /\ domains[d] \in from(c)
    BY <1>1, <2>3, <2>4 DEF PlaceInv
  <2>6. ~unissued(c, d) /\ ~responds(c, d) /\ askedOnce(c, d)
    BY <1>1, <2>3, <2>4 DEF OnceInv
  <2>7. ~unissued(c, d)'
    BY <1>1, <2>4, <2>6, UnissuedStep
  <2>8. ~asks(c, d)'
    BY <2>1, <2>1b, <2>2, <2>6, AskedNoMore
  <2>9. ~tells(success(c), d)'
    <3>1. ~tells(success(c), d)
      BY <2>4, <2>6, StatusSets DEF responds
    <3>2. \A i \in DOMAIN result : result[i] # success(c)
      BY <2>1, <2>2, <2>4, ResultsReply
    <3> QED
      BY <1>3, <2>1, <3>1, <3>2 DEF answersWith
  <2>10. c \in Phases => reached("DOWNLOAD")'
    BY <1>1, <2>3, InvolvedReached
  <2>11. UNCHANGED domains
    BY <2>2 DEF AgentAnswers, vars, opVars
  <2> QED
    BY <2>4, <2>5, <2>7, <2>8, <2>9, <2>10, <2>11 DEF stuck
<1> QED
  BY <1>2, <1>3, SteadyFacts, FailedChange

-----------------------------------------------------------------------------
(* An activity that completes *)

LEMMA SentStep ==
    ASSUME TypeOKActivity, SentInv, "publish" \notin Faults, [NextActivity]_allVars
    PROVE  SentInv'
<1>1. CASE Start
  BY <1>1 DEF Start, SetupUpdateOperation, SentInv
<1>2. CASE ~Start
  <2>1. activity' = activity
    BY <1>2, NewActivity
  <2> QED
    BY <2>1, SpawnStep DEF SentInv
<1> QED
  BY <1>1, <1>2

LEMMA LastStep ==
    ASSUME TypeOKActivity, IdleInv, ProgressInv, SentInv, LastInv, "publish" \notin Faults, [NextActivity]_allVars
    PROVE  LastInv'
<1> SUFFICES ASSUME NEW i \in DOMAIN todo', todo'[i].op = "consent"
             PROVE  Len(todo') = 1 /\ todo'[i].command \in Phases
  BY CommandsStep DEF LastInv
<1>1. TypeOK /\ todo'[i].op # "command" /\ ~refusal(todo'[i]) /\ todo'[i] # Blocked
  BY EffectFields DEF TypeOKActivity, refusal
<1>2. CASE restOfSteps
  BY <1>2 DEF restOfSteps, LastInv
<1>3. ASSUME NEW h \in handlers, HandleCommandSignal(h)
      PROVE  Len(todo') = 1 /\ todo'[i].command \in Phases
  <2>1. todo' = <<AwaitConsent(h.command, h.spawnedIn)>> /\ h.command \in OwnerConsentCommands
    BY <1>1, <1>3, HandlerEntries
  <2>2. todo'[i].command = h.command
    BY <2>1, SingletonEntry, EffectFields
  <2> QED
    BY <2>1, <2>2, ConstantsAssumption DEF Phases
<1>4. CASE OwnerConsented \/ OwnerConsentFailed
  BY <1>1, <1>4, QuestionEnds
<1>5. CASE HolderWork
  <2>1. \E j \in DOMAIN todo : todo'[i] = todo[j]
    BY <1>1, <1>5, HolderEntries
  <2>2. PICK j \in DOMAIN todo : todo'[i] = todo[j]
    BY <2>1
  <2>3. Len(todo) = 1 /\ todo[j].op = "consent"
    BY <2>2 DEF LastInv
  <2>4. todo \in Seq(Effect)
    BY <1>1 DEF TypeOK
  <2>5. DOMAIN todo = {1} /\ todo # <<>>
    BY <2>3, <2>4, LenProperties, SMTT(60)
  <2>6. Head(todo).op = "consent"
    BY <1>1, <2>3, <2>5, FirstTodo
  <2>7. Head(todo).op # "consent"
    BY <1>5 DEF HolderWork, NotifyFeedback, UpdateStatus, SendSignal, CommandDomain, CommandFailed
  <2> QED
    BY <2>6, <2>7
<1>6. CASE reportHandled \/ sendFailureHandled
  BY <1>6, FeedbackEntries DEF reportHandled, sendFailureHandled
<1> QED
  BY <1>2, <1>3, <1>4, <1>5, <1>6, ActivityKinds

\* completed, or about to be
completes == status = "COMPLETED" \/ toComplete \/ reported = "COMPLETED"

\* the last report of the activity
closes ==
    \E d \in Domains, s \in FeedbackStatus :
        /\ reports(d, s)
        /\ \/ identified(d, s) /\ todo' = nothingToDo
              /\ ~Some(domains', {"IDENTIFYING", "IDENTIFICATION_FAILED", "IDENTIFIED"})
           \/ todo' = <<SetStatus("COMPLETED"), Send("done", "true")>> /\ intact'
              /\ ~Some(domains', DomainStatus \ Finished)

LEMMA EntryOrigin ==
    ASSUME TypeOKActivity, SentInv, "publish" \notin Faults, [NextActivity]_allVars,
           NEW i \in DOMAIN todo', todo'[i].op = "setStatus"
    PROVE  \/ \E j \in DOMAIN todo : todo'[i] = todo[j]
           \/ todo'[i] = SetStatus("INCOMPLETE")
           \/ Deliver
<1>1. TypeOK
  BY DEF TypeOKActivity
<1>2. ASSUME NEW h \in handlers, HandlerStep(h)
      PROVE  todo'[i] = SetStatus("INCOMPLETE")
  <2>1. HandleCommandSignal(h)
    BY <1>2 DEF HandlerStep
  <2>2. \/ todo' = <<AwaitConsent(h.command, h.spawnedIn)>>
        \/ refusal(todo'[i])
    BY <1>1, <2>1, HandlerEntries
  <2>3. todo' # <<AwaitConsent(h.command, h.spawnedIn)>>
    BY SingletonEntry, EffectFields
  <2> QED
    BY <2>2, <2>3, EffectFields DEF refusal
<1>3. CASE OwnerConsented \/ OwnerConsentFailed
  <2>1. refusal(todo'[i])
    BY <1>1, <1>3, ConsentEntries
  <2> QED
    BY <2>1, EffectFields DEF refusal
<1>4. CASE HolderWork
  <2>1. Blocked.op # "setStatus"
    BY EffectFields
  <2> QED
    BY <1>1, <1>4, <2>1, HolderEntries
<1>5. CASE HoldLockStep \/ ConsentTimeout
  BY <1>3, <1>4, <1>5 DEF HoldLockStep, ConsentTimeout, HoldLock, HolderWork
<1>6. ASSUME NEW d \in Domains, DesiredState(d) \/ DesiredStateFailed(d) \/ CommandStep(d) \/ CommandStepFailed(d)
      PROVE  \E j \in DOMAIN todo : todo'[i] = todo[j]
  <2>1. CASE CommandStep(d)
    <3>1. HolderWork
      BY <2>1 DEF CommandStep, HolderWork
    <3>2. Blocked.op # "setStatus" /\ SetStatus("INCOMPLETE").op = "setStatus"
      BY EffectFields
    <3> QED
      BY <1>1, <3>1, <3>2, HolderEntries
  <2> QED
    BY <1>6, <2>1 DEF DesiredState, SendDesiredState, DesiredStateFailed, SendDesiredStateFailed, SentInv,
                      CommandStepFailed, CommandFailed
<1>7. CASE Start \/ ApplyStep \/ Timeout \/ TerminateStep
  BY <1>7 DEF Start, SetupUpdateOperation, ApplyStep, Apply, Identify, Wait, ErrorSignalled, RollbackSignalled,
              Signalled, ContextDone, applyUnchanged, ReturnReboot, ReportFinal, DisposeUpdateOperation,
              Timeout, PhaseTimeout, TerminateStep, Terminate
<1>8. CASE \/ TakeConsent
           \/ \E approved \in BOOLEAN : OwnerAnswers(approved)
           \/ \E d \in Domains : AgentAnswers(d) \/ TakeFeedback(d)
           \/ UNCHANGED allVars
  <2>1. UNCHANGED vars
    BY <1>8 DEF TakeConsent, OwnerAnswers, AgentAnswers, TakeFeedback, allVars
  <2> QED
    BY <2>1 DEF vars
<1> QED
  BY <1>2, <1>5, <1>6, <1>7, <1>8 DEF NextActivity, Untimed

\* the statuses that are left and reached by a step
LEMMA StatusStep ==
    ASSUME TypeOKActivity, [NextActivity]_allVars, activity' = activity
    PROVE  /\ status' = "COMPLETED" => status = "COMPLETED" \/ toComplete
           /\ reported' = "COMPLETED" => \/ reported = "COMPLETED"
                                         \/ status = "COMPLETED" /\ pc' = "dispose"
           /\ pc' # "idle" /\ identifying' =>
                \/ identifying \/ failing
                \/ pc = "DOWNLOAD" /\ UNCHANGED <<todo, reported>> /\ status' = "IDENTIFICATION_FAILED"
           /\ pc \in {"dispose", "idle"} => pc' \in {"dispose", "idle"}
<1>1. TypeOK
  BY DEF TypeOKActivity
<1>2. [Next]_vars
  BY StepOfOrchestrator
<1>3. CASE \E ds \in SUBSET Domains : SetupUpdateOperation(ds)
  <2>1. activity' = activity + 1 /\ activity \in Nat
    BY <1>1, <1>3 DEF SetupUpdateOperation, TypeOK
  <2> QED
    BY <2>1
<1>4. CASE Identify \/ ReturnReboot \/ ReportFinal
  BY <1>4 DEF Identify, ReturnReboot, ReportFinal, opVars, identifying
<1>5. CASE DisposeUpdateOperation
  BY <1>5 DEF DisposeUpdateOperation
<1>6. CASE PhaseTimeout
  BY <1>6 DEF PhaseTimeout, applyUnchanged, identifying, IdentificationStatus, Waits, Commands
<1>7. CASE Wait
  BY <1>7 DEF Wait, ErrorSignalled, RollbackSignalled, Signalled, ContextDone, applyUnchanged, identifying,
              IdentificationStatus, Waits, Commands
<1>8. CASE NotifyFeedback
  <2>1. Head(todo).status \in {"IDENTIFIED", "RUNNING"}
    BY <1>1, <1>8, HeadTyped DEF NotifyFeedback, Effect, Blocked
  <2> QED
    BY <1>8, <2>1 DEF NotifyFeedback, holderUnchanged, identifying
<1>9. CASE UpdateStatus
  <2>1. /\ todo # <<>> /\ Head(todo) = SetStatus(status') /\ status' \in FinalStatus \cup {"RUNNING"}
        /\ UNCHANGED <<pc, reported>>
    BY <1>1, <1>9, HeadFields DEF UpdateStatus, holderUnchanged
  <2>2. 1 \in DOMAIN todo /\ todo[1] = Head(todo)
    BY <1>1, <2>1, FirstTodo
  <2>3. status' = "COMPLETED" => toComplete
    BY <2>1, <2>2 DEF toComplete
  <2>4. identifying' => failing
    BY <2>1 DEF identifying, IdentificationStatus, FinalStatus, failing
  <2> QED
    BY <2>1, <2>3, <2>4
<1>10. CASE UNCHANGED <<status, reported, pc>>
  BY <1>10 DEF identifying
<1>11. CASE \/ OwnerConsented \/ OwnerConsentFailed \/ SendSignal \/ Terminate \/ UNCHANGED vars
            \/ \E h \in handlers : HandleCommandSignal(h)
            \/ \E approved \in BOOLEAN : HandleOwnerConsentFeedback(approved)
  BY <1>10, <1>11 DEF OwnerConsented, OwnerConsentFailed, SendSignal, Terminate, vars, opVars, HandleCommandSignal,
                      HandleOwnerConsentFeedback, handlerUnchanged, holderUnchanged
<1>12. ASSUME NEW d \in Domains,
              \/ SendDesiredState(d) \/ SendDesiredStateFailed(d) \/ CommandDomain(d) \/ CommandFailed(d)
              \/ \E s \in FeedbackStatus, hasActions \in BOOLEAN : AgentFeedback(d, s, hasActions)
       PROVE  UNCHANGED <<status, reported, pc>>
  BY <1>12 DEF SendDesiredState, SendDesiredStateFailed, CommandDomain, CommandFailed, AgentFeedback, opVars,
               HandleDesiredStateFeedbackEvent, holderUnchanged
<1> QED
  BY <1>2, <1>3, <1>4, <1>5, <1>6, <1>7, <1>8, <1>9, <1>10, <1>11, <1>12 DEF Next, Apply, HoldLock

LEMMA ToCompleteKept ==
    ASSUME TypeOKActivity, LastInv, [NextActivity]_allVars, activity' = activity, toComplete
    PROVE  toComplete' \/ status' = "COMPLETED"
<1>1. TypeOK /\ todo \in Seq(Effect)
  BY DEF TypeOKActivity, TypeOK
<1>2. PICK i \in DOMAIN todo : todo[i] = SetStatus("COMPLETED")
  BY DEF toComplete
<1>3. todo # <<>> /\ Head(todo) = todo[1] /\ 1 \in DOMAIN todo
  <2>1. todo # <<>>
    BY <1>2
  <2> QED
    BY <1>1, <2>1, FirstTodo
<1>4. todo[i].op = "setStatus" /\ todo[i].status = "COMPLETED"
  BY <1>2, EffectFields
<1>5. Head(todo).op = "consent" \/ Head(todo).op = "command" => i = 1
  <2>1. Head(todo).op = "consent" \/ Head(todo).op = "command" => Len(todo) = 1
    BY <1>3 DEF LastInv
  <2> QED
    BY <1>1, <1>2, <2>1, LenProperties
<1>6. CASE UNCHANGED todo
  BY <1>2, <1>6 DEF toComplete
<1>7. CASE i # 1 /\ todo' = Tail(todo)
  <2>1. /\ Tail(todo) \in Seq(Effect) /\ Len(Tail(todo)) = Len(todo) - 1 /\ Len(todo) \in Nat
        /\ \A j \in 1..Len(Tail(todo)) : Tail(todo)[j] = todo[j + 1]
    BY <1>1, <1>3, HeadTailProperties, LenProperties
  <2>2. i \in 1..Len(todo) /\ DOMAIN Tail(todo) = 1..Len(Tail(todo))
    BY <1>1, <1>2, <2>1, LenProperties
  <2>3. i - 1 \in DOMAIN Tail(todo) /\ Tail(todo)[i - 1] = todo[i]
    BY <1>7, <2>1, <2>2
  <2> QED
    BY <1>2, <1>7, <2>3 DEF toComplete
<1>8. CASE HolderWork
  <2>1. CASE UpdateStatus
    BY <1>3, <1>4, <1>7, <2>1 DEF UpdateStatus
  <2>2. CASE NotifyFeedback \/ SendSignal
    BY <1>3, <1>4, <1>7, <2>2 DEF NotifyFeedback, SendSignal
  <2>3. CASE \E d \in Domains : CommandDomain(d) \/ CommandFailed(d)
    BY <1>3, <1>4, <1>5, <2>3 DEF CommandDomain, CommandFailed
  <2> QED
    BY <1>8, <2>1, <2>2, <2>3 DEF HolderWork
<1>9. CASE OwnerConsented \/ OwnerConsentFailed
  BY <1>3, <1>4, <1>5, <1>9 DEF OwnerConsented, OwnerConsentFailed, awaitingConsent
<1>10. CASE reportHandled \/ sendFailureHandled \/ \E h \in handlers : HandleCommandSignal(h)
  BY <1>3, <1>10 DEF reportHandled, sendFailureHandled, HandleDesiredStateFeedbackEvent, HandleCommandSignal
<1> QED
  BY <1>6, <1>8, <1>9, <1>10, ActivityKinds DEF restOfSteps

\* an activity completes with the report after which every domain has finished
LEMMA CompletingStep ==
    ASSUME TypeOKActivity, ProgressInv, SentInv, "publish" \notin Faults, [NextActivity]_allVars,
           activity' = activity, completes'
    PROVE  completes \/ closes
<1>1. CASE status' = "COMPLETED" \/ reported' = "COMPLETED"
  BY <1>1, StatusStep DEF completes
<1>2. ASSUME NEW i \in DOMAIN todo', todo'[i] = SetStatus("COMPLETED")
      PROVE  completes \/ closes
  <2>1. /\ SetStatus("COMPLETED").op = "setStatus" /\ SetStatus("INCOMPLETE") # SetStatus("COMPLETED")
        /\ \A s : Notify(s) # SetStatus("COMPLETED")
        /\ \A c, ds, a : Command(c, ds, a) # SetStatus("COMPLETED")
    BY EffectFields
  <2>2. CASE \E j \in DOMAIN todo : todo'[i] = todo[j]
    BY <1>2, <2>2 DEF completes, toComplete
  <2>3. CASE Deliver
    <3>1. ~plain(todo') /\ todo' # <<Notify("RUNNING")>>
      BY <1>2, PlainTodo DEF plain
    <3>2. ASSUME NEW d \in Domains, NEW s \in FeedbackStatus, reports(d, s)
          PROVE  closes
      <4>1. ASSUME todo' = <<Command("CLEANUP", {d}, activity)>>
            PROVE  FALSE
        BY <1>2, <2>1, <4>1, SingletonEntry
      <4>2. identified(d, s) \/ finished(d, s)
        BY <3>1, <3>2, <4>1 DEF reports, advanced, turnedBack, brokenOff
      <4> QED
        BY <3>1, <3>2, <4>2 DEF identified, finished, closes
    <3>3. CASE todo' = todo
      BY <1>2, <3>3 DEF completes, toComplete
    <3> QED
      BY <2>3, <3>1, <3>2, <3>3, DeliverOutcome
  <2> QED
    BY <1>2, <2>1, <2>2, <2>3, EntryOrigin
<1> QED
  BY <1>1, <1>2 DEF completes, toComplete

\* ... the last one that changes anything
LEMMA NoReports ==
    ASSUME TypeOKActivity, IdleInv, FinishInv, completes, NEW d \in Domains, NEW s \in FeedbackStatus, reports(d, s)
    PROVE  FALSE
<1>1. d \in DOMAIN domains /\ todo = <<>> /\ pc # "idle"
  BY DEF reports, IdleInv
<1>2. closed /\ (identifying => toComplete)
  BY <1>1 DEF FinishInv, completes
<1>3. domains[d] \in Finished
  BY <1>1, <1>2 DEF closed, Some, TypeOKActivity, TypeOK
<1>4. ~identifying
  BY <1>1, <1>2 DEF toComplete
<1>5. \A c \in Phases : domains[d] \notin from(c)
  BY <1>3, StatusSets
<1> QED
  BY <1>3, <1>4, <1>5 DEF reports, identified, advanced, turnedBack, brokenOff, finished

LEMMA ClosedKept ==
    ASSUME TypeOKActivity, TypeOKActivity', IdleInv, IdleInv', ProgressInv, SentInv, LastInv, FinishInv,
           "publish" \notin Faults, [NextActivity]_allVars, activity' = activity, completes
    PROVE  closed'
<1>1. closed
  BY DEF FinishInv, completes
<1>2. failed' = {}
  <2>1. ASSUME NEW d \in Domains, NEW result, answersWith(d, result)
        PROVE  failed' = failed
    <3>1. ASSUME NEW i \in DOMAIN result, result[i] \in Failures, requests[d][1].activity = activity
          PROVE  FALSE
      <4>1. /\ requests[d][1].job \in AllCommands \cup {"identify"} /\ 1 \in DOMAIN requests[d]
            /\ result \in Results(requests[d][1].job)
        BY <2>1 DEF answersWith, Request
      <4>2. requests[d][1].job \in Steps \cup {"ROLLBACK"}
        BY <3>1, <4>1, ResultsReply
      <4>3. asks(requests[d][1].job, d)
        BY <3>1, <4>1 DEF asks
      <4> QED
        BY <1>1, <4>2, <4>3 DEF closed
    <3> QED
      BY <2>1, <3>1 DEF answersWith
  <2> QED
    BY <1>1, <2>1, FailedChange DEF closed
<1>3. ~Some(domains', DomainStatus \ Finished)
  <2>1. CASE pc' = "idle"
    BY <2>1 DEF IdleInv, Some
  <2>2. CASE pc' # "idle"
    <3>1. UNCHANGED domains
      BY <2>2, DomainsStep, NoReports
    <3> QED
      BY <1>1, <3>1 DEF closed
  <2> QED
    BY <2>1, <2>2
<1>4. ASSUME NEW d \in Domains, NEW c \in Steps \cup {"ROLLBACK"}
      PROVE  ~targeted(c, d)' /\ ~asks(c, d)'
  <2>1. ~targeted(c, d) /\ ~asks(c, d) /\ applying[d] # "spawned"
    BY <1>1 DEF closed
  <2>2. ASSUME NEW ds, d \in ds, issues(c, ds)
        PROVE  FALSE
    <3>1. d \in DOMAIN domains /\ domains[d] \in takes(c)
      BY <2>2 DEF issues
    <3>2. domains[d] \in Finished
      BY <1>1, <3>1 DEF closed, Some, TypeOKActivity, TypeOK
    <3>3. takes(c) \cap Finished = {}
      BY StatusSets DEF takes, Finished
    <3> QED
      BY <3>1, <3>2, <3>3
  <2>3. c # "CLEANUP"
    BY StatusSets
  <2> QED
    BY <2>1, <2>2, <2>3, TargetedStep, AsksStep
<1>5. pc' # "identify" /\ \A d \in Domains : applying'[d] # "spawned"
  BY <1>1, SpawnStep DEF closed
<1> QED
  BY <1>2, <1>3, <1>4, <1>5 DEF closed

LEMMA ClosingFacts ==
    ASSUME proceeds, closes
    PROVE  /\ intact' /\ ~Some(domains', DomainStatus \ Finished) /\ DOMAIN domains' # {}
           /\ toComplete' /\ ~failing'
<1>1. PICK d \in Domains, s \in FeedbackStatus :
        /\ reports(d, s)
        /\ \/ identified(d, s) /\ todo' = nothingToDo
              /\ ~Some(domains', {"IDENTIFYING", "IDENTIFICATION_FAILED", "IDENTIFIED"})
           \/ todo' = <<SetStatus("COMPLETED"), Send("done", "true")>> /\ intact'
              /\ ~Some(domains', DomainStatus \ Finished)
  BY DEF closes
<1>2. TypeOKActivity' /\ TypeOK'
  BY SteadyFacts
<1>3. DOMAIN domains' # {}
  <2>1. \E v : becomes(d, v)
    BY <1>1 DEF reports, identified, advanced, turnedBack, brokenOff, finished
  <2> QED
    BY <1>1, <2>1 DEF becomes, reports
<1>4. /\ SetStatus("COMPLETED") # SetStatus("IDENTIFICATION_FAILED")
      /\ \A s1 : Notify(s1) # SetStatus("IDENTIFICATION_FAILED")
  BY EffectFields
<1>5. CASE todo' = <<SetStatus("COMPLETED"), Send("done", "true")>> /\ intact'
           /\ ~Some(domains', DomainStatus \ Finished)
  <2>1. 1 \in DOMAIN todo' /\ todo'[1] = SetStatus("COMPLETED") /\ Head(todo') = SetStatus("COMPLETED")
    BY <1>5
  <2> QED
    BY <1>3, <1>4, <1>5, <2>1 DEF toComplete, failing
<1>6. CASE identified(d, s) /\ todo' = nothingToDo
           /\ ~Some(domains', {"IDENTIFYING", "IDENTIFICATION_FAILED", "IDENTIFIED"})
  <2>1. identifying /\ UNCHANGED <<delayedStatus, status>>
    BY <1>1, <1>6 DEF identified, reports
  <2>2. intact /\ intact'
    BY <2>1, SteadyFacts DEF IntactInv, reached, intact
  <2>3. ~reached("DOWNLOAD")'
    BY <2>1 DEF reached, identifying
  <2>4. ASSUME NEW e \in DOMAIN domains', domains'[e] \notin Finished
        PROVE  FALSE
    <3>1. e \in Domains
      BY <1>2, <2>4 DEF TypeOK
    <3>2. domains'[e] \in {"IDENTIFYING", "IDENTIFICATION_FAILED", "IDENTIFIED", "DOWNLOAD_SUCCESS",
                           "UPDATE_SUCCESS", "ACTIVATION_SUCCESS"} \cup Finished
      BY <2>2, <2>4, AsideStep DEF AsideInv
    <3>3. domains'[e] \in {"DOWNLOAD_SUCCESS", "UPDATE_SUCCESS", "ACTIVATION_SUCCESS"}
      BY <1>6, <2>4, <3>2 DEF Some
    <3> QED
      BY <2>2, <2>3, <2>4, <3>1, <3>3, PlaceStep DEF PlaceInv
  <2>5. ~Some(domains', DomainStatus \ Finished)
    BY <2>4 DEF Some
  <2>6. /\ 1 \in DOMAIN todo' /\ 2 \in DOMAIN todo'
        /\ Head(todo') = Notify("IDENTIFIED") /\ todo'[2] = SetStatus("COMPLETED")
    BY <1>6 DEF nothingToDo
  <2> QED
    BY <1>3, <1>4, <2>2, <2>5, <2>6 DEF toComplete, failing
<1> QED
  BY <1>1, <1>5, <1>6

\* no domain that is stuck has finished
LEMMA ClosedNow ==
    ASSUME proceeds, closes
    PROVE  closed'
<1>1. /\ intact' /\ ~Some(domains', DomainStatus \ Finished) /\ DOMAIN domains' # {}
  BY ClosingFacts
<1>2. TypeOKActivity' /\ TypeOK'
  BY SteadyFacts
<1>3. \A d \in DOMAIN domains' : d \in Domains /\ domains'[d] \in Finished
  BY <1>1, <1>2 DEF Some, TypeOK
<1>4. \A c \in Steps, d \in DOMAIN domains' : domains'[d] \notin from(c)
  BY <1>3, StatusSets
<1>5. failed' = {}
  BY <1>1, <1>4, FailedStep DEF FailedInv, stuck
<1>6. ASSUME NEW d \in Domains, NEW c \in Steps \cup {"ROLLBACK"}
      PROVE  ~targeted(c, d)' /\ ~asks(c, d)'
  <2>1. CASE c = "ROLLBACK"
    BY <1>1, <2>1, AsideStep DEF AsideInv, involves
  <2>2. CASE c \in Steps
    BY <1>1, <1>4, <2>2, PlaceStep DEF PlaceInv
  <2> QED
    BY <2>1, <2>2
<1>7. pc' # "identify" /\ \A d \in Domains : applying'[d] # "spawned"
  <2>1. "identify" \in Steps
    BY StatusSets
  <2> QED
    BY <1>1, <1>3, <1>4, <2>1, PlaceStep DEF PlaceInv
<1> QED
  BY <1>1, <1>5, <1>6, <1>7 DEF closed

LEMMA FinishStep ==
    ASSUME steady, TypeOKActivity', IdleInv', [NextActivity]_allVars, activity' = activity
    PROVE  FinishInv'
<1>1. /\ TypeOKActivity /\ IdleInv /\ ProgressInv /\ SentInv /\ LastInv /\ FinishInv /\ BarrierInv
      /\ "publish" \notin Faults
  BY DEF steady, OrderInv, OutcomeInv
<1>2. ASSUME reported' = "COMPLETED"
      PROVE  pc' \in {"dispose", "idle"}
  BY <1>1, <1>2, StatusStep DEF FinishInv
<1>3. ASSUME completes
      PROVE  closed' /\ ~failing'
  <2>1. closed'
    BY <1>1, <1>3, ClosedKept
  <2>2. ASSUME failing'
        PROVE  FALSE
    <3>1. todo' # <<>> /\ Head(todo') = SetStatus("IDENTIFICATION_FAILED")
      BY <2>2 DEF failing
    <3>2. 1 \in DOMAIN todo' /\ todo'[1] = SetStatus("IDENTIFICATION_FAILED")
      <4>1. TypeOK'
        BY DEF TypeOKActivity
      <4> QED
        BY <3>1, <4>1, HeadIsFirst DEF TypeOK
    <3>3. /\ SetStatus("IDENTIFICATION_FAILED").op = "setStatus"
          /\ SetStatus("IDENTIFICATION_FAILED") # SetStatus("INCOMPLETE")
          /\ Notify("RUNNING") # SetStatus("IDENTIFICATION_FAILED")
      BY EffectFields
    <3>4. CASE \E j \in DOMAIN todo : todo'[1] = todo[j]
      <4>1. 1 \in DOMAIN todo /\ todo[1] = SetStatus("IDENTIFICATION_FAILED")
        BY <1>1, <3>2, <3>4 DEF BarrierInv, PendingInv
      <4>2. todo # <<>> /\ Head(todo) = todo[1]
        <5>1. todo # <<>>
          BY <4>1
        <5> QED
          BY <1>1, <5>1, FirstTodo DEF TypeOKActivity
      <4> QED
        BY <1>1, <1>3, <4>1, <4>2 DEF FinishInv, completes, failing
    <3>5. CASE Deliver
      <4>1. todo' \in {todo, <<Notify("RUNNING")>>}
        BY <1>1, <1>3, <3>5, DeliverOutcome, NoReports
      <4>2. todo' # <<Notify("RUNNING")>>
        BY <3>2, <3>3
      <4> QED
        BY <3>2, <3>4, <4>1, <4>2
    <3> QED
      BY <1>1, <3>2, <3>3, <3>4, <3>5, EntryOrigin
  <2> QED
    BY <2>1, <2>2
<1>4. ASSUME completes, completes', pc' # "idle", identifying'
      PROVE  toComplete'
  <2>1. pc # "idle"
    <3>1. activity \in Nat
      BY <1>1 DEF TypeOKActivity, TypeOK
    <3>2. activity' # activity + 1
      BY <3>1
    <3> QED
      BY <1>1, <1>4, <3>2, NewActivity
  <2>2. ~failing /\ (identifying => toComplete)
    BY <1>1, <1>4, <2>1 DEF FinishInv, completes
  <2>3. status' # "COMPLETED"
    BY <1>4 DEF identifying, IdentificationStatus
  <2>4. CASE identifying
    BY <1>1, <2>2, <2>3, <2>4, ToCompleteKept
  <2>5. CASE pc = "DOWNLOAD" /\ UNCHANGED <<todo, reported>> /\ status' = "IDENTIFICATION_FAILED"
    BY <1>1, <1>4, <2>5 DEF FinishInv, completes
  <2> QED
    BY <1>1, <1>4, <2>2, <2>4, <2>5, StatusStep
<1>5. ASSUME closes
      PROVE  closed' /\ ~failing' /\ toComplete'
  <2>1. pc # "idle" /\ pc' # "idle"
    BY <1>1, <1>5 DEF closes, reports, IdleInv
  <2>2. proceeds
    BY <2>1 DEF proceeds
  <2> QED
    BY <1>5, <2>2, ClosedNow, ClosingFacts
<1>6. completes' => completes \/ closes
  BY <1>1, CompletingStep
<1>7. completes' => closed' /\ ~failing' /\ (pc' # "idle" /\ identifying' => toComplete')
  BY <1>3, <1>4, <1>5, <1>6
<1> QED
  BY <1>2, <1>7 DEF FinishInv, completes

-----------------------------------------------------------------------------
(* The invariant *)

\* nothing that is left over is mistaken for a part of the new activity
LEMMA StartOutcome ==
    ASSUME TypeOKActivity, BarrierInv, AgeInv, SentInv', LastInv', Start
    PROVE  OutcomeInv'
<1>1. /\ activity \in Nat /\ activity' = activity + 1
      /\ todo' = <<>> /\ delayedStatus' = "" /\ failed' = {} /\ reported' = ""
      /\ status' \in {"IDENTIFYING", "INCOMPLETE"}
      /\ \A d \in Domains : applying'[d] = "no"
      /\ \A d \in DOMAIN domains' : domains'[d] = "IDENTIFYING"
      /\ UNCHANGED <<requests, feedback, inHand>>
  BY DEF Start, SetupUpdateOperation, TypeOKActivity, TypeOK
<1>2. DOMAIN todo' = {} /\ \A c, d : ~targeted(c, d)'
  <2>1. todo' = <<>>
    BY <1>1
  <2>2. DOMAIN todo' = {}
    BY <2>1
  <2> QED
    BY <2>2 DEF targeted
<1>3. /\ \A d \in Domains : \A i \in DOMAIN requests[d] : requests[d][i].activity # activity + 1
      /\ \A d \in Domains : \A i \in DOMAIN feedback[d] : feedback[d][i].activity # activity + 1
      /\ \A i \in DOMAIN inHand : inHand[i].activity # activity + 1
  <2>1. activity \in Nat
    BY <1>1
  <2>2. ~(activity + 1 <= activity)
    BY <2>1
  <2> QED
    BY <2>2 DEF AgeInv
<1>4. \A d \in Domains : \A c : ~asks(c, d)' /\ askedOnce(c, d)'
  BY <1>1, <1>3 DEF asks, askedOnce
<1>5. \A s, d : ~tells(s, d)'
  BY <1>1, <1>3 DEF tells
<1>6. \A c, d : ~responds(c, d)'
  BY <1>5 DEF responds
<1>7. \A c \in Phases : ~pursued(c)' /\ ~consulted(c)' /\ ~waitingFor(c)'
  BY StartCarriesNothing DEF carried
<1>8. TurnInv'
  BY <1>1, <1>7 DEF TurnInv
<1>9. OnceInv'
  BY <1>4, <1>6 DEF OnceInv
<1>10. PlaceInv'
  BY <1>1, <1>2, <1>4 DEF PlaceInv, from
<1>11. IntactInv' /\ FailedInv'
  BY <1>1 DEF IntactInv, intact, FailedInv
<1>12. AsideInv'
  BY <1>1, <1>2, <1>4, <1>6 DEF AsideInv, involves
<1>13. FinishInv'
  <2>1. ~toComplete' /\ status' # "COMPLETED" /\ reported' # "COMPLETED"
    BY <1>1, <1>2 DEF toComplete
  <2> QED
    BY <2>1 DEF FinishInv
<1> QED
  BY <1>8, <1>9, <1>10, <1>11, <1>12, <1>13 DEF OutcomeInv

LEMMA OutcomeStep ==
    ASSUME steady, TypeOKActivity', IdleInv', [NextActivity]_allVars
    PROVE  OutcomeInv'
<1>1. /\ TypeOKActivity /\ IdleInv /\ ProgressInv /\ AgeInv /\ SentInv /\ LastInv /\ BarrierInv
      /\ "publish" \notin Faults
  BY DEF steady, OrderInv, OutcomeInv
<1>2. SentInv' /\ LastInv'
  BY <1>1, SentStep, LastStep
<1>3. CASE Start
  BY <1>1, <1>2, <1>3, StartOutcome
<1>4. CASE activity' = activity /\ (pc = "idle" => pc' = "idle")
  <2>1. FinishInv'
    BY <1>4, FinishStep
  <2>2. ASSUME pc' # "idle"
        PROVE  TurnInv' /\ OnceInv' /\ PlaceInv' /\ IntactInv' /\ AsideInv' /\ FailedInv'
    <3>1. proceeds
      BY <1>4, <2>2 DEF proceeds
    <3> QED
      BY <3>1, TurnStep, OnceStep, PlaceStep, IntactStep, AsideStep, FailedStep
  <2> QED
    BY <1>2, <2>1, <2>2 DEF OutcomeInv
<1> QED
  BY <1>1, <1>3, <1>4, NewActivity

LEMMA InitOutcome == InitActivity => OutcomeInv
<1> SUFFICES ASSUME InitActivity
             PROVE  OutcomeInv
  OBVIOUS
<1>1. pc = "idle" /\ todo = <<>> /\ status = "IDENTIFYING" /\ reported = "" /\ \A d \in Domains : applying[d] = "no"
  BY DEF InitActivity, Init
<1>2. DOMAIN todo = {}
  <2>1. todo = <<>>
    BY <1>1
  <2> QED
    BY <2>1
<1>3. ~toComplete /\ LastInv /\ SentInv
  BY <1>1, <1>2 DEF toComplete, LastInv, SentInv
<1> QED
  BY <1>1, <1>3 DEF OutcomeInv, FinishInv

\* Whatever a domain reports, when and in which order: as long as an activity may still
\* complete, every domain that failed is stuck in the step it failed in (OutcomeInv).  Holds
\* while no goroutine of an earlier activity waits for operationLock, and no publish fails.
THEOREM OutcomeInvariant ==
    ASSUME "publish" \notin Faults
    PROVE  SpecActivity /\ []Undisturbed => []OutcomeInv
<1>1. InitActivity => OutcomeInv
  BY InitOutcome
<1>2. TypeOKActivity /\ TypeOKActivity' /\ BarrierInv /\ LifecycleInv /\ OrderInv /\ OrderInv' /\ Undisturbed
      /\ OutcomeInv /\ [NextActivity]_allVars => OutcomeInv'
  BY OutcomeStep DEF steady, OrderInv
<1>3. SpecActivity => []BarrierInv /\ []LifecycleInv
  BY ActivityIsOrchestrator, BarrierInvariant, LifecycleInvariant, PTL
<1> QED
  BY <1>1, <1>2, <1>3, ActivityTypeCorrect, OrderInvariant, PTL DEF SpecActivity

\* COMPLETED is reported for an activity only if no domain of it reported a failure before its
\* cleanup (handleDomainUpdateFailure, domainUpdateCompleted): no later report, timeout or
\* duplicate turns the failure into a success.
THEOREM CompletedOnlyIfNoneFailedHolds ==
    ASSUME "publish" \notin Faults
    PROVE  SpecActivity /\ []Undisturbed => []CompletedOnlyIfNoneFailed
<1>1. OutcomeInv => CompletedOnlyIfNoneFailed
  BY DEF OutcomeInv, FinishInv, closed, CompletedOnlyIfNoneFailed
<1> QED
  BY <1>1, OutcomeInvariant, PTL

\* The first activity of a process needs no such hypothesis: nothing is left over in it.
THEOREM FirstActivityCompletes ==
    ASSUME "publish" \notin Faults
    PROVE  SpecActivity /\ [](activity <= 1) => []CompletedOnlyIfNoneFailed
<1> QED
  BY CompletedOnlyIfNoneFailedHolds, FirstActivityUndisturbed, PTL

=============================================================================
