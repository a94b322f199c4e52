--------------------------- MODULE ConclusionProofs ---------------------------
(***************************************************************************)
(* Theorems about UpdateActivity: how an activity ends.  Its outcome is    *)
(* final once it is signalled, nothing is commanded or reported after it,  *)
(* a refusal leads back, it succeeds unless somebody is to blame, and no   *)
(* goroutine blocks on a channel while it holds operationLock.             *)
(***************************************************************************)
EXTENDS OutcomeProofs

-----------------------------------------------------------------------------
(* The kinds of steps of an activity that goes on *)

\* a report of d, the message in hand, is handled
handled(d) ==
    /\ d \in DOMAIN domains /\ todo = <<>> /\ inHand' = <<>>
    /\ UNCHANGED <<activity, pc, status, chan, handlers, applying, terminated, reported,
                   requests, feedback, asked, answers, failed, granted, refused>>

\* the report in hand is on the identification of the actions of d
identification(m, a) == m.status \in replies("identify") /\ m.activity = a
identifiedInHand(d) ==
    \E i \in DOMAIN inHand : inHand[i] \in Report /\ inHand[i].domain = d /\ identification(inHand[i], activity)

\* what it may come to: d has been identified, or that failed, ...
identifies(d) ==
    /\ identifying /\ domains[d] \notin {"IDENTIFIED", "IDENTIFICATION_FAILED"}
    /\ responds("identify", d) /\ identifiedInHand(d) /\ UNCHANGED delayedStatus
    /\ \E v \in {"IDENTIFIED", "IDENTIFICATION_FAILED", "CLEANUP_SUCCESS"} :
         becomes(d, v) /\ (v = "IDENTIFICATION_FAILED" => tells(v, d))
    /\ todo' = IF Some(domains', {"IDENTIFYING"}) THEN <<>>
               ELSE IF Some(domains', {"IDENTIFICATION_FAILED"}) THEN IdentificationFailed
               ELSE IF Some(domains', {"IDENTIFIED"}) THEN running ELSE nothingToDo
\* ... it has come through phase c, ...
succeeds(c, d) ==
    /\ status = "RUNNING" /\ domains[d] \in from(c)
    /\ tells(success(c), d) /\ UNCHANGED delayedStatus
    /\ becomes(d, success(c))
    /\ \/ todo' = <<>>
       \/ todo' = <<Send(After(c), "true"), Notify("RUNNING")>> /\ ~Some(domains', from(c))
\* ... or back, ...
rollsBack(d) ==
    /\ status = "RUNNING" /\ domains[d] \in takes("ROLLBACK")
    /\ responds("ROLLBACK", d) /\ UNCHANGED delayedStatus
    /\ becomes(d, "ROLLBACK_SUCCESS")
    /\ todo' \in {<<>>, <<Send("CLEANUP", "true"), Notify("RUNNING")>>}
    /\ todo' # <<>> => ~Some(domains', takes("ROLLBACK"))
\* ... it failed in c, ...
failure(c) ==
    CASE c = "DOWNLOAD" -> "DOWNLOAD_FAILURE"
      [] c = "UPDATE"   -> "UPDATE_FAILURE"
      [] c = "ACTIVATE" -> "ACTIVATION_FAILURE"
      [] c = "ROLLBACK" -> "ROLLBACK_FAILURE"
Failable == Phases \cup {"ROLLBACK"}
fails(c, d) ==
    /\ domains[d] \in takes(c) /\ tells(failure(c), d)
    /\ becomes(d, failure(c)) /\ delayedStatus' = "INCOMPLETE"
    /\ todo' = <<Command("CLEANUP", {d}, activity)>>
\* ... it is cleaned up, ...
finishes(d) ==
    /\ responds("CLEANUP", d) /\ domains[d] \notin Finished
    /\ \E v \in Finished : becomes(d, v)
    /\ \/ UNCHANGED delayedStatus
       \/ /\ delayedStatus' = "INCOMPLETE" /\ tells("INCOMPLETE", d)
          /\ domains[d] \notin {"COMPLETED", "INCOMPLETE"}
    /\ \/ todo' = <<>>
       \/ /\ ~Some(domains', DomainStatus \ Finished)
          /\ todo' = IF intact' THEN <<SetStatus("COMPLETED"), Send("done", "true")>>
                     ELSE <<SetStatus("INCOMPLETE"), Send("err", "true")>>
\* ... or the report is just passed on
progresses(d) ==
    /\ UNCHANGED <<domains, delayedStatus>> /\ todo' = <<Notify("RUNNING")>>
    /\ status = "RUNNING" \/ domains[d] \in Cleanable

changes(d) ==
    \/ identifies(d)
    \/ \E c \in Phases : succeeds(c, d)
    \/ rollsBack(d)
    \/ \E c \in Failable : fails(c, d)
    \/ finishes(d)

\* neither Apply nor the lock holder does anything
rests ==
    /\ UNCHANGED <<pc, status, delayedStatus, domains, todo, handlers, reported>>
    /\ \A c \in Channels \ {"consent"} : chan'[c] = chan[c]

applies == ApplyWork /\ UNCHANGED envVars
questionEnds == (OwnerConsented \/ OwnerConsentFailed) /\ UNCHANGED envVars
holderActs == (NotifyFeedback \/ UpdateStatus \/ SendSignal) /\ UNCHANGED envVars

LEMMA FailureStatuses ==
    /\ \A c \in Failable : failure(c) \in Failures /\ failure(c) \in DomainStatus /\ failure(c) \in replies(c)
                           /\ takes(c) \cap Finished = {} /\ failure(c) \notin Finished
    /\ Phases \subseteq Failable /\ "ROLLBACK" \in Failable /\ Failable \subseteq AllCommands
  BY DEF Failable, Phases, failure, Failures, DomainStatus, FeedbackStatus, replies, ReportsOf, takes, from,
         Finished, AllCommands, Commands

LEMMA PhaseKinds ==
    ASSUME NEW d, NEW s, NEW c \in Phases, NEW begun, NEW progress, NEW bad, NEW next, from(c) \subseteq begun,
           status = "RUNNING", domains[d] \in from(c), tells(s, d), bad = failure(c), next = After(c),
           PhaseFeedback(d, s, begun, progress, success(c), bad, next)
    PROVE  progresses(d) \/ succeeds(c, d) \/ fails(c, d)
<1>1. CASE s = progress /\ todo' = <<Notify("RUNNING")>> /\ UNCHANGED <<domains, delayedStatus>>
  BY <1>1 DEF progresses
<1>2. CASE /\ s = success(c) /\ domains' = [domains EXCEPT ![d] = success(c)]
           /\ todo' = IF Some(domains', begun) THEN <<>> ELSE <<Send(next, "true"), Notify("RUNNING")>>
           /\ UNCHANGED delayedStatus
  <2>1. ~Some(domains', begun) => ~Some(domains', from(c))
    BY DEF Some
  <2> QED
    BY <1>2, <2>1, Zenon DEF succeeds, becomes
<1>3. CASE /\ s = bad /\ domains' = [domains EXCEPT ![d] = bad] /\ delayedStatus' = "INCOMPLETE"
           /\ todo' = <<Command("CLEANUP", {d}, activity)>>
  <2>1. domains[d] \in takes(c)
    BY DEF takes, Phases
  <2> QED
    BY <1>3, <2>1, Zenon DEF fails, becomes
<1> QED
  BY <1>1, <1>2, <1>3, Zenon DEF PhaseFeedback

\* a report is ignored, passed on, or changes the status of its domain
LEMMA ReportKinds ==
    ASSUME ProgressInv, NEW d, NEW s, NEW hasActions, tells(s, d), s \in replies("identify") => identifiedInHand(d),
           HandleDesiredStateFeedbackEvent(d, s, hasActions)
    PROVE  \/ UNCHANGED <<domains, delayedStatus, todo>>
           \/ progresses(d)
           \/ changes(d)
<1> DEFINE kind == progresses(d) \/ changes(d)
<1>1. d \in DOMAIN domains /\ todo = <<>> /\ domains[d] \notin Progress
  BY DEF HandleDesiredStateFeedbackEvent, ProgressInv
<1>2. CASE ~(Accepts(d, s) /\ HandleAccepted(d, s, hasActions))
  BY <1>2 DEF HandleDesiredStateFeedbackEvent
<1>3. CASE Accepts(d, s) /\ HandleAccepted(d, s, hasActions)
  <2> SUFFICES kind
    OBVIOUS
  <2>1. status \in AcceptedIn(s) /\ domains[d] \in AcceptedFrom(s)
    BY <1>3 DEF Accepts
  <2>2. CASE s = "IDENTIFIED" /\ HandleDomainIdentified(d, hasActions)
    <3>1. identifying /\ domains[d] \notin {"IDENTIFIED", "IDENTIFICATION_FAILED"}
      BY <2>1, <2>2 DEF AcceptedIn, AcceptedFrom, identifying
    <3>2. \E v \in {"IDENTIFIED", "CLEANUP_SUCCESS"} : becomes(d, v)
      BY <2>2 DEF HandleDomainIdentified, becomes
    <3>3. responds("identify", d) /\ identifiedInHand(d)
      BY <2>2 DEF responds, replies
    <3>4. /\ UNCHANGED delayedStatus
          /\ todo' = IF Some(domains', {"IDENTIFYING"}) THEN <<>>
                     ELSE IF Some(domains', {"IDENTIFICATION_FAILED"}) THEN IdentificationFailed
                     ELSE IF Some(domains', {"IDENTIFIED"}) THEN running ELSE nothingToDo
      BY <2>2 DEF HandleDomainIdentified, running, nothingToDo
    <3> QED
      BY <3>1, <3>2, <3>3, <3>4 DEF identifies, changes
  <2>3. CASE s = "IDENTIFICATION_FAILED" /\ HandleDomainIdentificationFailed(d)
    <3>1. identifying /\ domains[d] \notin {"IDENTIFIED", "IDENTIFICATION_FAILED"}
      BY <2>1, <2>3 DEF AcceptedIn, AcceptedFrom, identifying
    <3>2. becomes(d, "IDENTIFICATION_FAILED") /\ tells("IDENTIFICATION_FAILED", d)
      BY <2>3 DEF HandleDomainIdentificationFailed, becomes
    <3>3. responds("identify", d) /\ identifiedInHand(d)
      BY <2>3 DEF responds, replies
    <3>4. Some(domains', {"IDENTIFICATION_FAILED"})
      BY <1>1, <3>2 DEF Some, becomes
    <3>5. /\ UNCHANGED delayedStatus
          /\ todo' = IF Some(domains', {"IDENTIFYING"}) THEN <<>> ELSE IdentificationFailed
      BY <2>3 DEF HandleDomainIdentificationFailed
    <3> QED
      BY <3>1, <3>2, <3>3, <3>4, <3>5 DEF identifies, changes
  <2>4. CASE HandleDomainDownload(d, s)
    <3>1. status = "RUNNING" /\ domains[d] \in from("DOWNLOAD")
      BY <1>1, <2>1, <2>4 DEF HandleDomainDownload, PhaseFeedback, AcceptedIn, AcceptedFrom, Downloadable, Progress, from
    <3>2. "DOWNLOAD" \in Phases /\ from("DOWNLOAD") \subseteq Downloadable
      BY DEF Phases, from, Downloadable
    <3>3. /\ success("DOWNLOAD") = "DOWNLOAD_SUCCESS" /\ failure("DOWNLOAD") = "DOWNLOAD_FAILURE"
          /\ After("DOWNLOAD") = "UPDATE"
      BY DEF success, failure, After
    <3>4. progresses(d) \/ succeeds("DOWNLOAD", d) \/ fails("DOWNLOAD", d)
      BY <2>4, <3>1, <3>2, <3>3, PhaseKinds DEF HandleDomainDownload
    <3> QED
      BY <3>2, <3>4, FailureStatuses DEF changes
  <2>5. CASE HandleDomainUpdate(d, s)
    <3>1. status = "RUNNING" /\ domains[d] \in from("UPDATE")
      BY <1>1, <2>1, <2>5 DEF HandleDomainUpdate, PhaseFeedback, AcceptedIn, AcceptedFrom, Updatable, Progress, from
    <3>2. "UPDATE" \in Phases /\ from("UPDATE") \subseteq Updatable
      BY DEF Phases, from, Updatable
    <3>3. /\ success("UPDATE") = "UPDATE_SUCCESS" /\ failure("UPDATE") = "UPDATE_FAILURE"
          /\ After("UPDATE") = "ACTIVATE"
      BY DEF success, failure, After
    <3>4. progresses(d) \/ succeeds("UPDATE", d) \/ fails("UPDATE", d)
      BY <2>5, <3>1, <3>2, <3>3, PhaseKinds DEF HandleDomainUpdate
    <3> QED
      BY <3>2, <3>4, FailureStatuses DEF changes
  <2>6. CASE HandleDomainActivation(d, s)
    <3>1. status = "RUNNING" /\ domains[d] \in from("ACTIVATE")
      BY <1>1, <2>1, <2>6 DEF HandleDomainActivation, PhaseFeedback, AcceptedIn, AcceptedFrom, Activatable, Progress, from
    <3>2. "ACTIVATE" \in Phases /\ from("ACTIVATE") \subseteq Activatable
      BY DEF Phases, from, Activatable
    <3>3. /\ success("ACTIVATE") = "ACTIVATION_SUCCESS" /\ failure("ACTIVATE") = "ACTIVATION_FAILURE"
          /\ After("ACTIVATE") = "CLEANUP"
      BY DEF success, failure, After
    <3>4. progresses(d) \/ succeeds("ACTIVATE", d) \/ fails("ACTIVATE", d)
      BY <2>6, <3>1, <3>2, <3>3, PhaseKinds DEF HandleDomainActivation
    <3> QED
      BY <3>2, <3>4, FailureStatuses DEF changes
  <2>7. CASE HandleDomainRollback(d, s)
    <3>1. /\ status = "RUNNING" /\ domains[d] \in takes("ROLLBACK")
          /\ s \in replies("ROLLBACK")
      BY <1>1, <2>1, <2>7 DEF HandleDomainRollback, PhaseFeedback, AcceptedIn, AcceptedFrom, Rollbackable, Progress,
                              takes, replies
    <3>2. responds("ROLLBACK", d)
      BY <3>1 DEF responds
    <3>3. CASE s = "ROLLBACK" /\ todo' = <<Notify("RUNNING")>> /\ UNCHANGED <<domains, delayedStatus>>
      BY <3>1, <3>3 DEF progresses
    <3>4. CASE /\ s = "ROLLBACK_SUCCESS" /\ domains' = [domains EXCEPT ![d] = "ROLLBACK_SUCCESS"]
               /\ todo' = IF Some(domains', Rollbackable) THEN <<>> ELSE <<Send("CLEANUP", "true"), Notify("RUNNING")>>
               /\ UNCHANGED delayedStatus
      <4>1. ~Some(domains', Rollbackable) => ~Some(domains', takes("ROLLBACK"))
        BY DEF Some, Rollbackable, takes
      <4> QED
        BY <3>1, <3>2, <3>4, <4>1, Zenon DEF rollsBack, becomes, changes
    <3>5. CASE /\ s = "ROLLBACK_FAILURE" /\ domains' = [domains EXCEPT ![d] = "ROLLBACK_FAILURE"]
               /\ delayedStatus' = "INCOMPLETE" /\ todo' = <<Command("CLEANUP", {d}, activity)>>
      <4>1. failure("ROLLBACK") = "ROLLBACK_FAILURE"
        BY DEF failure
      <4> QED
        BY <3>1, <3>5, <4>1, FailureStatuses, Zenon DEF fails, becomes, changes
    <3> QED
      BY <2>7, <3>3, <3>4, <3>5, Zenon DEF HandleDomainRollback, PhaseFeedback
  <2>8. CASE s = "CLEANUP" /\ todo' = <<Notify("RUNNING")>> /\ UNCHANGED <<domains, delayedStatus>>
    BY <2>1, <2>8 DEF progresses, AcceptedFrom
  <2>9. CASE HandleDomainFinished(d, s)
    <3>1. s \in replies("CLEANUP") /\ domains[d] \notin Finished
      BY <2>1, <2>9 DEF HandleDomainFinished, AcceptedFrom, Cleanable, Finished, replies
    <3>2. responds("CLEANUP", d)
      BY <3>1 DEF responds
    <3>3. /\ \E v \in Finished : becomes(d, v)
          /\ \/ UNCHANGED delayedStatus
             \/ delayedStatus' = "INCOMPLETE" /\ tells("INCOMPLETE", d) /\ s = "INCOMPLETE"
          /\ DomainUpdateCompleted
      BY <2>9 DEF HandleDomainFinished, becomes, Finished
    <3>4. s = "INCOMPLETE" => domains[d] \notin {"COMPLETED", "INCOMPLETE"}
      BY <2>1 DEF AcceptedFrom
    <3>5. \/ todo' = <<>>
          \/ /\ ~Some(domains', DomainStatus \ Finished)
             /\ todo' = IF intact' THEN <<SetStatus("COMPLETED"), Send("done", "true")>>
                        ELSE <<SetStatus("INCOMPLETE"), Send("err", "true")>>
      BY <3>3 DEF DomainUpdateCompleted, intact
    <3> QED
      BY <3>1, <3>2, <3>3, <3>4, <3>5, Zenon DEF finishes, changes
  <2> QED
    BY <1>3, <2>2, <2>3, <2>4, <2>5, <2>6, <2>7, <2>8, <2>9 DEF HandleAccepted
<1> QED
  BY <1>1, <1>2, <1>3

\* what an activity under way does in one step
LEMMA StepsOfActivity ==
    ASSUME proceeds
    PROVE  \/ rests
           \/ applies
           \/ \E h \in handlers : HandlerStep(h) /\ HandleCommandSignal(h)
           \/ questionEnds
           \/ holderActs
           \/ \E d \in Domains : CommandStep(d) /\ CommandDomain(d)
           \/ \E d \in Domains : handled(d) /\ (changes(d) \/ progresses(d))
<1> DEFINE kind == \/ rests
                   \/ applies
                   \/ \E h \in handlers : HandlerStep(h) /\ HandleCommandSignal(h)
                   \/ questionEnds
                   \/ holderActs
                   \/ \E d \in Domains : CommandStep(d) /\ CommandDomain(d)
                   \/ \E d \in Domains : handled(d) /\ (changes(d) \/ progresses(d))
<1> SUFFICES kind
  OBVIOUS
<1>1. /\ TypeOKActivity /\ TypeOK /\ ProgressInv /\ SentInv /\ "publish" \notin Faults /\ [NextActivity]_allVars
      /\ activity' = activity /\ activity \in Nat /\ pc' # "idle"
      /\ "consent" \in DOMAIN chan /\ chan \in [Channels -> ChannelState]
  BY SteadyFacts DEF TypeOK, Channels
<1>2. ~Start
  <2>1. Start => activity' = activity + 1
    BY Zenon DEF Start, SetupUpdateOperation
  <2> QED
    BY <1>1, <2>1
<1>3. CASE ApplyStep \/ Timeout
  <2>1. ~DisposeUpdateOperation
    BY <1>1 DEF DisposeUpdateOperation
  <2> QED
    BY <1>3, <2>1, Zenon DEF ApplyStep, Timeout, Apply, applies, ApplyWork
<1>4. CASE HoldLockStep \/ ConsentTimeout
  BY <1>4, Zenon DEF HoldLockStep, ConsentTimeout, HoldLock, questionEnds, holderActs
<1>5. CASE TerminateStep \/ TakeConsent
  <2>1. rests
    BY <1>5 DEF TerminateStep, Terminate, TakeConsent, rests, vars, opVars
  <2> QED
    BY <2>1
<1>6. CASE \E h \in handlers : HandlerStep(h)
  BY <1>6, Zenon DEF HandlerStep
<1>7. CASE \/ \E approved \in BOOLEAN : OwnerAnswers(approved)
           \/ \E d \in Domains : AgentAnswers(d) \/ TakeFeedback(d) \/ DesiredState(d)
           \/ UNCHANGED allVars
  <2>1. rests
    BY <1>7 DEF OwnerAnswers, AgentAnswers, TakeFeedback, DesiredState, SendDesiredState, allVars, rests, vars, opVars
  <2> QED
    BY <2>1
<1>8. ASSUME NEW d \in Domains, DesiredStateFailed(d) \/ CommandStepFailed(d)
      PROVE  FALSE
  BY <1>1, <1>8 DEF DesiredStateFailed, SendDesiredStateFailed, SentInv, CommandStepFailed, CommandFailed
<1>9. CASE \E d \in Domains : CommandStep(d)
  BY <1>9, Zenon DEF CommandStep
<1>10. CASE Deliver
  <2>1. CASE UNCHANGED vars
    BY <2>1 DEF rests, vars, opVars
  <2>2. ASSUME NEW approved, HandleOwnerConsentFeedback(approved)
        PROVE  rests
    BY <1>1, <2>2 DEF rests, HandleOwnerConsentFeedback
  <2>3. ASSUME NEW m, m = inHand[1], m \in Report, m.activity = activity,
               AgentFeedback(m.domain, m.status, m.hasActions)
        PROVE  kind
    <3>1. m.domain \in Domains /\ 1 \in DOMAIN inHand
      BY <1>1, <1>10, <2>3, HeadAndTail DEF Report, Deliver, TypeOKActivity
    <3>2. /\ tells(m.status, m.domain)
          /\ m.status \in replies("identify") => identifiedInHand(m.domain)
      BY <2>3, <3>1 DEF tells, identifiedInHand, identification
    <3>3. HandleDesiredStateFeedbackEvent(m.domain, m.status, m.hasActions) /\ UNCHANGED applying
      BY <2>3 DEF AgentFeedback
    <3>4. handled(m.domain)
      BY <1>10, <3>3 DEF handled, Deliver, HandleDesiredStateFeedbackEvent
    <3>5. CASE UNCHANGED <<domains, delayedStatus, todo>>
      <4>1. rests
        BY <3>3, <3>5 DEF rests, HandleDesiredStateFeedbackEvent
      <4> QED
        BY <4>1
    <3> QED
      BY <1>1, <3>1, <3>2, <3>3, <3>4, <3>5, ReportKinds
  <2> QED
    BY <1>10, <2>1, <2>2, <2>3 DEF Deliver
<1> QED
  BY <1>1, <1>2, <1>3, <1>4, <1>5, <1>6, <1>7, <1>8, <1>9, <1>10 DEF NextActivity, Untimed

\* only a report changes the status of its domain
LEMMA DomainsChange ==
    ASSUME proceeds
    PROVE  \/ UNCHANGED domains
           \/ \E d \in Domains : handled(d) /\ changes(d)
<1>1. CASE rests
  BY <1>1 DEF rests
<1>2. CASE applies
  BY <1>2 DEF applies, ApplyWork, Identify, PhaseTimeout, Wait, ErrorSignalled, RollbackSignalled, Signalled,
              ContextDone, ReturnReboot, ReportFinal, applyUnchanged, opVars
<1>3. CASE questionEnds \/ \E h \in handlers : HandlerStep(h) /\ HandleCommandSignal(h)
  BY <1>3 DEF questionEnds, OwnerConsented, OwnerConsentFailed, HandleCommandSignal, handlerUnchanged
<1>4. CASE holderActs \/ \E d \in Domains : CommandStep(d) /\ CommandDomain(d)
  BY <1>4 DEF holderActs, NotifyFeedback, UpdateStatus, SendSignal, CommandDomain, holderUnchanged
<1>5. ASSUME NEW d \in Domains, handled(d), progresses(d)
      PROVE  UNCHANGED domains
  BY <1>5 DEF progresses
<1> QED
  BY <1>1, <1>2, <1>3, <1>4, <1>5, StepsOfActivity

\* the kinds of changes, one by one: what becomes of d, and nothing else changes
LEMMA ChangeFacts ==
    ASSUME proceeds, NEW d \in Domains, handled(d), changes(d)
    PROVE  /\ d \in DOMAIN domains /\ DOMAIN domains' = DOMAIN domains
           /\ \A e \in DOMAIN domains : e # d => domains'[e] = domains[e]
           /\ \/ identifies(d) /\ domains'[d] \in {"IDENTIFIED", "IDENTIFICATION_FAILED", "CLEANUP_SUCCESS"}
              \/ \E c \in Phases : succeeds(c, d) /\ responds(c, d) /\ domains'[d] = success(c)
              \/ rollsBack(d) /\ domains'[d] = "ROLLBACK_SUCCESS"
              \/ \E c \in Failable : fails(c, d) /\ responds(c, d) /\ domains'[d] = failure(c)
              \/ finishes(d) /\ domains'[d] \in Finished
           /\ UNCHANGED <<requests, feedback, applying, pc, status, chan, handlers, activity>>
           /\ \A c : asks(c, d)' = asks(c, d)
<1>1. d \in DOMAIN domains /\ domains \in [DOMAIN domains -> DomainStatus]
      /\ UNCHANGED <<requests, feedback, applying, pc, status, chan, handlers, activity>>
  BY SteadyFacts DEF handled, TypeOK
<1>2. \E v : becomes(d, v)
  BY DEF changes, identifies, succeeds, rollsBack, fails, finishes
<1>3. \A v : becomes(d, v) => domains'[d] = v
  BY <1>1 DEF becomes
<1>4. DOMAIN domains' = DOMAIN domains /\ \A e \in DOMAIN domains : e # d => domains'[e] = domains[e]
  BY <1>1, <1>2 DEF becomes
<1>5. CASE identifies(d)
  BY <1>1, <1>3, <1>4, <1>5 DEF identifies, asks
<1>6. ASSUME NEW c \in Phases, succeeds(c, d)
      PROVE  responds(c, d) /\ domains'[d] = success(c)
  BY <1>3, <1>6, StatusSets DEF succeeds, responds
<1>7. CASE rollsBack(d)
  BY <1>1, <1>3, <1>4, <1>7 DEF rollsBack, asks
<1>8. ASSUME NEW c \in Failable, fails(c, d)
      PROVE  responds(c, d) /\ domains'[d] = failure(c)
  BY <1>3, <1>8, FailureStatuses DEF fails, responds
<1>9. CASE finishes(d)
  <2>1. PICK v \in Finished : becomes(d, v)
    BY <1>9 DEF finishes
  <2>2. domains'[d] \in Finished
    BY <1>3, <2>1
  <2> QED
    BY <1>1, <1>4, <1>9, <2>2 DEF asks
<1>10. \A c : asks(c, d)' = asks(c, d)
  BY <1>1 DEF asks
<1> QED
  BY <1>1, <1>4, <1>5, <1>6, <1>7, <1>8, <1>9, <1>10 DEF changes

-----------------------------------------------------------------------------
(* How a command comes about *)

\* the holder of the lock turns to the command c: it issues it, ...
onlyTodo ==
    /\ UNCHANGED <<activity, pc, status, domains, applying, reported, requests, feedback, inHand, failed, granted,
                   refused>>
    /\ handlers' \subseteq handlers
    /\ \A x \in Channels \ {"consent"} : chan'[x] = chan[x]
issuesNow(c) ==
    /\ waitingFor(c) \/ consulted(c)
    /\ c \in OwnerConsentCommands => consulted(c) /\ chan["consent"] = "true"
    /\ \E a : todo' = ExecuteCommand(c, a)
    /\ UNCHANGED delayedStatus /\ onlyTodo
\* ... it asks the owner first, ...
asksOwner(c) ==
    /\ waitingFor(c) /\ c \in OwnerConsentCommands /\ todo = <<>>
    /\ \E a : todo' = <<AwaitConsent(c, a)>>
    /\ UNCHANGED delayedStatus /\ onlyTodo
\* ... or takes the owner's silence or word for a refusal
refuses(c) ==
    /\ consulted(c)
    /\ chan["consent"] = "false" \/ "consentTimeout" \in Faults \/ terminated
    /\ \E a \in Nat : ConsentRefused(c, a)
    /\ UNCHANGED handlers /\ onlyTodo

LEMMA QuestionKinds ==
    ASSUME proceeds, questionEnds
    PROVE  \E c \in Phases : /\ \A i \in DOMAIN todo : todo[i].op = "consent" /\ todo[i].command = c
                             /\ issuesNow(c) \/ refuses(c)
<1>1. /\ TypeOK /\ LastInv /\ chan \in [Channels -> ChannelState] /\ todo \in Seq(Effect)
  BY SteadyFacts DEF TypeOK
<1>2. todo # <<>> /\ Head(todo).op = "consent"
  BY DEF questionEnds, OwnerConsented, OwnerConsentFailed, awaitingConsent
<1>3. 1 \in DOMAIN todo /\ todo[1] = Head(todo)
  BY <1>1, <1>2, FirstTodo
<1>4. Len(todo) = 1 /\ todo[1].command \in Phases
  BY <1>1, <1>2, <1>3 DEF LastInv
<1>5. \A i \in DOMAIN todo : i = 1
  BY <1>1, <1>4
<1> DEFINE c == Head(todo).command
           a == Head(todo).spawnedIn
<1>6. consulted(c) /\ c \in Phases /\ a \in Nat
  <2>1. a \in Nat
    BY <1>1, <1>2, HeadFields
  <2> QED
    BY <1>2, <1>3, <1>4, <2>1 DEF consulted
<1>7. /\ UNCHANGED <<activity, pc, status, domains, applying, reported, requests, feedback, inHand, failed, granted,
                     refused, handlers>>
      /\ \A x \in Channels \ {"consent"} : chan'[x] = chan[x]
  BY <1>1 DEF questionEnds, OwnerConsented, OwnerConsentFailed, handlerUnchanged, envVars
<1>8. onlyTodo /\ UNCHANGED handlers
  BY <1>7 DEF onlyTodo
<1>9. \/ chan["consent"] = "true" /\ todo' = ExecuteCommand(c, a) /\ UNCHANGED delayedStatus
      \/ /\ chan["consent"] = "false" \/ "consentTimeout" \in Faults \/ terminated
         /\ ConsentRefused(c, a)
  BY DEF questionEnds, OwnerConsented, OwnerConsentFailed
<1>10. issuesNow(c) \/ refuses(c)
  <2> HIDE DEF c, a
  <2> QED
    BY <1>6, <1>8, <1>9, Zenon DEF issuesNow, refuses
<1>11. \A i \in DOMAIN todo : todo[i].op = "consent" /\ todo[i].command = c
  BY <1>2, <1>3, <1>5
<1> QED
  BY <1>6, <1>10, <1>11, Zenon

LEMMA HandlerKinds ==
    ASSUME proceeds, NEW h \in handlers, HandlerStep(h), HandleCommandSignal(h)
    PROVE  /\ h.command \in Commands /\ waitingFor(h.command) /\ todo = <<>>
           /\ issuesNow(h.command) \/ asksOwner(h.command)
<1>1. /\ TypeOK /\ Undisturbed /\ pc # "idle" /\ "publish" \notin Faults /\ h.command \in Commands
      /\ TypeOKActivity /\ TypeOKActivity'
  BY SteadyFacts DEF TypeOK
<1>2. waitingFor(h.command) /\ todo = <<>>
  BY <1>1 DEF waitingFor, Undisturbed, HandleCommandSignal
<1>3. onlyTodo /\ UNCHANGED delayedStatus
  <2>1. UNCHANGED <<activity, pc, status, delayedStatus, domains, applying, reported, chan, requests, feedback,
                    inHand, failed, granted, refused>>
    BY <1>1 DEF HandlerStep, HandleCommandSignal, handlerUnchanged
  <2>2. handlers' \subseteq handlers
    BY DEF HandleCommandSignal
  <2> QED
    BY <2>1, <2>2 DEF onlyTodo
<1>4. \/ h.command \notin OwnerConsentCommands /\ todo' = ExecuteCommand(h.command, h.spawnedIn)
      \/ h.command \in OwnerConsentCommands /\ todo' = <<AwaitConsent(h.command, h.spawnedIn)>>
  BY <1>1 DEF HandleCommandSignal
<1> QED
  BY <1>1, <1>2, <1>3, <1>4, Zenon DEF issuesNow, asksOwner

\* a command goes to the domains that are up for it
LEMMA IssuedTargets ==
    ASSUME NEW c \in AllCommands, NEW a, todo' = ExecuteCommand(c, a), NEW i \in DOMAIN todo'
    PROVE  /\ todo'[i].op = "command" /\ todo'[i].command = c
           /\ \A d \in todo'[i].targets : d \in DOMAIN domains /\ domains[d] \in takes(c)
  BY ExecuteTargets, ExecuteEntries

\* what is left to do after a refusal
LEMMA RefusedTodo ==
    ASSUME proceeds, NEW c \in Phases, refuses(c)
    PROVE  \/ /\ c = "DOWNLOAD" /\ todo' = <<SetStatus("INCOMPLETE"), Send("err", "true")>>
              /\ UNCHANGED delayedStatus
           \/ /\ c # "DOWNLOAD" /\ delayedStatus' = "INCOMPLETE"
              /\ 1 \in DOMAIN todo' /\ todo'[1] = Send("rollback", "true")
              /\ \A i \in DOMAIN todo' : i # 1 =>
                   /\ todo'[i].op = "command" /\ todo'[i].command = "ROLLBACK"
                   /\ \A d \in todo'[i].targets : d \in DOMAIN domains /\ domains[d] \in takes("ROLLBACK")
<1>1. PICK a \in Nat : ConsentRefused(c, a)
  BY DEF refuses
<1>2. TypeOK
  BY SteadyFacts
<1>3. CASE c = "DOWNLOAD"
  BY <1>1, <1>3 DEF ConsentRefused
<1>4. CASE c # "DOWNLOAD"
  <2> DEFINE rollback == ExecuteCommand("ROLLBACK", a)
  <2>1. todo' = <<Send("rollback", "true")>> \o rollback /\ delayedStatus' = "INCOMPLETE"
    BY <1>1, <1>4 DEF ConsentRefused
  <2>2. rollback \in Seq(Effect)
    BY <1>2, ExecuteTyped DEF AllCommands
  <2>3. \A i \in DOMAIN rollback : /\ rollback[i].op = "command" /\ rollback[i].command = "ROLLBACK"
                                   /\ \A d \in rollback[i].targets : d \in DOMAIN domains /\ domains[d] \in takes("ROLLBACK")
    <3>1. "ROLLBACK" \in AllCommands
      BY DEF AllCommands
    <3> QED
      BY <3>1, ExecuteTargets, ExecuteEntries
  <2> HIDE DEF rollback
  <2>4. <<Send("rollback", "true")>> \in Seq({Send("rollback", "true")}) /\ Len(<<Send("rollback", "true")>>) = 1
    OBVIOUS
  <2>5. /\ Len(todo') = 1 + Len(rollback) /\ todo'[1] = Send("rollback", "true")
        /\ \A k \in 2..Len(todo') : todo'[k] = rollback[k - 1]
        /\ DOMAIN todo' = 1..Len(todo') /\ DOMAIN rollback = 1..Len(rollback) /\ Len(rollback) \in Nat
    BY <2>1, <2>2, <2>4, ConcatProperties, LenProperties
  <2>6. \A i \in DOMAIN todo' : i # 1 => i - 1 \in DOMAIN rollback /\ todo'[i] = rollback[i - 1]
    BY <2>5
  <2> QED
    BY <1>4, <2>1, <2>3, <2>5, <2>6
<1> QED
  BY <1>3, <1>4

\* where what is left to do comes from
LEMMA TodoKinds ==
    ASSUME proceeds
    PROVE  \/ UNCHANGED todo
           \/ (holderActs \/ \E d \in Domains : CommandDomain(d)) /\ UNCHANGED <<domains, delayedStatus, handlers, pc>>
           \/ \E c \in Commands : issuesNow(c) \/ asksOwner(c)
           \/ \E c \in Phases : refuses(c)
           \/ \E d \in Domains : handled(d) /\ (changes(d) \/ progresses(d))
<1>1. CASE rests
  BY <1>1 DEF rests
<1>2. CASE applies
  BY <1>2 DEF applies, ApplyWork, Identify, PhaseTimeout, Wait, ErrorSignalled, RollbackSignalled, Signalled,
              ContextDone, ReturnReboot, ReportFinal, applyUnchanged
<1>3. CASE questionEnds
  <2>1. Phases \subseteq Commands
    BY DEF Phases, Commands
  <2> QED
    BY <1>3, <2>1, QuestionKinds, Zenon
<1>4. CASE \E h \in handlers : HandlerStep(h) /\ HandleCommandSignal(h)
  BY <1>4, HandlerKinds, Zenon
<1>5. CASE holderActs \/ \E d \in Domains : CommandStep(d) /\ CommandDomain(d)
  <2>1. UNCHANGED <<domains, delayedStatus, handlers, pc>>
    BY <1>5 DEF holderActs, NotifyFeedback, UpdateStatus, SendSignal, CommandDomain, holderUnchanged
  <2> QED
    BY <1>5, <2>1
<1> QED
  BY <1>1, <1>2, <1>3, <1>4, <1>5, StepsOfActivity, Zenon

\* the holder of the lock does the first thing it has left to do
LEMMA HolderTodo ==
    ASSUME proceeds, holderActs \/ \E d \in Domains : CommandDomain(d)
    PROVE  /\ todo # <<>> /\ 1 \in DOMAIN todo /\ Head(todo) = todo[1]
           /\ \/ /\ todo' = Tail(todo)
                 /\ \A i \in DOMAIN todo' : i \in Nat \ {0} /\ i + 1 \in DOMAIN todo /\ todo'[i] = todo[i + 1]
              \/ /\ DOMAIN todo = {1} /\ DOMAIN todo' = {1} /\ todo[1].op = "command"
                 /\ todo'[1].op = "command" /\ todo'[1].command = todo[1].command
                 /\ todo'[1].targets \subseteq todo[1].targets
<1>1. /\ TypeOK /\ LastInv /\ todo \in Seq(Effect) /\ todo # <<>>
      /\ \/ todo' = Tail(todo)
         \/ Head(todo).op = "command" /\ \E d \in Domains : todo' = [todo EXCEPT ![1].targets = @ \ {d}]
  BY SteadyFacts DEF TypeOK, holderActs, NotifyFeedback, UpdateStatus, SendSignal, CommandDomain
<1>2. 1 \in DOMAIN todo /\ Head(todo) = todo[1]
  BY <1>1, FirstTodo
<1>3. CASE todo' = Tail(todo)
  BY <1>1, <1>2, <1>3, HeadIsFirst
<1>4. ASSUME NEW d \in Domains, Head(todo).op = "command", todo' = [todo EXCEPT ![1].targets = @ \ {d}]
      PROVE  /\ DOMAIN todo = {1} /\ DOMAIN todo' = {1} /\ todo[1].op = "command"
             /\ todo'[1].op = "command" /\ todo'[1].command = todo[1].command
             /\ todo'[1].targets \subseteq todo[1].targets
  <2>1. Len(todo) = 1 /\ DOMAIN todo = {1}
    <3>1. 1 = Len(todo)
      BY <1>1, <1>2, <1>4, Zenon DEF LastInv
    <3>2. DOMAIN todo = 1..Len(todo)
      BY <1>1, LenProperties
    <3> QED
      BY <3>1, <3>2
  <2>2. DOMAIN todo' = {1} /\ todo'[1] = [todo[1] EXCEPT !.targets = @ \ {d}]
    BY <1>1, <1>2, <1>4, <2>1
  <2>3. todo[1] \in [op : {"command"}, command : AllCommands, targets : SUBSET Domains, spawnedIn : Nat]
    BY <1>1, <1>2, <1>4, HeadTyped DEF Effect, Blocked
  <2> QED
    BY <1>2, <1>4, <2>1, <2>2, <2>3
<1> QED
  BY <1>1, <1>2, <1>3, <1>4

\* a domain is to be commanded if it was to be, if it is up for it, or if it failed
LEMMA TargetOrigin ==
    ASSUME proceeds, NEW c, NEW d, targeted(c, d)'
    PROVE  \/ targeted(c, d)
           \/ /\ UNCHANGED domains /\ d \in DOMAIN domains /\ domains[d] \in takes(c)
              /\ \/ c \in Commands /\ issuesNow(c)
                 \/ c = "ROLLBACK" /\ \E b \in Phases : refuses(b) /\ b # "DOWNLOAD"
           \/ c = "CLEANUP" /\ handled(d) /\ changes(d) /\ \E b \in Failable : fails(b, d)
<1>1. PICK i \in DOMAIN todo' : todo'[i].op = "command" /\ todo'[i].command = c /\ d \in todo'[i].targets
  BY DEF targeted
<1>2. CASE UNCHANGED todo
  BY <1>1, <1>2 DEF targeted
<1>3. CASE holderActs \/ \E e \in Domains : CommandDomain(e)
  BY <1>1, <1>3, HolderTodo DEF targeted
<1>4. ASSUME NEW b \in Commands, issuesNow(b)
      PROVE  /\ UNCHANGED domains /\ d \in DOMAIN domains /\ domains[d] \in takes(c)
             /\ c \in Commands /\ issuesNow(c)
  <2>1. PICK a : todo' = ExecuteCommand(b, a)
    BY <1>4 DEF issuesNow
  <2>2. b = c /\ d \in DOMAIN domains /\ domains[d] \in takes(b)
    BY <1>1, <1>4, <2>1, IssuedTargets DEF AllCommands
  <2> QED
    BY <1>4, <2>2 DEF issuesNow, onlyTodo
<1>5. ASSUME NEW b \in Commands, asksOwner(b)
      PROVE  FALSE
  <2>1. PICK a : todo' = <<AwaitConsent(b, a)>>
    BY <1>5 DEF asksOwner
  <2>2. todo'[i].op = "consent"
    BY <1>1, <2>1, SingletonEntry, EffectFields
  <2> QED
    BY <1>1, <2>2
<1>6. ASSUME NEW b \in Phases, refuses(b)
      PROVE  /\ UNCHANGED domains /\ d \in DOMAIN domains /\ domains[d] \in takes(c)
             /\ c = "ROLLBACK" /\ b # "DOWNLOAD"
  <2>1. UNCHANGED domains
    BY <1>6 DEF refuses, onlyTodo
  <2>2. todo' # <<SetStatus("INCOMPLETE"), Send("err", "true")>>
    BY <1>1, EffectFields
  <2>3. i # 1 \/ todo'[1] # Send("rollback", "true")
    BY <1>1, EffectFields
  <2> QED
    BY <1>1, <1>6, <2>1, <2>2, <2>3, RefusedTodo
<1>7. ASSUME NEW e \in Domains, handled(e), changes(e)
      PROVE  c = "CLEANUP" /\ e = d /\ \E b \in Failable : fails(b, d)
  <2>1. ASSUME NEW b \in Failable, fails(b, e)
        PROVE  c = "CLEANUP" /\ e = d
    <3>1. todo' = <<Command("CLEANUP", {e}, activity)>>
      BY <2>1 DEF fails
    <3>2. todo'[i] = Command("CLEANUP", {e}, activity)
      BY <1>1, <3>1, SingletonEntry
    <3> QED
      BY <1>1, <3>2 DEF Command
  <2>2. todo' # IdentificationFailed /\ todo' # running /\ todo' # nothingToDo
    BY <1>1, EffectFields DEF IdentificationFailed, running, nothingToDo
  <2>3. \A x : todo' # <<Send(x, "true"), Notify("RUNNING")>>
    BY <1>1, EffectFields
  <2>4. todo' # <<SetStatus("COMPLETED"), Send("done", "true")>> /\ todo' # <<SetStatus("INCOMPLETE"), Send("err", "true")>>
    BY <1>1, EffectFields
  <2>5. todo' # <<>>
    BY <1>1
  <2> QED
    BY <1>7, <2>1, <2>2, <2>3, <2>4, <2>5 DEF changes, identifies, succeeds, rollsBack, finishes
<1>8. ASSUME NEW e \in Domains, progresses(e)
      PROVE  FALSE
  BY <1>1, <1>8, EffectFields DEF progresses
<1> QED
  BY <1>2, <1>3, <1>4, <1>5, <1>6, <1>7, <1>8, TodoKinds, Zenon

-----------------------------------------------------------------------------
(* How far an activity has come, by what its domains have been through *)

\* the statuses of a domain that has begun phase c
begun(c) ==
    CASE c = "DOWNLOAD" -> beyond \ Finished
      [] c = "UPDATE"   -> {"UPDATE_SUCCESS", "UPDATE_FAILURE", "ACTIVATION_SUCCESS", "ACTIVATION_FAILURE",
                            "ROLLBACK_SUCCESS", "ROLLBACK_FAILURE"}
      [] c = "ACTIVATE" -> {"ACTIVATION_SUCCESS", "ACTIVATION_FAILURE"}

\* no domain is ahead of the activity
LevelInv ==
    /\ \A c \in Phases : Some(domains, begun(c)) => reached(c)
    /\ \A d \in Domains : /\ involves("ROLLBACK", d) => reached("UPDATE")
                          /\ involves("CLEANUP", d) => reached("DOWNLOAD")

\* only what was done, or failed, is cleaned up
failedStatuses == {failure(c) : c \in Failable}
CleanInv ==
    \A d \in Domains : involves("CLEANUP", d) =>
        d \in DOMAIN domains /\ domains[d] \in failedStatuses \cup takes("CLEANUP") \cup Finished

LEMMA BegunStatuses ==
    /\ \A c \in Phases : /\ takes(c) = from(c)
                         /\ from(c) \cap Finished = {}
                         /\ \A b \in Phases : success(b) \in begun(c) => b = c \/ c \in Earlier(b)
                         /\ \A b \in Phases : failure(b) \in begun(c) => b = c \/ c \in Earlier(b)
                         /\ failure("ROLLBACK") \in begun(c) \/ "ROLLBACK_SUCCESS" \in begun(c)
                              => c \in {"DOWNLOAD", "UPDATE"}
                         /\ begun(c) \cap ({"IDENTIFIED", "IDENTIFICATION_FAILED"} \cup Finished) = {}
    /\ takes("CLEANUP") \subseteq begun("DOWNLOAD") /\ takes("ROLLBACK") \subseteq begun("DOWNLOAD")
    /\ from("UPDATE") \subseteq begun("DOWNLOAD") /\ from("ACTIVATE") \subseteq begun("DOWNLOAD")
    /\ \A c \in Failable : /\ takes(c) \cap (failedStatuses \cup takes("CLEANUP") \cup Finished) = {}
                           /\ failure(c) \in failedStatuses
    /\ {"IDENTIFYING", "IDENTIFIED", "IDENTIFICATION_FAILED"} \cap (failedStatuses \cup takes("CLEANUP") \cup Finished) = {}
    /\ failedStatuses \subseteq begun("DOWNLOAD")
    /\ takes("DOWNLOAD") = {"IDENTIFIED"}
  BY DEF takes, from, Phases, Failable, failure, success, begun, beyond, Earlier, failedStatuses, DomainStatus,
         FeedbackStatus, Finished

LEMMA ReachedEarlier ==
    ASSUME NEW b \in Phases, NEW c \in Phases, reached(b), c = b \/ c \in Earlier(b)
    PROVE  reached(c)
  BY DEF reached, Behind, Some, Phases, Earlier

\* a domain is involved in going back or cleaning up because it was, is commanded, or failed
LEMMA InvolvedOrigin ==
    ASSUME proceeds, NEW c \in AllCommands, NEW d \in Domains, involves(c, d)'
    PROVE  involves(c, d) \/ (targeted(c, d)' /\ ~targeted(c, d))
<1>1. TypeOKActivity /\ LastInv /\ "publish" \notin Faults /\ [NextActivity]_allVars /\ activity' = activity
  BY SteadyFacts
<1>2. asks(c, d)' => asks(c, d) \/ targeted(c, d)
  BY <1>1, AsksStep DEF AllCommands, Commands
<1>3. responds(c, d)' => responds(c, d) \/ asks(c, d)
  BY RespondsStep
<1> QED
  BY <1>2, <1>3 DEF involves

LEMMA LevelStep ==
    ASSUME proceeds, LevelInv
    PROVE  LevelInv'
<1>1. \A c \in Phases : reached(c) => reached(c)'
  BY SteadyFacts, ReachedKept
<1>2. \A c \in Phases, d \in Domains : responds(c, d) => reached(c)
  BY InvolvedReached, SteadyFacts, Zenon DEF CarriedInv, carried
<1>3. "UPDATE" \in Phases /\ "DOWNLOAD" \in Phases /\ "DOWNLOAD" \in Earlier("UPDATE") /\ TypeOK
  BY SteadyFacts DEF Phases, Earlier
<1>4. ASSUME NEW c \in Phases, Some(domains', begun(c))
      PROVE  reached(c)'
  <2>1. PICK e \in DOMAIN domains' : domains'[e] \in begun(c)
    BY <1>4 DEF Some
  <2>2. CASE e \in DOMAIN domains /\ domains'[e] = domains[e]
    BY <1>1, <2>1, <2>2, Zenon DEF LevelInv, Some
  <2>3. ASSUME NEW d \in Domains, handled(d), changes(d), e = d
        PROVE  reached(c)
    <3>1. ASSUME NEW b \in Phases, responds(b, d), domains'[d] = success(b) \/ domains'[d] = failure(b)
          PROVE  reached(c)
      BY <1>2, <2>1, <2>3, <3>1, BegunStatuses, ReachedEarlier
    <3>2. ASSUME responds("ROLLBACK", d), domains'[d] = failure("ROLLBACK") \/ domains'[d] = "ROLLBACK_SUCCESS"
          PROVE  reached(c)
      <4>1. reached("UPDATE")
        BY <3>2 DEF LevelInv, involves
      <4>2. c \in {"DOWNLOAD", "UPDATE"}
        BY <2>1, <2>3, <3>2, BegunStatuses
      <4> QED
        BY <1>3, <4>1, <4>2, ReachedEarlier
    <3>3. domains'[d] \notin {"IDENTIFIED", "IDENTIFICATION_FAILED"} \cup Finished
      BY <2>1, <2>3, BegunStatuses
    <3>4. rollsBack(d) => responds("ROLLBACK", d)
      BY DEF rollsBack
    <3>5. "CLEANUP_SUCCESS" \in Finished
      BY DEF Finished
    <3> QED
      BY <2>3, <3>1, <3>2, <3>3, <3>4, <3>5, ChangeFacts DEF Failable
  <2> QED
    BY <1>1, <2>1, <2>2, <2>3, DomainsChange, ChangeFacts
<1>5. ASSUME NEW d \in Domains, involves("ROLLBACK", d)'
      PROVE  reached("UPDATE")
  <2>1. CASE involves("ROLLBACK", d)
    BY <2>1 DEF LevelInv
  <2>2. ASSUME NEW b \in Phases, refuses(b), b # "DOWNLOAD"
        PROVE  reached("UPDATE")
    <3>1. reached(b)
      BY <2>2, SteadyFacts, Zenon DEF refuses, CarriedInv, carried
    <3>2. b = "UPDATE" \/ "UPDATE" \in Earlier(b)
      BY <2>2 DEF Phases, Earlier
    <3> QED
      BY <1>3, <3>1, <3>2, ReachedEarlier
  <2>3. "ROLLBACK" \notin Commands
    BY DEF Commands
  <2> QED
    BY <1>5, <2>1, <2>2, <2>3, InvolvedOrigin, TargetOrigin DEF AllCommands
<1>6. ASSUME NEW d \in Domains, involves("CLEANUP", d)'
      PROVE  reached("DOWNLOAD")
  <2>1. CASE involves("CLEANUP", d)
    BY <2>1 DEF LevelInv
  <2>2. CASE d \in DOMAIN domains /\ domains[d] \in takes("CLEANUP")
    BY <1>3, <2>2, BegunStatuses DEF LevelInv, Some
  <2>3. ASSUME NEW b \in Failable, fails(b, d)
        PROVE  reached("DOWNLOAD")
    <3>1. responds(b, d)
      BY <2>3, FailureStatuses DEF fails, responds
    <3>2. CASE b \in Phases
      BY <1>2, <3>1, <3>2, InvolvedReached
    <3>3. CASE b = "ROLLBACK"
      BY <1>3, <3>1, <3>3, ReachedEarlier DEF LevelInv, involves
    <3> QED
      BY <3>2, <3>3 DEF Failable
  <2> QED
    BY <1>6, <2>1, <2>2, <2>3, InvolvedOrigin, TargetOrigin DEF AllCommands, Commands
<1> QED
  BY <1>1, <1>3, <1>4, <1>5, <1>6 DEF LevelInv

LEMMA CleanStep ==
    ASSUME proceeds, LevelInv, CleanInv
    PROVE  CleanInv'
<1> SUFFICES ASSUME NEW d \in Domains, involves("CLEANUP", d)'
             PROVE  d \in DOMAIN domains' /\ domains'[d] \in failedStatuses \cup takes("CLEANUP") \cup Finished
  BY DEF CleanInv
<1>1. CASE handled(d) /\ changes(d) /\ \E b \in Failable : fails(b, d)
  <2>1. PICK b \in Failable : fails(b, d)
    BY <1>1
  <2>2. domains' = [domains EXCEPT ![d] = failure(b)] /\ d \in DOMAIN domains
    BY <1>1, <2>1 DEF fails, becomes, handled
  <2> QED
    BY <2>1, <2>2, BegunStatuses
<1>2. CASE UNCHANGED domains /\ d \in DOMAIN domains /\ domains[d] \in takes("CLEANUP")
  BY <1>2
<1>3. CASE involves("CLEANUP", d)
  <2>1. d \in DOMAIN domains /\ domains[d] \in failedStatuses \cup takes("CLEANUP") \cup Finished
    BY <1>3 DEF CleanInv
  <2>2. CASE UNCHANGED domains
    BY <2>1, <2>2
  <2>3. ASSUME NEW e \in Domains, handled(e), changes(e), e # d
        PROVE  d \in DOMAIN domains' /\ domains'[d] = domains[d]
    BY <2>1, <2>3, ChangeFacts
  <2>4. CASE handled(d) /\ changes(d)
    <3>1. ~identifies(d)
      BY <1>3, InvolvedReached DEF LevelInv, identifies
    <3>2. \A c \in Phases : ~succeeds(c, d)
      BY <2>1, BegunStatuses, FailureStatuses DEF succeeds
    <3>3. ~rollsBack(d)
      BY <2>1, BegunStatuses, FailureStatuses DEF rollsBack
    <3>4. \A c \in Failable : ~fails(c, d)
      BY <2>1, BegunStatuses DEF fails
    <3>5. domains'[d] \in Finished /\ d \in DOMAIN domains'
      BY <2>4, <3>1, <3>2, <3>3, <3>4, ChangeFacts
    <3> QED
      BY <3>5
  <2> QED
    BY <2>1, <2>2, <2>3, <2>4, DomainsChange
<1> QED
  BY <1>1, <1>2, <1>3, InvolvedOrigin, TargetOrigin DEF AllCommands, Commands

-----------------------------------------------------------------------------
(* Where signals come from *)

\* the last domain has been identified, and some have actions to take, none has, or one failed ...
allIdentified(d) == handled(d) /\ changes(d) /\ identifies(d) /\ todo' # <<>> /\ ~Some(domains', {"IDENTIFYING"})
offersDownload(d) ==
    /\ allIdentified(d) /\ todo' = running
    /\ Some(domains', {"IDENTIFIED"}) /\ ~Some(domains', {"IDENTIFICATION_FAILED"})
findsNothing(d) ==
    /\ allIdentified(d) /\ todo' = nothingToDo
    /\ ~Some(domains', {"IDENTIFIED", "IDENTIFICATION_FAILED"})
givesUp(d) ==
    /\ allIdentified(d) /\ todo' = IdentificationFailed
    /\ Some(domains', {"IDENTIFICATION_FAILED"})
\* ... has come through phase c, or back, ...
offersNext(c, d) ==
    /\ handled(d) /\ changes(d) /\ succeeds(c, d)
    /\ todo' = <<Send(After(c), "true"), Notify("RUNNING")>> /\ ~Some(domains', from(c))
hasRolledBack(d) ==
    /\ handled(d) /\ changes(d) /\ rollsBack(d)
    /\ todo' = <<Send("CLEANUP", "true"), Notify("RUNNING")>> /\ ~Some(domains', takes("ROLLBACK"))
\* ... or has finished
allDone(d) ==
    /\ handled(d) /\ changes(d) /\ finishes(d) /\ ~Some(domains', DomainStatus \ Finished)
    /\ todo' = IF intact' THEN <<SetStatus("COMPLETED"), Send("done", "true")>>
               ELSE <<SetStatus("INCOMPLETE"), Send("err", "true")>>

\* what makes the lock holder send v to the channel x
newSignal(x, v) ==
    \/ x = "DOWNLOAD" /\ v = "true" /\ \E d \in Domains : offersDownload(d)
    \/ x = "DOWNLOAD" /\ v = "false" /\ \E d \in Domains : findsNothing(d)
    \/ x = "err" /\ v = "true" /\ \E d \in Domains : givesUp(d)
    \/ v = "true" /\ \E c \in Phases, d \in Domains : offersNext(c, d) /\ x = After(c)
    \/ x = "CLEANUP" /\ v = "true" /\ \E d \in Domains : hasRolledBack(d)
    \/ x = (IF intact' THEN "done" ELSE "err") /\ v = "true" /\ \E d \in Domains : allDone(d)
    \/ x = "err" /\ v = "true" /\ refuses("DOWNLOAD")
    \/ x = "rollback" /\ v = "true" /\ \E c \in Phases \ {"DOWNLOAD"} : refuses(c)

sends(x, v) == \E i \in DOMAIN todo : todo[i] = Send(x, v)
signals(x, v) == chan[x] = v \/ sends(x, v)

LEMMA PairEntries ==
    ASSUME NEW a, NEW b, NEW i \in DOMAIN <<a, b>>
    PROVE  (i = 1 /\ <<a, b>>[i] = a) \/ (i = 2 /\ <<a, b>>[i] = b)
  OBVIOUS

LEMMA ChangedTodo ==
    ASSUME proceeds, NEW d \in Domains, handled(d), changes(d)
    PROVE  \/ todo' = <<>>
           \/ offersDownload(d) \/ findsNothing(d) \/ givesUp(d)
           \/ \E c \in Phases : offersNext(c, d)
           \/ hasRolledBack(d) \/ allDone(d)
           \/ \E c \in Failable : fails(c, d) /\ todo' = <<Command("CLEANUP", {d}, activity)>>
<1>1. CASE identifies(d)
  <2>1. CASE todo' = <<>>
    BY <2>1
  <2>2. CASE todo' # <<>>
    <3>1. ~Some(domains', {"IDENTIFYING"})
      BY <1>1, <2>2 DEF identifies
    <3>2. Some(domains', {"IDENTIFIED", "IDENTIFICATION_FAILED"})
             => Some(domains', {"IDENTIFIED"}) \/ Some(domains', {"IDENTIFICATION_FAILED"})
      BY DEF Some
    <3>3. \/ Some(domains', {"IDENTIFICATION_FAILED"}) /\ todo' = IdentificationFailed
          \/ /\ ~Some(domains', {"IDENTIFICATION_FAILED"})
             /\ Some(domains', {"IDENTIFIED"}) /\ todo' = running
          \/ /\ ~Some(domains', {"IDENTIFICATION_FAILED"}) /\ ~Some(domains', {"IDENTIFIED"})
             /\ todo' = nothingToDo
      BY <1>1, <3>1, Zenon DEF identifies
    <3> QED
      BY <1>1, <2>2, <3>1, <3>2, <3>3, Zenon DEF offersDownload, findsNothing, givesUp, allIdentified
  <2> QED
    BY <2>1, <2>2
<1>2. ASSUME NEW c \in Phases, succeeds(c, d)
      PROVE  todo' = <<>> \/ offersNext(c, d)
  BY <1>2 DEF succeeds, offersNext
<1>3. CASE rollsBack(d)
  BY <1>3 DEF rollsBack, hasRolledBack
<1>4. ASSUME NEW c \in Failable, fails(c, d)
      PROVE  todo' = <<Command("CLEANUP", {d}, activity)>>
  BY <1>4 DEF fails
<1>5. CASE finishes(d)
  BY <1>5, Zenon DEF finishes, allDone
<1> QED
  BY <1>1, <1>2, <1>3, <1>4, <1>5, Zenon DEF changes

LEMMA SendKinds ==
    ASSUME proceeds, NEW x, NEW v, sends(x, v)'
    PROVE  sends(x, v) \/ newSignal(x, v)
<1>1. PICK i \in DOMAIN todo' : todo'[i] = Send(x, v)
  BY DEF sends
<1>2. todo'[i].op = "send" /\ todo'[i].channel = x /\ todo'[i].value = v
  BY <1>1, EffectFields
<1>3. CASE UNCHANGED todo
  BY <1>1, <1>3 DEF sends
<1>4. CASE holderActs \/ \E d \in Domains : CommandDomain(d)
  BY <1>1, <1>2, <1>4, HolderTodo DEF sends
<1>5. ASSUME NEW c \in Commands, issuesNow(c) \/ asksOwner(c)
      PROVE  FALSE
  <2>1. ASSUME NEW a, todo' = ExecuteCommand(c, a)
        PROVE  FALSE
    BY <1>2, <2>1, IssuedTargets DEF AllCommands
  <2>2. ASSUME NEW a, todo' = <<AwaitConsent(c, a)>>
        PROVE  FALSE
    <3>1. todo'[i] = AwaitConsent(c, a)
      BY <1>1, <2>2, SingletonEntry
    <3> QED
      BY <1>2, <3>1, EffectFields
  <2> QED
    BY <1>5, <2>1, <2>2 DEF issuesNow, asksOwner
<1>6. ASSUME NEW c \in Phases, refuses(c)
      PROVE  newSignal(x, v)
  <2>1. CASE c = "DOWNLOAD" /\ todo' = <<SetStatus("INCOMPLETE"), Send("err", "true")>>
    <3>1. todo'[i] = SetStatus("INCOMPLETE") \/ todo'[i] = Send("err", "true")
      BY <1>1, <2>1, PairEntries
    <3>2. x = "err" /\ v = "true"
      BY <1>2, <3>1, EffectFields
    <3> QED
      BY <1>6, <2>1, <3>2 DEF newSignal
  <2>2. CASE /\ c # "DOWNLOAD" /\ 1 \in DOMAIN todo' /\ todo'[1] = Send("rollback", "true")
             /\ \A j \in DOMAIN todo' : j # 1 => todo'[j].op = "command"
    <3>1. todo'[i] = Send("rollback", "true")
      BY <1>1, <1>2, <2>2
    <3>2. x = "rollback" /\ v = "true"
      BY <1>2, <3>1, EffectFields
    <3> QED
      BY <1>6, <2>2, <3>2 DEF newSignal
  <2> QED
    BY <1>6, <2>1, <2>2, RefusedTodo
<1>7. ASSUME NEW d \in Domains, handled(d), changes(d)
      PROVE  newSignal(x, v)
  <2>1. todo' # <<>>
    BY <1>1
  <2>2. ASSUME NEW c \in Failable, todo' = <<Command("CLEANUP", {d}, activity)>>
        PROVE  FALSE
    <3>1. todo'[i] = Command("CLEANUP", {d}, activity)
      BY <1>1, <2>2, SingletonEntry
    <3> QED
      BY <1>2, <3>1, EffectFields
  <2>3. CASE offersDownload(d)
    <3>1. todo' = running
      BY <2>3 DEF offersDownload
    <3>2. x = "DOWNLOAD" /\ v = "true"
      BY <1>1, <1>2, <3>1, EffectFields DEF running
    <3> QED
      BY <2>3, <3>2 DEF newSignal
  <2>4. CASE findsNothing(d)
    <3>1. todo' = nothingToDo
      BY <2>4 DEF findsNothing
    <3>2. x = "DOWNLOAD" /\ v = "false"
      BY <1>1, <1>2, <3>1, EffectFields DEF nothingToDo
    <3> QED
      BY <2>4, <3>2 DEF newSignal
  <2>5. CASE givesUp(d)
    <3>1. todo' = <<SetStatus("IDENTIFICATION_FAILED"), Send("err", "true")>>
      BY <2>5 DEF givesUp, IdentificationFailed
    <3>2. x = "err" /\ v = "true"
      BY <1>1, <1>2, <3>1, EffectFields, PairEntries
    <3> QED
      BY <2>5, <3>2 DEF newSignal
  <2>6. ASSUME NEW c \in Phases, offersNext(c, d)
        PROVE  newSignal(x, v)
    <3>1. todo' = <<Send(After(c), "true"), Notify("RUNNING")>>
      BY <2>6 DEF offersNext
    <3>2. todo'[i] = Send(After(c), "true") \/ todo'[i] = Notify("RUNNING")
      BY <1>1, <3>1, PairEntries
    <3>3. x = After(c) /\ v = "true"
      BY <1>2, <3>2, EffectFields
    <3> QED
      BY <2>6, <3>3 DEF newSignal
  <2>7. CASE hasRolledBack(d)
    <3>1. todo' = <<Send("CLEANUP", "true"), Notify("RUNNING")>>
      BY <2>7 DEF hasRolledBack
    <3>2. todo'[i] = Send("CLEANUP", "true") \/ todo'[i] = Notify("RUNNING")
      BY <1>1, <3>1, PairEntries
    <3>3. x = "CLEANUP" /\ v = "true"
      BY <1>2, <3>2, EffectFields
    <3> QED
      BY <2>7, <3>3 DEF newSignal
  <2>8. CASE allDone(d)
    <3>1. CASE intact' /\ todo' = <<SetStatus("COMPLETED"), Send("done", "true")>>
      <4>1. todo'[i] = SetStatus("COMPLETED") \/ todo'[i] = Send("done", "true")
        BY <1>1, <3>1, PairEntries
      <4>2. x = "done" /\ v = "true"
        BY <1>2, <4>1, EffectFields
      <4> QED
        BY <2>8, <3>1, <4>2 DEF newSignal
    <3>2. CASE ~intact' /\ todo' = <<SetStatus("INCOMPLETE"), Send("err", "true")>>
      <4>1. todo'[i] = SetStatus("INCOMPLETE") \/ todo'[i] = Send("err", "true")
        BY <1>1, <3>2, PairEntries
      <4>2. x = "err" /\ v = "true"
        BY <1>2, <4>1, EffectFields
      <4> QED
        BY <2>8, <3>2, <4>2 DEF newSignal
    <3> QED
      BY <2>8, <3>1, <3>2 DEF allDone
  <2> QED
    BY <1>7, <2>1, <2>2, <2>3, <2>4, <2>5, <2>6, <2>7, <2>8, ChangedTodo
<1>8. ASSUME NEW d \in Domains, progresses(d)
      PROVE  FALSE
  <2>1. todo'[i] = Notify("RUNNING")
    BY <1>1, <1>8, SingletonEntry DEF progresses
  <2> QED
    BY <1>2, <2>1, EffectFields
<1> QED
  BY <1>3, <1>4, <1>5, <1>6, <1>7, <1>8, TodoKinds, Zenon

\* a channel is emptied by Apply and filled by the lock holder
LEMMA ChannelKinds ==
    ASSUME proceeds, NEW x \in Channels \ {"consent"}
    PROVE  \/ chan'[x] = chan[x]
           \/ applies /\ chan'[x] = "empty"
           \/ /\ SendSignal /\ chan[x] = "empty" /\ 1 \in DOMAIN todo /\ todo[1] = Head(todo)
              /\ todo[1] = Send(x, chan'[x]) /\ todo' = Tail(todo)
<1>1. TypeOK /\ chan \in [Channels -> ChannelState]
  BY SteadyFacts DEF TypeOK
<1>2. CASE rests
  BY <1>2 DEF rests
<1>3. CASE applies
  <2>1. \/ UNCHANGED chan
        \/ \E y : chan' = [chan EXCEPT ![y] = "empty"]
    BY <1>3 DEF applies, ApplyWork, Identify, PhaseTimeout, Wait, ErrorSignalled, RollbackSignalled, Signalled,
                ContextDone, ReturnReboot, ReportFinal, opVars
  <2> QED
    BY <1>1, <1>3, <2>1
<1>4. CASE questionEnds \/ \E h \in handlers : HandlerStep(h) /\ HandleCommandSignal(h)
  BY <1>1, <1>4 DEF questionEnds, OwnerConsented, OwnerConsentFailed, HandleCommandSignal
<1>5. CASE holderActs
  <2>1. CASE NotifyFeedback \/ UpdateStatus
    BY <2>1 DEF NotifyFeedback, UpdateStatus
  <2>2. CASE SendSignal
    <3>1. /\ todo # <<>> /\ Head(todo).op = "send" /\ chan[Head(todo).channel] = "empty"
          /\ chan' = [chan EXCEPT ![Head(todo).channel] = Head(todo).value] /\ todo' = Tail(todo)
      BY <2>2 DEF SendSignal
    <3>2. 1 \in DOMAIN todo /\ todo[1] = Head(todo) /\ Head(todo) = Send(Head(todo).channel, Head(todo).value)
      BY <1>1, <3>1, FirstTodo, HeadFields
    <3> QED
      BY <1>1, <2>2, <3>1, <3>2
  <2> QED
    BY <1>5, <2>1, <2>2 DEF holderActs
<1>6. CASE \E d \in Domains : CommandStep(d) /\ CommandDomain(d)
  BY <1>6 DEF CommandDomain
<1>7. CASE \E d \in Domains : handled(d)
  BY <1>7 DEF handled
<1> QED
  BY <1>2, <1>3, <1>4, <1>5, <1>6, <1>7, StepsOfActivity

LEMMA SignalKinds ==
    ASSUME proceeds, NEW x \in Channels \ {"consent"}, NEW v \in {"true", "false"}, signals(x, v)'
    PROVE  \/ signals(x, v)
           \/ /\ newSignal(x, v) /\ sends(x, v)'
              /\ UNCHANGED <<activity, pc, status>>
              /\ \A y \in Channels \ {"consent"} : chan'[y] = chan[y]
<1>1. CASE sends(x, v)' /\ newSignal(x, v)
  <2>1. /\ UNCHANGED <<activity, pc, status>>
        /\ \A y \in Channels \ {"consent"} : chan'[y] = chan[y]
    <3>1. CASE \E d \in Domains : handled(d)
      BY <3>1 DEF handled
    <3>2. CASE \E c : refuses(c)
      BY <3>2 DEF refuses, onlyTodo
    <3> QED
      BY <1>1, <3>1, <3>2 DEF newSignal, offersDownload, findsNothing, givesUp, allIdentified, offersNext,
                              hasRolledBack, allDone
  <2> QED
    BY <1>1, <2>1
<1>2. CASE chan'[x] = v
  BY <1>2, ChannelKinds DEF signals, sends
<1> QED
  BY <1>1, <1>2, SendKinds DEF signals

-----------------------------------------------------------------------------
(* What an activity still has in store *)

\* phase c is announced: its signal, goroutine or question is on its way, ...
offered(c) == waitingFor(c) \/ consulted(c) \/ (ahead(c) /\ signals(c, "true"))
\* ... so some domain is up for it
OfferInv == \A c \in Phases : offered(c) => Some(domains, from(c))

\* once the owner refused, or may have, no phase is begun any more
turnsBack == signals("rollback", "true") \/ \E d \in Domains : involves("ROLLBACK", d)
barred ==
    /\ ~ahead("UPDATE")
    /\ \A c \in {"UPDATE", "ACTIVATE"} : ~waitingFor(c) /\ ~consulted(c)
    /\ ahead("ACTIVATE") => ~signalled("ACTIVATE") /\ ~pursued("UPDATE")
BackInv == turnsBack => barred

LEMMA PhaseNames ==
    /\ Phases \subseteq Channels \ {"consent"} /\ Phases \subseteq Commands
    /\ "CLEANUP" \notin Phases /\ "err" \notin Phases /\ "done" \notin Phases /\ "rollback" \notin Phases
    /\ After("DOWNLOAD") = "UPDATE" /\ After("UPDATE") = "ACTIVATE" /\ After("ACTIVATE") = "CLEANUP"
    /\ \A c \in Phases : After(c) \in {"UPDATE", "ACTIVATE", "CLEANUP"}
    /\ \A c \in Phases : After(c) \in Phases => success(c) \in from(After(c))
    /\ {"DOWNLOAD", "UPDATE", "ACTIVATE"} = Phases
    /\ {"rollback", "err", "done", "CLEANUP"} \subseteq Channels \ {"consent"}
  BY DEF Phases, Channels, Commands, After, success, from

LEMMA OfferedOrigin ==
    ASSUME proceeds, NEW c \in Phases, offered(c)'
    PROVE  \/ offered(c)
           \/ c = "DOWNLOAD" /\ \E d \in Domains : offersDownload(d)
           \/ \E b \in Phases, d \in Domains : offersNext(b, d) /\ c = After(b)
<1>1. TypeOKActivity /\ [NextActivity]_allVars /\ activity' = activity
  BY SteadyFacts
<1>2. CASE waitingFor(c)'
  <2>1. CASE Signalled /\ pc = c /\ chan[c] = "true"
    <3>1. ahead(c)
      BY <2>1 DEF ahead, Phases
    <3> QED
      BY <2>1, <3>1 DEF offered, signals
  <2> QED
    BY <1>1, <1>2, <2>1, WaitingStep DEF offered
<1>3. CASE consulted(c)'
  BY <1>3, PhaseSteps DEF offered
<1>4. CASE ahead(c)' /\ signals(c, "true")'
  <2>1. ahead(c) /\ c \in Channels \ {"consent"}
    BY <1>4, PhaseSteps, PhaseNames
  <2>2. signals(c, "true") \/ newSignal(c, "true")
    BY <1>4, <2>1, SignalKinds
  <2>3. c \notin {"CLEANUP", "err", "done", "rollback"}
    BY PhaseNames
  <2> QED
    BY <2>1, <2>2, <2>3, Zenon DEF newSignal, offered
<1> QED
  BY <1>2, <1>3, <1>4 DEF offered

LEMMA OfferStep ==
    ASSUME proceeds, LevelInv, CleanInv, OfferInv, BackInv
    PROVE  OfferInv'
<1> SUFFICES ASSUME NEW c \in Phases, offered(c)'
             PROVE  Some(domains', from(c))
  BY DEF OfferInv
<1>1. ASSUME NEW d \in Domains, offersDownload(d), c = "DOWNLOAD"
      PROVE  Some(domains', from(c))
  BY <1>1 DEF offersDownload, from
<1>2. ASSUME NEW b \in Phases, NEW d \in Domains, offersNext(b, d), c = After(b)
      PROVE  Some(domains', from(c))
  <2>1. d \in DOMAIN domains /\ d \in DOMAIN domains' /\ becomes(d, success(b))
    BY <1>2, ChangeFacts DEF offersNext, succeeds
  <2>2. domains'[d] = success(b)
    BY <2>1 DEF becomes
  <2> QED
    BY <1>2, <2>1, <2>2, PhaseNames DEF Some
<1>3. CASE offered(c)
  <2>1. PICK e \in DOMAIN domains : domains[e] \in from(c)
    BY <1>3 DEF OfferInv, Some
  <2>2. CASE UNCHANGED domains
    BY <2>1, <2>2 DEF Some
  <2>3. ASSUME NEW d \in Domains, handled(d), changes(d), e # d
        PROVE  Some(domains', from(c))
    BY <2>1, <2>3, ChangeFacts DEF Some
  <2>4. ASSUME NEW d \in Domains, handled(d), changes(d), e = d
        PROVE  FALSE
    <3>1. ~pursued(c)
      BY <1>3, SteadyFacts DEF TurnInv, offered
    <3>2. ~responds(c, d)
      BY <3>1, InvolvedReached
    <3>3. ~identifies(d)
      <4>1. CASE c = "DOWNLOAD"
        BY <2>1, <2>4, <4>1, BegunStatuses, PhaseNames DEF identifies
      <4>2. CASE c # "DOWNLOAD"
        <5>1. domains[d] \in begun("DOWNLOAD")
          BY <2>1, <2>4, <4>2, BegunStatuses DEF Phases
        <5>2. reached("DOWNLOAD")
          BY <2>4, <5>1, PhaseNames DEF LevelInv, Some
        <5> QED
          BY <5>2, InvolvedReached DEF identifies
      <4> QED
        BY <4>1, <4>2
    <3>4. ASSUME NEW b \in Phases, succeeds(b, d) \/ fails(b, d), responds(b, d)
          PROVE  FALSE
      <4>1. domains[d] \in from(b)
        BY <3>4, BegunStatuses DEF succeeds, fails
      <4>2. b = c
        BY <2>1, <2>4, <4>1, StatusSets
      <4> QED
        BY <3>2, <3>4, <4>2
    <3>5. ASSUME domains[d] \in takes("ROLLBACK"), responds("ROLLBACK", d)
          PROVE  FALSE
      <4>1. barred
        BY <3>5 DEF BackInv, turnsBack, involves
      <4>2. c = "DOWNLOAD"
        BY <1>3, <4>1 DEF barred, offered, signals, sends, signalled, Phases
      <4> QED
        BY <2>1, <2>4, <3>5, <4>2 DEF from, takes
    <3>6. ASSUME responds("CLEANUP", d)
          PROVE  FALSE
      <4>1. domains[d] \in failedStatuses \cup takes("CLEANUP") \cup Finished
        BY <3>6 DEF CleanInv, involves
      <4> QED
        BY <2>1, <2>4, <4>1, BegunStatuses, FailureStatuses
    <3> QED
      BY <2>4, <3>3, <3>4, <3>5, <3>6, ChangeFacts DEF Failable, rollsBack, fails, finishes
  <2> QED
    BY <2>2, <2>3, <2>4, DomainsChange
<1> QED
  BY <1>1, <1>2, <1>3, OfferedOrigin

LEMMA RefusedNow ==
    ASSUME proceeds, NEW c \in Phases, refuses(c)
    PROVE  /\ \A b : ~consulted(b)' /\ waitingFor(b)' = waitingFor(b) /\ ahead(b)' = ahead(b)
           /\ \A b \in Phases : pursued(b)' => pursued(b)
<1>1. UNCHANGED <<activity, pc, handlers, requests, feedback, inHand>>
  BY DEF refuses, onlyTodo
<1>2. \A i \in DOMAIN todo' : todo'[i].op # "consent" /\ (todo'[i].op = "command" => todo'[i].command = "ROLLBACK")
  <2>1. CASE todo' = <<SetStatus("INCOMPLETE"), Send("err", "true")>>
    <3>1. \A i \in DOMAIN todo' : todo'[i] = SetStatus("INCOMPLETE") \/ todo'[i] = Send("err", "true")
      BY <2>1, PairEntries
    <3> QED
      BY <3>1, EffectFields
  <2>2. CASE /\ todo'[1] = Send("rollback", "true")
             /\ \A i \in DOMAIN todo' : i # 1 => todo'[i].op = "command" /\ todo'[i].command = "ROLLBACK"
    BY <2>2, EffectFields
  <2> QED
    BY <2>1, <2>2, RefusedTodo
<1>3. \A b : ~consulted(b)'
  BY <1>2 DEF consulted
<1>4. \A b \in Phases : ~commanded(b)'
  BY <1>2 DEF commanded, Phases
<1>5. \A b : waitingFor(b)' = waitingFor(b) /\ ahead(b)' = ahead(b)
  BY <1>1 DEF waitingFor, ahead
<1>6. \A b : requested(b)' = requested(b) /\ answered(b)' = answered(b) /\ delivered(b)' = delivered(b)
  BY <1>1 DEF requested, answered, delivered
<1> QED
  BY <1>3, <1>4, <1>5, <1>6 DEF pursued

LEMMA TurnsBackOrigin ==
    ASSUME proceeds, turnsBack'
    PROVE  turnsBack \/ \E c \in {"UPDATE", "ACTIVATE"} : refuses(c)
<1>1. CASE signals("rollback", "true")'
  <2>1. signals("rollback", "true") \/ newSignal("rollback", "true")
    BY <1>1, SignalKinds, PhaseNames
  <2>2. \A c \in Phases : After(c) # "rollback"
    BY PhaseNames
  <2>3. newSignal("rollback", "true") => \E c \in Phases \ {"DOWNLOAD"} : refuses(c)
    BY <2>2 DEF newSignal
  <2> QED
    BY <2>1, <2>3 DEF turnsBack, Phases
<1>2. ASSUME NEW d \in Domains, involves("ROLLBACK", d)'
      PROVE  turnsBack \/ \E c \in {"UPDATE", "ACTIVATE"} : refuses(c)
  <2>1. involves("ROLLBACK", d) \/ (targeted("ROLLBACK", d)' /\ ~targeted("ROLLBACK", d))
    BY <1>2, InvolvedOrigin DEF AllCommands
  <2>2. "ROLLBACK" \notin Commands
    BY DEF Commands
  <2> QED
    BY <2>1, <2>2, TargetOrigin DEF turnsBack, Phases
<1> QED
  BY <1>1, <1>2 DEF turnsBack

LEMMA BackStep ==
    ASSUME proceeds, OfferInv, BackInv
    PROVE  BackInv'
<1>1. /\ TypeOKActivity /\ [NextActivity]_allVars /\ activity' = activity /\ TurnInv /\ CarriedInv /\ pc # "idle"
      /\ "DOWNLOAD" \in Phases /\ "UPDATE" \in Phases /\ "ACTIVATE" \in Phases
  BY SteadyFacts, PhaseNames
<1>2. delivered("UPDATE") => pursued("UPDATE")
  BY DEF pursued
<1>3. ~(offered("UPDATE") /\ carried("ACTIVATE"))
  BY <1>1 DEF OfferInv, CarriedInv, reached, Behind, Some, from
<1>4. CASE barred
  <2>1. ~ahead("UPDATE")' /\ (ahead("ACTIVATE")' => ahead("ACTIVATE"))
    BY <1>1, <1>4, PhaseSteps DEF barred
  <2>2. ~waitingFor("UPDATE")'
    BY <1>1, <1>4, PhaseSteps DEF barred
  <2>3. ~waitingFor("ACTIVATE")'
    BY <1>1, <1>4, WaitingStep DEF barred, ahead, signalled
  <2>4. \A c \in {"UPDATE", "ACTIVATE"} : ~consulted(c)'
    BY <1>1, <1>4, PhaseSteps DEF barred
  <2>5. ahead("ACTIVATE") => ~signalled("ACTIVATE")'
    BY <1>1, <1>2, <1>4, SignalledStep DEF barred
  <2>6. ahead("ACTIVATE") => ~pursued("UPDATE")'
    BY <1>1, <1>4, PhaseSteps DEF barred
  <2> QED
    BY <2>1, <2>2, <2>3, <2>4, <2>5, <2>6 DEF barred, BackInv
<1>5. CASE refuses("UPDATE")
  <2>1. consulted("UPDATE") /\ ~ahead("UPDATE") /\ ~waitingFor("UPDATE") /\ ~pursued("UPDATE")
    BY <1>1, <1>5 DEF refuses, TurnInv
  <2>2. ~waitingFor("ACTIVATE") /\ ~signalled("ACTIVATE")
    BY <1>3, <2>1 DEF offered, carried
  <2>3. ~signalled("ACTIVATE")'
    BY <1>1, <1>2, <2>1, <2>2, SignalledStep
  <2> QED
    BY <1>1, <1>5, <2>1, <2>2, <2>3, RefusedNow DEF barred, BackInv
<1>6. CASE refuses("ACTIVATE")
  <2>1. consulted("ACTIVATE") /\ ~ahead("ACTIVATE") /\ ~waitingFor("ACTIVATE")
    BY <1>1, <1>6 DEF refuses, TurnInv
  <2>2. ~waitingFor("UPDATE")
    BY <1>3, <2>1 DEF offered, carried
  <2>3. ~ahead("UPDATE")
    BY <2>1 DEF ahead
  <2> QED
    BY <1>1, <1>6, <2>1, <2>2, <2>3, RefusedNow DEF barred, BackInv
<1> QED
  BY <1>4, <1>5, <1>6, TurnsBackOrigin DEF BackInv

-----------------------------------------------------------------------------
(* Before the first command *)

\* nothing is asked of d yet but to identify its actions
unstarted == {"IDENTIFYING", "IDENTIFICATION_FAILED", "IDENTIFIED"} \cup Finished
aside(d) == \A c \in AllCommands : ~involves(c, d)
unbegun(d) == aside(d) /\ (d \in DOMAIN domains => domains[d] \in unstarted)

\* ... until DOWNLOAD is commanded
FirstInv == waitingFor("DOWNLOAD") \/ consulted("DOWNLOAD") => \A d \in Domains : unbegun(d)

LEMMA UnstartedStatuses ==
    /\ unstarted \cap takes("ROLLBACK") = {} /\ unstarted \cap takes("CLEANUP") = {}
    /\ \A c \in Phases : c # "DOWNLOAD" => unstarted \cap takes(c) = {}
    /\ \A s \in DomainStatus : s \notin begun("DOWNLOAD") => s \in unstarted
    /\ {"IDENTIFIED", "IDENTIFICATION_FAILED", "CLEANUP_SUCCESS"} \subseteq unstarted
    /\ AllCommands = Phases \cup {"ROLLBACK", "CLEANUP"}
  BY DEF unstarted, takes, from, Phases, begun, beyond, Finished, AllCommands, Commands

LEMMA Unbegun ==
    ASSUME proceeds, LevelInv, ~reached("DOWNLOAD")
    PROVE  \A d \in Domains : unbegun(d)
<1> SUFFICES ASSUME NEW d \in Domains
             PROVE  unbegun(d)
  OBVIOUS
<1>1. \A c \in Phases : ~involves(c, d)
  BY InvolvedReached DEF involves
<1>2. ~involves("ROLLBACK", d) /\ ~involves("CLEANUP", d)
  BY InvolvedReached, PhaseNames DEF LevelInv
<1>3. aside(d)
  BY <1>1, <1>2, UnstartedStatuses DEF aside
<1>4. ASSUME d \in DOMAIN domains
      PROVE  domains[d] \in unstarted
  <2>1. domains[d] \in DomainStatus
    BY <1>4, SteadyFacts DEF TypeOK
  <2>2. domains[d] \notin begun("DOWNLOAD")
    BY <1>4, PhaseNames DEF LevelInv, Some
  <2> QED
    BY <2>1, <2>2, UnstartedStatuses
<1> QED
  BY <1>3, <1>4 DEF unbegun

\* what has been targeted is involved
LEMMA TargetsPursued ==
    ASSUME NEW c \in Phases, NEW d, targeted(c, d)'
    PROVE  pursued(c)'
  BY DEF targeted, pursued, commanded

LEMMA UnbegunKept ==
    ASSUME proceeds, \A d \in Domains : unbegun(d), waitingFor("DOWNLOAD")' \/ consulted("DOWNLOAD")'
    PROVE  \A d \in Domains : unbegun(d)'
<1>1. ~pursued("DOWNLOAD")'
  BY TurnStep, PhaseNames DEF TurnInv
<1> SUFFICES ASSUME NEW d \in Domains
             PROVE  unbegun(d)'
  OBVIOUS
<1>2. ASSUME NEW c \in AllCommands, targeted(c, d)', ~targeted(c, d)
      PROVE  FALSE
  <2>1. c # "DOWNLOAD"
    BY <1>1, <1>2, TargetsPursued, PhaseNames
  <2>2. ~(d \in DOMAIN domains /\ domains[d] \in takes(c))
    BY <2>1, UnstartedStatuses DEF unbegun
  <2>3. ASSUME NEW b \in Failable, fails(b, d)
        PROVE  ~responds(b, d)
    BY FailureStatuses DEF unbegun, aside, involves
  <2>4. ASSUME NEW b \in Failable, fails(b, d)
        PROVE  responds(b, d)
    BY <2>4, FailureStatuses DEF fails, responds
  <2> QED
    BY <1>2, <2>2, <2>3, <2>4, TargetOrigin
<1>3. aside(d)'
  BY <1>2, InvolvedOrigin DEF aside, unbegun
<1>4. ASSUME d \in DOMAIN domains'
      PROVE  domains'[d] \in unstarted
  <2>1. CASE UNCHANGED domains
    BY <1>4, <2>1 DEF unbegun
  <2>2. ASSUME NEW e \in Domains, handled(e), changes(e)
        PROVE  domains'[d] \in unstarted
    <3>1. d \in DOMAIN domains /\ (e # d => domains'[d] = domains[d])
      BY <1>4, <2>2, ChangeFacts
    <3>2. CASE e = d
      <4>1. ~responds("ROLLBACK", d) /\ ~responds("CLEANUP", d)
            /\ \A c \in Phases : ~responds(c, d)
        BY UnstartedStatuses DEF unbegun, aside, involves
      <4>2. domains'[d] \in {"IDENTIFIED", "IDENTIFICATION_FAILED", "CLEANUP_SUCCESS"}
        BY <2>2, <3>2, <4>1, ChangeFacts DEF rollsBack, finishes, Failable
      <4> QED
        BY <4>2, UnstartedStatuses
    <3> QED
      BY <3>1, <3>2 DEF unbegun
  <2> QED
    BY <2>1, <2>2, DomainsChange
<1> QED
  BY <1>3, <1>4 DEF unbegun

LEMMA FirstStep ==
    ASSUME proceeds, LevelInv, FirstInv
    PROVE  FirstInv'
<1> SUFFICES ASSUME waitingFor("DOWNLOAD")' \/ consulted("DOWNLOAD")'
             PROVE  \A d \in Domains : unbegun(d)'
  BY DEF FirstInv
<1>1. waitingFor("DOWNLOAD") \/ consulted("DOWNLOAD") \/ ahead("DOWNLOAD")
  BY PhaseSteps, PhaseNames
<1>2. ahead("DOWNLOAD") => ~reached("DOWNLOAD")
  BY DEF ahead, reached
<1>3. \A d \in Domains : unbegun(d)
  BY <1>1, <1>2, Unbegun DEF FirstInv
<1> QED
  BY <1>3, UnbegunKept

-----------------------------------------------------------------------------
(* The end of an activity *)

\* the operation tells Apply to end: with an error, as done, or because there is nothing to do
concluding == signals("err", "true") \/ signals("done", "true") \/ signals("DOWNLOAD", "false")
\* and Apply has ended
over == pc \in {"return", "report", "dispose"}

\* the identification of the actions is over
idOver ==
    \A d \in DOMAIN domains : ~unissued("identify", d) /\ ~asks("identify", d) /\ ~responds("identify", d)

\* From then on a domain has finished or was never asked for anything, no phase is announced, the
\* outcome of the identification stands, and the lock holder does not go on.
spent(d) ==
    \/ domains[d] \in Finished
    \/ domains[d] \in {"IDENTIFIED", "IDENTIFICATION_FAILED"} /\ aside(d)
decided ==
    \/ Some(domains, {"IDENTIFICATION_FAILED"})
    \/ reached("DOWNLOAD")
    \/ allFinished /\ (idOver \/ ("phaseTimeout" \notin Faults /\ (toComplete \/ settled)))
windsUp == \A i \in DOMAIN todo : todo[i] # SetStatus("RUNNING") /\ todo[i].op \notin {"command", "consent"}
Inert == (\A d \in DOMAIN domains : spent(d)) /\ (\A c \in Phases : ~offered(c)) /\ decided /\ windsUp

\* how the status of the operation changes
LEMMA StatusKinds ==
    ASSUME proceeds
    PROVE  \/ status' = status
           \/ /\ UpdateStatus /\ 1 \in DOMAIN todo /\ todo[1] = SetStatus(status') /\ todo' = Tail(todo)
              /\ status' \in FinalStatus \cup {"RUNNING"}
           \/ /\ applies /\ UNCHANGED todo /\ status' \in {"IDENTIFICATION_FAILED", "INCOMPLETE"}
              /\ "phaseTimeout" \in Faults \/ (terminated /\ status' = "INCOMPLETE")
<1>1. TypeOK
  BY SteadyFacts
<1>2. CASE rests \/ \E d \in Domains : handled(d)
  BY <1>2 DEF rests, handled
<1>3. CASE applies
  BY <1>3 DEF applies, ApplyWork, Identify, PhaseTimeout, Wait, ErrorSignalled, RollbackSignalled, Signalled,
              ContextDone, ReturnReboot, ReportFinal, applyUnchanged, opVars
<1>4. CASE questionEnds \/ \E h \in handlers : HandlerStep(h) /\ HandleCommandSignal(h)
  BY <1>4 DEF questionEnds, OwnerConsented, OwnerConsentFailed, HandleCommandSignal, handlerUnchanged
<1>5. CASE holderActs
  <2>1. CASE UpdateStatus
    <3>1. todo # <<>> /\ Head(todo).op = "setStatus" /\ status' = Head(todo).status /\ todo' = Tail(todo)
      BY <2>1 DEF UpdateStatus
    <3>2. 1 \in DOMAIN todo /\ todo[1] = Head(todo) /\ Head(todo) = SetStatus(Head(todo).status)
          /\ Head(todo).status \in FinalStatus \cup {"RUNNING"}
      BY <1>1, <3>1, FirstTodo, HeadFields
    <3> QED
      BY <2>1, <3>1, <3>2
  <2> QED
    BY <1>5, <2>1 DEF holderActs, NotifyFeedback, SendSignal
<1>6. CASE \E d \in Domains : CommandStep(d) /\ CommandDomain(d)
  BY <1>6 DEF CommandDomain
<1> QED
  BY <1>2, <1>3, <1>4, <1>5, <1>6, StepsOfActivity

\* where the statuses to be set come from
sets(s) == \E i \in DOMAIN todo : todo[i] = SetStatus(s)

LEMMA SetKinds ==
    ASSUME proceeds, NEW s, NEW i \in DOMAIN todo', todo'[i] = SetStatus(s)
    PROVE  \/ UNCHANGED todo
           \/ todo' = Tail(todo) /\ i \in Nat \ {0} /\ i + 1 \in DOMAIN todo /\ todo[i + 1] = SetStatus(s)
           \/ s = "RUNNING" /\ \E d \in Domains : offersDownload(d)
           \/ s = "COMPLETED" /\ \E d \in Domains : findsNothing(d)
           \/ s = "IDENTIFICATION_FAILED" /\ \E d \in Domains : givesUp(d)
           \/ s = (IF intact' THEN "COMPLETED" ELSE "INCOMPLETE") /\ \E d \in Domains : allDone(d)
           \/ s = "INCOMPLETE" /\ refuses("DOWNLOAD")
<1>1. todo'[i].op = "setStatus" /\ todo'[i].status = s /\ todo' # <<>>
  BY EffectFields
<1>2. CASE holderActs \/ \E d \in Domains : CommandDomain(d)
  BY <1>1, <1>2, HolderTodo
<1>3. ASSUME NEW c \in Commands, issuesNow(c) \/ asksOwner(c)
      PROVE  FALSE
  <2>1. ASSUME NEW a, todo' = ExecuteCommand(c, a)
        PROVE  FALSE
    BY <1>1, <2>1, IssuedTargets DEF AllCommands
  <2>2. ASSUME NEW a, todo' = <<AwaitConsent(c, a)>>
        PROVE  FALSE
    <3>1. todo'[i] = AwaitConsent(c, a)
      BY <2>2, SingletonEntry
    <3> QED
      BY <1>1, <3>1, EffectFields
  <2> QED
    BY <1>3, <2>1, <2>2 DEF issuesNow, asksOwner
<1>4. ASSUME NEW c \in Phases, refuses(c)
      PROVE  s = "INCOMPLETE" /\ c = "DOWNLOAD"
  <2>1. CASE c = "DOWNLOAD" /\ todo' = <<SetStatus("INCOMPLETE"), Send("err", "true")>>
    <3>1. todo'[i] = SetStatus("INCOMPLETE") \/ todo'[i] = Send("err", "true")
      BY <2>1, PairEntries
    <3> QED
      BY <1>1, <2>1, <3>1, EffectFields
  <2>2. CASE todo'[1] = Send("rollback", "true") /\ \A j \in DOMAIN todo' : j # 1 => todo'[j].op = "command"
    BY <1>1, <2>2, EffectFields
  <2> QED
    BY <1>4, <2>1, <2>2, RefusedTodo
<1>5. ASSUME NEW d \in Domains, handled(d), changes(d)
      PROVE  \/ s = "RUNNING" /\ offersDownload(d)
             \/ s = "COMPLETED" /\ findsNothing(d)
             \/ s = "IDENTIFICATION_FAILED" /\ givesUp(d)
             \/ s = (IF intact' THEN "COMPLETED" ELSE "INCOMPLETE") /\ allDone(d)
  <2>1. ASSUME NEW e, todo' = <<e>>, e.op # "setStatus"
        PROVE  FALSE
    BY <1>1, <2>1, SingletonEntry
  <2>2. ASSUME NEW e, NEW f, todo' = <<e, f>>, f.op # "setStatus"
        PROVE  e = SetStatus(s)
    BY <1>1, <2>2, PairEntries
  <2>3. CASE offersDownload(d)
    <3>1. s = "RUNNING"
      BY <1>1, <2>3, EffectFields DEF offersDownload, running
    <3> QED
      BY <2>3, <3>1
  <2>4. CASE findsNothing(d)
    <3>1. s = "COMPLETED"
      BY <1>1, <2>4, EffectFields DEF findsNothing, nothingToDo
    <3> QED
      BY <2>4, <3>1
  <2>5. CASE givesUp(d)
    <3>1. SetStatus("IDENTIFICATION_FAILED") = SetStatus(s)
      BY <2>2, <2>5, EffectFields DEF givesUp, IdentificationFailed
    <3> QED
      BY <2>5, <3>1, EffectFields
  <2>6. \A c \in Phases : ~offersNext(c, d)
    <3>1. ASSUME NEW c \in Phases, offersNext(c, d)
          PROVE  FALSE
      <4>1. Send(After(c), "true") = SetStatus(s)
        BY <2>2, <3>1, EffectFields DEF offersNext
      <4> QED
        BY <4>1, EffectFields
    <3> QED
      BY <3>1
  <2>7. ~hasRolledBack(d)
    <3>1. hasRolledBack(d) => Send("CLEANUP", "true") = SetStatus(s)
      BY <2>2, EffectFields DEF hasRolledBack
    <3> QED
      BY <3>1, EffectFields
  <2>8. CASE allDone(d)
    <3>1. SetStatus(IF intact' THEN "COMPLETED" ELSE "INCOMPLETE") = SetStatus(s)
      BY <2>2, <2>8, EffectFields DEF allDone
    <3> QED
      BY <2>8, <3>1, EffectFields
  <2>9. \A x, y, a : todo' # <<Command(x, y, a)>>
    BY <2>1, EffectFields
  <2> QED
    BY <1>1, <1>5, <2>3, <2>4, <2>5, <2>6, <2>7, <2>8, <2>9, ChangedTodo
<1>6. ASSUME NEW d \in Domains, progresses(d)
      PROVE  FALSE
  <2>1. todo'[i] = Notify("RUNNING")
    BY <1>6, SingletonEntry DEF progresses
  <2> QED
    BY <1>1, <2>1, EffectFields
<1> QED
  BY <1>2, <1>3, <1>4, <1>5, <1>6, TodoKinds, Zenon

LEMMA FailingOrigin ==
    ASSUME proceeds, failing'
    PROVE  failing \/ \E d \in Domains : givesUp(d)
<1>1. TypeOK /\ TypeOK' /\ BarrierInv
  BY SteadyFacts
<1>2. 1 \in DOMAIN todo' /\ todo'[1] = SetStatus("IDENTIFICATION_FAILED")
  BY <1>1, HeadOfNext DEF failing
<1>3. todo # <<>> /\ UNCHANGED todo => failing
  BY DEF failing
<1>4. todo' # <<>>
  BY DEF failing
<1>5. ~(1 + 1 \in DOMAIN todo /\ todo[1 + 1] = SetStatus("IDENTIFICATION_FAILED"))
  <2>1. 1 + 1 # 1
    OBVIOUS
  <2> QED
    BY <1>1, <2>1, Zenon DEF BarrierInv, PendingInv
<1> QED
  BY <1>2, <1>3, <1>4, <1>5, SetKinds

LEMMA NoCleanup ==
    ASSUME NEW a, ~Some(domains, takes("CLEANUP"))
    PROVE  ExecuteCommand("CLEANUP", a) = <<>>
<1>1. {d \in DOMAIN domains : domains[d] \in {"ACTIVATION_SUCCESS", "ROLLBACK_SUCCESS"}} = {}
  BY DEF Some, takes
<1> QED
  BY <1>1 DEF ExecuteCommand, Execute

\* a report that is handled then only repeats what failed
LEMMA InertReport ==
    ASSUME proceeds, LevelInv, Inert, NEW d \in Domains, handled(d), changes(d)
    PROVE  /\ identifying /\ givesUp(d)
           /\ domains'[d] \in {"IDENTIFIED", "IDENTIFICATION_FAILED", "CLEANUP_SUCCESS"}
           /\ ~offersDownload(d) /\ \A c \in Phases : ~offersNext(c, d)
<1>1. d \in DOMAIN domains /\ spent(d) /\ todo = <<>>
  BY ChangeFacts DEF Inert, handled
<1>2. ASSUME NEW c \in AllCommands, domains[d] \notin Finished, responds(c, d)
      PROVE  FALSE
  BY <1>1, <1>2 DEF spent, aside, involves
<1>3. ASSUME NEW c \in Phases, domains[d] \in from(c), responds(c, d)
      PROVE  FALSE
  BY <1>2, <1>3, BegunStatuses, PhaseNames DEF AllCommands
<1>4. ~rollsBack(d) /\ ~finishes(d)
  <2>1. "ROLLBACK" \in AllCommands /\ "CLEANUP" \in AllCommands
    BY DEF AllCommands, Commands
  <2>2. takes("ROLLBACK") \cap Finished = {}
    BY FailureStatuses
  <2> QED
    BY <1>2, <2>1, <2>2 DEF rollsBack, finishes
<1>5. ASSUME NEW c \in Failable, fails(c, d), responds(c, d)
      PROVE  FALSE
  BY <1>2, <1>5, FailureStatuses DEF fails
<1>6. /\ identifies(d) /\ domains'[d] \in {"IDENTIFIED", "IDENTIFICATION_FAILED", "CLEANUP_SUCCESS"}
      /\ \A c \in Phases : ~succeeds(c, d)
  <2>1. ASSUME NEW c \in Phases, succeeds(c, d)
        PROVE  FALSE
    <3>1. responds(c, d)
      BY <2>1, StatusSets DEF succeeds, responds
    <3> QED
      BY <1>3, <2>1, <3>1 DEF succeeds
  <2> QED
    BY <1>4, <1>5, <2>1, ChangeFacts
<1>7. domains[d] \in Finished /\ identifying /\ responds("identify", d)
  BY <1>1, <1>6 DEF spent, identifies
<1>8. Some(domains, {"IDENTIFICATION_FAILED"})
  <2>1. ~reached("DOWNLOAD") /\ ~settled
    BY <1>7 DEF reached, settled
  <2>2. ~toComplete
    BY <1>1 DEF toComplete
  <2>3. ~idOver
    BY <1>1, <1>7 DEF idOver
  <2> QED
    BY <2>1, <2>2, <2>3 DEF Inert, decided
<1>9. Some(domains', {"IDENTIFICATION_FAILED"})
  <2>1. PICK e \in DOMAIN domains : domains[e] = "IDENTIFICATION_FAILED"
    BY <1>8 DEF Some
  <2>2. e # d
    BY <1>7, <2>1 DEF Finished
  <2> QED
    BY <2>1, <2>2, ChangeFacts DEF Some
<1>10. ~Some(domains', {"IDENTIFYING"})
  <2>1. ASSUME NEW e \in DOMAIN domains', domains'[e] = "IDENTIFYING"
        PROVE  FALSE
    <3>1. e # d /\ e \in DOMAIN domains /\ domains[e] = "IDENTIFYING"
      BY <1>6, <2>1, ChangeFacts
    <3> QED
      BY <3>1 DEF Inert, spent, Finished
  <2> QED
    BY <2>1 DEF Some
<1>11. todo' = IdentificationFailed
  BY <1>6, <1>9, <1>10 DEF identifies
<1>12. givesUp(d)
  <2>1. todo' # <<>>
    BY <1>11 DEF IdentificationFailed
  <2> QED
    BY <1>6, <1>9, <1>10, <1>11, <2>1 DEF givesUp, allIdentified
<1> QED
  BY <1>6, <1>7, <1>9, <1>12 DEF offersDownload, offersNext

LEMMA InertTodo ==
    ASSUME proceeds, LevelInv, Inert
    PROVE  windsUp'
<1> SUFFICES ASSUME NEW i \in DOMAIN todo'
             PROVE  todo'[i] # SetStatus("RUNNING") /\ todo'[i].op \notin {"command", "consent"}
  BY DEF windsUp
<1>1. CASE UNCHANGED todo
  BY <1>1 DEF Inert, windsUp
<1>2. CASE holderActs \/ \E d \in Domains : CommandDomain(d)
  BY <1>2, HolderTodo DEF Inert, windsUp
<1>3. ASSUME NEW c \in Commands, issuesNow(c) \/ asksOwner(c)
      PROVE  FALSE
  <2>1. c \notin Phases
    BY <1>3 DEF Inert, offered, issuesNow, asksOwner
  <2>2. c = "CLEANUP" /\ c \notin OwnerConsentCommands
    BY <2>1, ConstantsAssumption DEF Commands, Phases
  <2>3. ~Some(domains, takes("CLEANUP"))
    BY DEF Inert, spent, takes, Some, Finished
  <2>4. PICK a : todo' = ExecuteCommand("CLEANUP", a)
    BY <1>3, <2>2 DEF issuesNow, asksOwner
  <2> QED
    BY <2>3, <2>4, NoCleanup
<1>4. ASSUME NEW c \in Phases, refuses(c)
      PROVE  FALSE
  BY <1>4 DEF Inert, offered, refuses
<1>5. ASSUME NEW d \in Domains, handled(d), changes(d)
      PROVE  todo'[i] # SetStatus("RUNNING") /\ todo'[i].op \notin {"command", "consent"}
  <2>1. todo' = <<SetStatus("IDENTIFICATION_FAILED"), Send("err", "true")>>
    BY <1>5, InertReport DEF givesUp, IdentificationFailed
  <2>2. todo'[i] = SetStatus("IDENTIFICATION_FAILED") \/ todo'[i] = Send("err", "true")
    BY <2>1, PairEntries
  <2> QED
    BY <2>2, EffectFields
<1>6. ASSUME NEW d \in Domains, progresses(d)
      PROVE  todo'[i] # SetStatus("RUNNING") /\ todo'[i].op \notin {"command", "consent"}
  <2>1. todo'[i] = Notify("RUNNING")
    BY <1>6, SingletonEntry DEF progresses
  <2> QED
    BY <2>1, EffectFields
<1> QED
  BY <1>1, <1>2, <1>3, <1>4, <1>5, <1>6, TodoKinds, Zenon

LEMMA AsideKept ==
    ASSUME proceeds, windsUp', NEW d \in Domains, aside(d)
    PROVE  aside(d)'
<1>1. \A c : ~targeted(c, d)'
  BY DEF windsUp, targeted
<1> QED
  BY <1>1, InvolvedOrigin DEF aside

LEMMA FinishInvNext == proceeds => FinishInv'
<1> SUFFICES ASSUME proceeds
             PROVE  FinishInv'
  OBVIOUS
<1>1. IdleInv' /\ steady /\ TypeOKActivity' /\ [NextActivity]_allVars /\ activity' = activity
  BY DEF proceeds, IdleInv
<1> QED
  BY <1>1, FinishStep

LEMMA IdOverKept ==
    ASSUME proceeds, idOver, DOMAIN domains' = DOMAIN domains
    PROVE  idOver'
<1> SUFFICES ASSUME NEW d \in DOMAIN domains
             PROVE  ~unissued("identify", d)' /\ ~asks("identify", d)' /\ ~responds("identify", d)'
  BY DEF idOver
<1>1. d \in Domains /\ ~unissued("identify", d) /\ ~asks("identify", d) /\ ~responds("identify", d)
  BY SteadyFacts DEF idOver, TypeOK
<1>2. "identify" \in Steps
  BY DEF Steps
<1> QED
  BY <1>1, <1>2, UnissuedStep, AsksIssued, RespondsStep

LEMMA InertKept ==
    ASSUME proceeds, LevelInv, Inert
    PROVE  Inert'
<1>1. windsUp'
  BY InertTodo
<1>2. \A c \in Phases : ~offered(c)'
  <2>1. ASSUME NEW d \in Domains, offersDownload(d)
        PROVE  FALSE
    BY <2>1, InertReport DEF offersDownload, allIdentified
  <2>2. ASSUME NEW c \in Phases, NEW d \in Domains, offersNext(c, d)
        PROVE  FALSE
    BY <2>2, InertReport DEF offersNext
  <2> QED
    BY <2>1, <2>2, OfferedOrigin DEF Inert
<1>3. ASSUME NEW d \in DOMAIN domains'
      PROVE  spent(d)'
  <2>1. d \in Domains
    BY SteadyFacts DEF TypeOK
  <2>2. CASE d \in DOMAIN domains /\ domains'[d] = domains[d]
    <3>1. spent(d)
      BY <2>2 DEF Inert
    <3> QED
      BY <1>1, <2>1, <2>2, <3>1, AsideKept DEF spent
  <2>3. CASE handled(d) /\ changes(d)
    <3>1. identifying /\ domains'[d] \in {"IDENTIFIED", "IDENTIFICATION_FAILED", "CLEANUP_SUCCESS"}
      BY <2>1, <2>3, InertReport
    <3>2. aside(d)
      BY <2>1, <3>1, InvolvedReached, Unbegun DEF unbegun
    <3> QED
      BY <1>1, <2>1, <3>1, <3>2, AsideKept DEF spent, Finished
  <2> QED
    BY <2>2, <2>3, DomainsChange, ChangeFacts
<1>4. decided'
  <2>1. ASSUME NEW d \in Domains, handled(d), changes(d)
        PROVE  decided'
    BY <2>1, InertReport DEF givesUp, decided
  <2>2. CASE UNCHANGED domains
    <3>1. CASE Some(domains, {"IDENTIFICATION_FAILED"})
      BY <2>2, <3>1 DEF decided
    <3>2. CASE reached("DOWNLOAD")
      BY <3>2, InvolvedReached DEF decided
    <3>3. CASE allFinished /\ idOver
      <4>1. allFinished'
        BY <2>2, <3>3 DEF allFinished
      <4> QED
        BY <2>2, <3>3, <4>1, IdOverKept DEF decided
    <3>4. CASE allFinished /\ "phaseTimeout" \notin Faults /\ (toComplete \/ settled)
      <4>1. allFinished'
        BY <2>2, <3>4 DEF allFinished
      <4>2. FinishInv' /\ TypeOKActivity /\ LastInv /\ [NextActivity]_allVars /\ activity' = activity /\ pc' # "idle"
        BY SteadyFacts, FinishInvNext
      <4>3. CASE toComplete
        <5>1. toComplete' \/ status' = "COMPLETED"
          BY <4>2, <4>3, ToCompleteKept
        <5>2. status' = "COMPLETED" => settled'
          BY <4>2 DEF FinishInv, settled, identifying, IdentificationStatus
        <5> QED
          BY <3>4, <4>1, <5>1, <5>2 DEF decided
      <4>4. CASE settled
        <5>1. ~failing' \/ decided'
          BY <2>1, <4>4, FailingOrigin DEF settled, givesUp, allIdentified
        <5>2. ~identifying'
          <6>1. CASE status' = status
            BY <4>4, <6>1 DEF settled, identifying
          <6>2. CASE UpdateStatus /\ 1 \in DOMAIN todo /\ todo[1] = SetStatus(status')
                     /\ status' \in FinalStatus \cup {"RUNNING"}
            <7>1. status' # "IDENTIFICATION_FAILED"
              BY <4>4, <6>2, SteadyFacts, FirstTodo DEF settled, failing, UpdateStatus
            <7> QED
              BY <6>2, <7>1 DEF identifying, IdentificationStatus, FinalStatus
          <6>3. CASE status' = "INCOMPLETE"
            BY <6>3 DEF identifying, IdentificationStatus
          <6> QED
            BY <3>4, <6>1, <6>2, <6>3, StatusKinds
        <5> QED
          BY <3>4, <4>1, <5>1, <5>2 DEF decided, settled
      <4> QED
        BY <3>4, <4>3, <4>4
    <3> QED
      BY <3>1, <3>2, <3>3, <3>4 DEF Inert, decided
  <2> QED
    BY <2>1, <2>2, DomainsChange
<1> QED
  BY <1>1, <1>2, <1>3, <1>4 DEF Inert

-----------------------------------------------------------------------------
(* Nothing but what agents and owner say ends an activity *)

\* No timer of apply fires and the process goes on, and the owner is not asked about ACTIVATE:
\* each of these lets an activity end while agents are still at work.
Unhurried == "phaseTimeout" \notin Faults /\ "terminate" \notin Faults /\ "ACTIVATE" \notin OwnerConsentCommands

\* only for DOWNLOAD may there be nothing to do
WorthInv == \A x \in Channels \ {"consent"} : signals(x, "false") => x = "DOWNLOAD"

\* the owner is asked about UPDATE, and may refuse, only while apply waits for ACTIVATE, and once
LateInv ==
    /\ waitingFor("UPDATE") \/ consulted("UPDATE") \/ signals("rollback", "true") => pc = "ACTIVATE" \/ over
    /\ ~consulted("ACTIVATE")
    /\ chan["rollback"] = "true" => ~sends("rollback", "true")
    /\ \A i \in DOMAIN todo : todo[i] = Send("rollback", "true") => i = 1

LEMMA WorthStep ==
    ASSUME proceeds, WorthInv
    PROVE  WorthInv'
<1> SUFFICES ASSUME NEW x \in Channels \ {"consent"}, signals(x, "false")'
             PROVE  x = "DOWNLOAD"
  BY DEF WorthInv
<1>1. CASE signals(x, "false")
  BY <1>1 DEF WorthInv
<1>2. CASE newSignal(x, "false")
  <2>1. "false" # "true"
    OBVIOUS
  <2> QED
    BY <1>2, <2>1, Zenon DEF newSignal
<1> QED
  BY <1>1, <1>2, SignalKinds

LEMMA NotTerminated ==
    ASSUME "terminate" \notin Faults, ~terminated, [Next]_vars
    PROVE  ~terminated'
<1>1. CASE UNCHANGED vars
  BY <1>1 DEF vars
<1>2. CASE \E ds \in SUBSET Domains : SetupUpdateOperation(ds)
  <2>1. PICK ds \in SUBSET Domains : SetupUpdateOperation(ds)
    BY <1>2
  <2> QED
    BY <2>1, Zenon DEF SetupUpdateOperation
<1>3. CASE Apply
  BY <1>3 DEF Apply, Identify, Wait, ErrorSignalled, RollbackSignalled, Signalled, ContextDone, ReturnReboot,
              ReportFinal, DisposeUpdateOperation, applyUnchanged
<1>4. CASE PhaseTimeout
  BY <1>4 DEF PhaseTimeout, applyUnchanged
<1>5. CASE HoldLock
  BY <1>5 DEF HoldLock, OwnerConsented, NotifyFeedback, UpdateStatus, SendSignal, handlerUnchanged, holderUnchanged
<1>6. CASE OwnerConsentFailed
  BY <1>6 DEF OwnerConsentFailed, handlerUnchanged
<1>7. CASE Terminate
  BY <1>7 DEF Terminate
<1>8. CASE \E h \in handlers : HandleCommandSignal(h)
  BY <1>8 DEF HandleCommandSignal, handlerUnchanged
<1>9. CASE \E approved \in BOOLEAN : HandleOwnerConsentFeedback(approved)
  BY <1>9 DEF HandleOwnerConsentFeedback
<1>10. ASSUME NEW d \in Domains, SendDesiredState(d) \/ CommandDomain(d) \/ CommandFailed(d)
       PROVE  ~terminated'
  BY <1>10 DEF SendDesiredState, CommandDomain, CommandFailed, holderUnchanged
<1>11. ASSUME NEW d \in Domains, SendDesiredStateFailed(d)
       PROVE  ~terminated'
  BY <1>11 DEF SendDesiredStateFailed, HandleDesiredStateFeedbackEvent
<1>12. ASSUME NEW d \in Domains, NEW s \in FeedbackStatus, NEW hasActions \in BOOLEAN, AgentFeedback(d, s, hasActions)
       PROVE  ~terminated'
  BY <1>12 DEF AgentFeedback, HandleDesiredStateFeedbackEvent
<1> QED
  BY <1>1, <1>2, <1>3, <1>4, <1>5, <1>6, <1>7, <1>8, <1>9, <1>10, <1>11, <1>12 DEF Next

\* what Apply does then
LEMMA ApplyKinds ==
    ASSUME proceeds, applies, Unhurried, ~terminated
    PROVE  /\ UNCHANGED <<status, todo>>
           /\ \/ pc = "identify" /\ pc' = "DOWNLOAD" /\ UNCHANGED <<chan, handlers>>
              \/ ErrorSignalled
              \/ RollbackSignalled
              \/ Signalled
              \/ pc = "return" /\ pc' = "report" /\ UNCHANGED <<chan, handlers>>
              \/ pc = "report" /\ pc' = "dispose" /\ UNCHANGED <<chan, handlers>>
<1>1. CASE Identify
  BY <1>1 DEF Identify, opVars
<1>2. CASE ErrorSignalled \/ RollbackSignalled \/ Signalled
  BY <1>2 DEF ErrorSignalled, RollbackSignalled, Signalled, applyUnchanged
<1>3. CASE ReturnReboot \/ ReportFinal
  BY <1>3 DEF ReturnReboot, ReportFinal, opVars
<1> QED
  BY <1>1, <1>2, <1>3 DEF applies, ApplyWork, Wait, PhaseTimeout, ContextDone, Unhurried

\* only Apply moves on
LEMMA ApplyMoves ==
    ASSUME proceeds
    PROVE  applies \/ pc' = pc
<1>1. CASE rests
  BY <1>1 DEF rests
<1>2. CASE \E h \in handlers : HandlerStep(h) /\ HandleCommandSignal(h)
  BY <1>2 DEF HandleCommandSignal, handlerUnchanged
<1>3. CASE questionEnds
  BY <1>3 DEF questionEnds, OwnerConsented, OwnerConsentFailed, handlerUnchanged
<1>4. CASE holderActs
  BY <1>4 DEF holderActs, NotifyFeedback, UpdateStatus, SendSignal, holderUnchanged
<1>5. CASE \E d \in Domains : CommandStep(d) /\ CommandDomain(d)
  BY <1>5 DEF CommandDomain, holderUnchanged
<1>6. CASE \E d \in Domains : handled(d) /\ (changes(d) \/ progresses(d))
  BY <1>6 DEF handled
<1> QED
  BY <1>1, <1>2, <1>3, <1>4, <1>5, <1>6, StepsOfActivity

\* Apply has been told to end
conveyed == chan["err"] = "true" \/ chan["done"] = "true" \/ chan["DOWNLOAD"] = "false"

LEMMA OverStep ==
    ASSUME proceeds, Unhurried, ~terminated, WorthInv, LateInv
    PROVE  /\ over => over'
           /\ over' => over \/ conveyed
<1>1. TypeOK
  BY SteadyFacts
<1>2. CASE pc' = pc
  BY <1>2 DEF over
<1>3. CASE applies
  <2>1. CASE pc = "identify" /\ pc' = "DOWNLOAD"
    BY <2>1 DEF over
  <2>2. CASE ErrorSignalled
    BY <2>2 DEF ErrorSignalled, conveyed, over, Waits, Commands
  <2>3. CASE RollbackSignalled
    <3>1. pc \in Waits /\ signals("rollback", "true")
      BY <2>3 DEF RollbackSignalled, signals
    <3>2. pc \notin {"return", "report", "dispose"}
      BY <3>1 DEF Waits, Commands
    <3>3. pc = "ACTIVATE"
      BY <3>1, <3>2 DEF LateInv, over
    <3> QED
      BY <2>3, <3>2, <3>3 DEF RollbackSignalled, over
  <2>4. CASE Signalled
    <3>1. pc \in Waits /\ pc \in Channels \ {"consent"} /\ chan[pc] \in {"true", "false"}
          /\ pc' = IF chan[pc] = "true" THEN After(pc) ELSE "return"
      BY <2>4 DEF Signalled, Waits, Channels, Commands
    <3>2. CASE chan[pc] = "false"
      <4>1. pc = "DOWNLOAD"
        BY <3>1, <3>2 DEF WorthInv, signals
      <4> QED
        BY <3>2, <4>1 DEF conveyed, over
    <3>3. CASE chan[pc] = "true"
      BY <3>1, <3>3 DEF After, over, conveyed, Waits, Commands
    <3> QED
      BY <3>1, <3>2, <3>3
  <2>5. CASE pc \in {"return", "report"} /\ pc' \in {"report", "dispose"}
    BY <2>5 DEF over
  <2> QED
    BY <1>3, <2>1, <2>2, <2>3, <2>4, <2>5, ApplyKinds
<1> QED
  BY <1>2, <1>3, ApplyMoves

\* a refusal is the first thing the lock holder tells
LEMMA RollbackFirst ==
    ASSUME proceeds, LateInv, NEW i \in DOMAIN todo', todo'[i] = Send("rollback", "true")
    PROVE  i = 1
<1>1. /\ todo'[i].op = "send" /\ todo'[i].channel = "rollback"
      /\ \A s : todo'[i] # SetStatus(s) /\ todo'[i] # Notify(s)
      /\ \A x, v : todo'[i] = Send(x, v) => x = "rollback"
  <2>1. todo'[i].op = "send" /\ todo'[i].channel = "rollback"
    BY EffectFields
  <2> QED
    BY <2>1, EffectFields
<1>2. CASE UNCHANGED todo
  BY <1>2 DEF LateInv
<1>3. CASE holderActs \/ \E d \in Domains : CommandDomain(d)
  <2>1. CASE i \in Nat \ {0} /\ i + 1 \in DOMAIN todo /\ todo'[i] = todo[i + 1]
    <3>1. i + 1 = 1
      BY <2>1 DEF LateInv
    <3> QED
      BY <2>1, <3>1
  <2>2. CASE DOMAIN todo' = {1}
    BY <2>2
  <2> QED
    BY <1>3, <2>1, <2>2, HolderTodo
<1>4. ASSUME NEW c \in Commands, issuesNow(c) \/ asksOwner(c)
      PROVE  FALSE
  <2>1. CASE issuesNow(c)
    <3>1. c \in AllCommands
      BY DEF AllCommands
    <3>2. PICK a : todo' = ExecuteCommand(c, a)
      BY <2>1 DEF issuesNow
    <3> QED
      BY <1>1, <3>1, <3>2, IssuedTargets
  <2>2. CASE asksOwner(c)
    <3>1. PICK a : todo' = <<AwaitConsent(c, a)>>
      BY <2>2 DEF asksOwner
    <3>2. todo'[i] = AwaitConsent(c, a)
      BY <3>1, SingletonEntry
    <3> QED
      BY <1>1, <3>2, EffectFields
  <2> QED
    BY <1>4, <2>1, <2>2
<1>5. ASSUME NEW c \in Phases, refuses(c)
      PROVE  i = 1
  <2>1. CASE todo' = <<SetStatus("INCOMPLETE"), Send("err", "true")>>
    <3>1. todo'[i] = SetStatus("INCOMPLETE") \/ todo'[i] = Send("err", "true")
      BY <2>1, PairEntries
    <3> QED
      BY <1>1, <3>1
  <2>2. CASE i # 1 => todo'[i].op = "command"
    BY <1>1, <2>2
  <2> QED
    BY <1>5, <2>1, <2>2, RefusedTodo
<1>6. ASSUME NEW d \in Domains, handled(d), changes(d)
      PROVE  FALSE
  <2>1. sends("rollback", "true")'
    BY DEF sends
  <2>2. ~sends("rollback", "true")
    BY <1>6 DEF handled, sends
  <2>3. newSignal("rollback", "true")
    BY <2>1, <2>2, SendKinds
  <2>4. \A c \in Phases : ~refuses(c)
    BY <1>6 DEF handled, refuses, consulted
  <2> QED
    BY <2>3, <2>4, PhaseNames DEF newSignal
<1>7. ASSUME NEW d \in Domains, progresses(d)
      PROVE  FALSE
  <2>1. todo'[i] = Notify("RUNNING")
    BY <1>7, SingletonEntry DEF progresses
  <2> QED
    BY <1>1, <2>1
<1> QED
  BY <1>2, <1>3, <1>4, <1>5, <1>6, <1>7, TodoKinds, Zenon

\* only the owner turns an activity back
LEMMA RollbackOrigin ==
    ASSUME proceeds, newSignal("rollback", "true")
    PROVE  \E c \in {"UPDATE", "ACTIVATE"} : refuses(c)
<1>1. \A c \in Phases : After(c) # "rollback"
  BY PhaseNames
<1> QED
  BY <1>1 DEF newSignal, Phases

\* what Apply does to the announcement of UPDATE and to a refusal
LEMMA LateApply ==
    ASSUME proceeds, applies, Unhurried, ~terminated, WorthInv, OfferInv, BackInv, LateInv,
           waitingFor("UPDATE")' \/ consulted("UPDATE")' \/ signals("rollback", "true")'
    PROVE  (pc = "ACTIVATE" \/ over)'
<1>1. /\ TypeOKActivity /\ TypeOK /\ CarriedInv /\ [NextActivity]_allVars
      /\ activity' = activity /\ pc # "idle" /\ pc' # "idle"
  BY SteadyFacts
<1>2. UNCHANGED todo
  BY ApplyKinds
<1>3. consulted("UPDATE")' = consulted("UPDATE") /\ sends("rollback", "true")' = sends("rollback", "true")
  BY <1>2 DEF consulted, sends
<1>4. "UPDATE" \in Phases /\ "ACTIVATE" \in Phases
  BY DEF Phases
<1>5. CASE Signalled /\ pc = "UPDATE" /\ chan["UPDATE"] = "true"
  BY <1>5 DEF Signalled, After
<1>6. CASE waitingFor("UPDATE") \/ consulted("UPDATE") \/ signals("rollback", "true")
  <2>1. pc = "ACTIVATE" \/ over
    BY <1>6 DEF LateInv
  <2>2. CASE over
    BY <2>2, OverStep
  <2>3. CASE pc = "ACTIVATE"
    <3>1. CASE ErrorSignalled
      BY <2>3, <3>1 DEF ErrorSignalled, AfterError, over
    <3>2. CASE RollbackSignalled
      <4>1. chan["rollback"] = "true" /\ chan'["rollback"] = "empty"
        BY <1>1, <3>2 DEF RollbackSignalled, TypeOK, Channels
      <4>2. ~signals("rollback", "true")'
        BY <1>3, <4>1 DEF signals, LateInv
      <4>3. ~waitingFor("UPDATE") /\ ~consulted("UPDATE")
        BY <4>1 DEF BackInv, turnsBack, barred, signals
      <4>4. waitingFor("UPDATE")' => waitingFor("UPDATE")
        BY <3>2 DEF RollbackSignalled, applyUnchanged, waitingFor
      <4> QED
        BY <1>3, <4>2, <4>3, <4>4
    <3>3. CASE Signalled
      <4>1. CASE chan["ACTIVATE"] = "true"
        <5>1. ahead("ACTIVATE") /\ signalled("ACTIVATE")
          BY <2>3, <4>1 DEF ahead, signalled
        <5>2. ~signals("rollback", "true")
          BY <5>1 DEF BackInv, turnsBack, barred
        <5>3. reached("ACTIVATE")
          BY <1>1, <1>4, <5>1 DEF CarriedInv, carried
        <5>4. ~Some(domains, {"DOWNLOAD_SUCCESS"})
          BY <5>3 DEF reached, Behind, Some
        <5>5. ~offered("UPDATE")
          BY <1>4, <5>4 DEF OfferInv, from
        <5> QED
          BY <1>6, <5>2, <5>5 DEF offered
      <4>2. CASE chan["ACTIVATE"] # "true"
        BY <2>3, <3>3, <4>2 DEF Signalled, over
      <4> QED
        BY <4>1, <4>2
    <3> QED
      BY <2>3, <3>1, <3>2, <3>3, ApplyKinds
  <2> QED
    BY <2>1, <2>2, <2>3
<1>7. ASSUME ~signals("rollback", "true"), signals("rollback", "true")'
      PROVE  FALSE
  <2>1. newSignal("rollback", "true") /\ sends("rollback", "true")'
    BY <1>7, SignalKinds, PhaseNames
  <2> QED
    BY <1>3, <1>7, <2>1 DEF signals
<1> QED
  BY <1>1, <1>3, <1>4, <1>5, <1>6, <1>7, WaitingStep

LEMMA LateStep ==
    ASSUME proceeds, Unhurried, ~terminated, WorthInv, OfferInv, BackInv, LateInv
    PROVE  LateInv'
<1>1. /\ TypeOKActivity /\ TypeOK /\ TypeOK' /\ [NextActivity]_allVars
      /\ activity' = activity /\ pc # "idle" /\ pc' # "idle"
  BY SteadyFacts
<1>2. "UPDATE" \in Phases /\ "ACTIVATE" \in Phases
  BY DEF Phases
<1>3. ~consulted("ACTIVATE")'
  <2>1. ~consulted("ACTIVATE") /\ "ACTIVATE" \notin OwnerConsentCommands
    BY DEF LateInv, Unhurried
  <2> QED
    BY <1>1, <1>2, <2>1, ConsultedStep
<1>4. ASSUME NEW c \in {"UPDATE", "ACTIVATE"}, refuses(c)
      PROVE  c = "UPDATE" /\ pc' = pc /\ (pc = "ACTIVATE" \/ over) /\ ~signals("rollback", "true")
             /\ chan'["rollback"] = chan["rollback"]
  <2>1. consulted(c) /\ onlyTodo
    BY <1>4 DEF refuses
  <2>2. c = "UPDATE"
    BY <2>1 DEF LateInv
  <2>3. pc = "ACTIVATE" \/ over
    BY <2>1, <2>2 DEF LateInv
  <2>4. ~signals("rollback", "true")
    BY <2>1, <2>2 DEF BackInv, turnsBack, barred
  <2>5. pc' = pc /\ chan'["rollback"] = chan["rollback"]
    BY <2>1, PhaseNames DEF onlyTodo
  <2> QED
    BY <2>2, <2>3, <2>4, <2>5
<1>5. waitingFor("UPDATE")' \/ consulted("UPDATE")' \/ signals("rollback", "true")' => (pc = "ACTIVATE" \/ over)'
  <2>1. CASE applies
    BY <2>1, LateApply
  <2>2. CASE pc' = pc
    <3>1. pc = "ACTIVATE" \/ over => (pc = "ACTIVATE" \/ over)'
      BY <2>2 DEF over
    <3>2. waitingFor("UPDATE")' => pc = "ACTIVATE" \/ over
      <4>1. ~(Signalled /\ pc = "UPDATE" /\ chan["UPDATE"] = "true")
        BY <2>2 DEF Signalled, After
      <4> QED
        BY <1>1, <1>2, <4>1, WaitingStep DEF LateInv
    <3>3. consulted("UPDATE")' => pc = "ACTIVATE" \/ over
      BY <1>2, PhaseSteps DEF LateInv
    <3>4. signals("rollback", "true")' => pc = "ACTIVATE" \/ over
      <4>1. signals("rollback", "true")' => signals("rollback", "true") \/ newSignal("rollback", "true")
        BY SignalKinds, PhaseNames
      <4> QED
        BY <1>4, <4>1, RollbackOrigin DEF LateInv
    <3> QED
      BY <3>1, <3>2, <3>3, <3>4
  <2> QED
    BY <2>1, <2>2, ApplyMoves
<1>6. ASSUME chan'["rollback"] = "true"
      PROVE  ~sends("rollback", "true")'
  <2>1. CASE chan["rollback"] = "true"
    <3>1. ~newSignal("rollback", "true")
      BY <1>4, <2>1, RollbackOrigin DEF signals
    <3> QED
      BY <2>1, <3>1, SendKinds DEF LateInv
  <2>2. CASE chan["rollback"] # "true"
    <3>1. 1 \in DOMAIN todo /\ todo' = Tail(todo)
      BY <1>6, <2>2, ChannelKinds, PhaseNames
    <3>2. ASSUME NEW i \in DOMAIN todo', todo'[i] = Send("rollback", "true")
          PROVE  FALSE
      <4>1. todo # <<>>
        BY <3>1
      <4>2. i \in Nat \ {0} /\ i + 1 \in DOMAIN todo /\ todo'[i] = todo[i + 1]
        BY <1>1, <3>1, <3>2, <4>1, HeadIsFirst DEF TypeOK
      <4>3. i + 1 = 1
        BY <3>2, <4>2 DEF LateInv
      <4> QED
        BY <4>2, <4>3
    <3> QED
      BY <3>2 DEF sends
  <2> QED
    BY <2>1, <2>2
<1>7. \A i \in DOMAIN todo' : todo'[i] = Send("rollback", "true") => i = 1
  BY RollbackFirst
<1> QED
  BY <1>3, <1>5, <1>6, <1>7 DEF LateInv

-----------------------------------------------------------------------------
(* From the decision on nothing is done any more *)

\* before the identification is over nothing is announced
LEMMA NothingOffered ==
    ASSUME proceeds, identifying, todo = <<>>, NEW c \in Phases
    PROVE  ~offered(c)
<1>1. CarriedInv /\ BarrierInv /\ pc # "idle"
  BY SteadyFacts
<1>2. ~carried(c)
  BY <1>1 DEF CarriedInv, reached
<1>3. ~sends(c, "true")
  BY DEF sends
<1>4. ASSUME ahead(c), chan[c] = "true"
      PROVE  FALSE
  <2>1. c \in Gated
    BY <1>2, <1>4 DEF carried, signalled, Phases, Gated
  <2>2. early(c)
    BY <1>4, <2>1 DEF ahead, early, Gated
  <2> QED
    BY <1>1, <1>4, <2>1, <2>2 DEF BarrierInv, SignalInv
<1> QED
  BY <1>2, <1>3, <1>4 DEF offered, signals, carried

\* ... so an identification that failed, or found nothing to do, is the end
LEMMA IdentificationConcludes ==
    ASSUME proceeds, LevelInv, "phaseTimeout" \notin Faults \/ idOver', NEW d \in Domains, givesUp(d) \/ findsNothing(d)
    PROVE  Inert'
<1>1. handled(d) /\ changes(d) /\ identifying /\ todo = <<>> /\ identifies(d) /\ ~Some(domains', {"IDENTIFYING"})
  BY DEF givesUp, findsNothing, allIdentified, identifies, handled
<1>2. \A i \in DOMAIN todo' : todo'[i].op \in {"notify", "setStatus", "send"} /\ todo'[i] # SetStatus("RUNNING")
  <2>1. CASE givesUp(d)
    <3>1. todo' = <<SetStatus("IDENTIFICATION_FAILED"), Send("err", "true")>>
      BY <2>1 DEF givesUp, IdentificationFailed
    <3>2. \A i \in DOMAIN todo' : todo'[i] = SetStatus("IDENTIFICATION_FAILED") \/ todo'[i] = Send("err", "true")
      BY <3>1, PairEntries
    <3> QED
      BY <3>2, EffectFields
  <2>2. CASE findsNothing(d)
    <3>1. todo' = <<Notify("IDENTIFIED"), SetStatus("COMPLETED"), Send("DOWNLOAD", "false")>>
      BY <2>2 DEF findsNothing, nothingToDo
    <3>2. DOMAIN todo' = {1, 2, 3}
      BY <3>1
    <3>3. todo'[1] = Notify("IDENTIFIED") /\ todo'[2] = SetStatus("COMPLETED") /\ todo'[3] = Send("DOWNLOAD", "false")
      BY <3>1
    <3> QED
      BY <3>2, <3>3, EffectFields
  <2> QED
    BY <2>1, <2>2
<1>3. windsUp'
  BY <1>2 DEF windsUp
<1>4. todo' # <<>> /\ 1 \in DOMAIN todo' /\ todo'[1].op \in {"notify", "setStatus"}
  <2>1. CASE givesUp(d)
    <3>1. todo' = <<SetStatus("IDENTIFICATION_FAILED"), Send("err", "true")>>
      BY <2>1 DEF givesUp, IdentificationFailed
    <3>2. DOMAIN todo' = {1, 2} /\ todo'[1] = SetStatus("IDENTIFICATION_FAILED") /\ todo' # <<>>
      BY <3>1
    <3> QED
      BY <3>2, EffectFields
  <2>2. CASE findsNothing(d)
    <3>1. todo' = <<Notify("IDENTIFIED"), SetStatus("COMPLETED"), Send("DOWNLOAD", "false")>>
      BY <2>2 DEF findsNothing, nothingToDo
    <3>2. DOMAIN todo' = {1, 2, 3} /\ todo'[1] = Notify("IDENTIFIED") /\ todo' # <<>>
      BY <3>1
    <3> QED
      BY <3>2, EffectFields
  <2> QED
    BY <2>1, <2>2
<1>5. \A c \in Phases : ~offered(c)'
  <2>1. ASSUME NEW e \in Domains, offersDownload(e)
        PROVE  FALSE
    <3>1. todo' = <<Notify("IDENTIFIED"), Notify("RUNNING"), SetStatus("RUNNING"), Send("DOWNLOAD", "true")>>
      BY <2>1 DEF offersDownload, running
    <3>2. 3 \in DOMAIN todo' /\ todo'[3] = SetStatus("RUNNING")
      BY <3>1
    <3> QED
      BY <1>2, <3>2
  <2>2. ASSUME NEW b \in Phases, NEW e \in Domains, offersNext(b, e)
        PROVE  FALSE
    <3>1. todo'[1] = Send(After(b), "true")
      BY <2>2 DEF offersNext
    <3> QED
      BY <1>4, <3>1, EffectFields
  <2> QED
    BY <1>1, <2>1, <2>2, OfferedOrigin, NothingOffered
<1>6. ~reached("DOWNLOAD") /\ \A e \in Domains : unbegun(e)
  BY <1>1, Unbegun DEF reached
<1>7. ASSUME NEW e \in DOMAIN domains'
      PROVE  domains'[e] \in {"IDENTIFIED", "IDENTIFICATION_FAILED"} \cup Finished /\ spent(e)'
  <2>1. e \in Domains /\ e \in DOMAIN domains
    <3>1. DOMAIN domains' = DOMAIN domains
      BY <1>1, ChangeFacts
    <3> QED
      BY <3>1, SteadyFacts DEF TypeOK
  <2>2. domains'[e] \in {"IDENTIFIED", "IDENTIFICATION_FAILED"} \cup Finished
    <3>1. domains'[e] # "IDENTIFYING"
      BY <1>1 DEF Some
    <3>2. CASE e # d
      <4>1. domains'[e] = domains[e]
        BY <1>1, <2>1, <3>2, ChangeFacts
      <4> QED
        BY <1>6, <2>1, <3>1, <4>1 DEF unbegun, unstarted
    <3>3. CASE e = d
      BY <1>1, <3>3, SteadyFacts DEF identifies, becomes, TypeOK, Finished
    <3> QED
      BY <3>2, <3>3
  <2>3. aside(e)'
    BY <1>3, <1>6, <2>1, AsideKept DEF unbegun
  <2> QED
    BY <2>2, <2>3 DEF spent
<1>8. decided'
  <2>1. CASE givesUp(d)
    BY <2>1 DEF givesUp, decided
  <2>2. CASE findsNothing(d)
    <3>1. allFinished'
      <4>1. \A e \in DOMAIN domains' : domains'[e] \in Finished
        BY <1>7, <2>2 DEF findsNothing, Some
      <4> QED
        BY <4>1 DEF allFinished, Some
    <3>2. toComplete'
      <4>1. todo' = <<Notify("IDENTIFIED"), SetStatus("COMPLETED"), Send("DOWNLOAD", "false")>>
        BY <2>2 DEF findsNothing, nothingToDo
      <4>2. 2 \in DOMAIN todo' /\ todo'[2] = SetStatus("COMPLETED")
        BY <4>1
      <4> QED
        BY <4>2 DEF toComplete
    <3> QED
      BY <3>1, <3>2 DEF decided
  <2> QED
    BY <2>1, <2>2
<1> QED
  BY <1>3, <1>5, <1>7, <1>8 DEF Inert

LEMMA ConclusionPair ==
    ASSUME NEW s \in FinalStatus, NEW x, todo' = <<SetStatus(s), Send(x, "true")>>
    PROVE  windsUp' /\ \A i \in DOMAIN todo' : todo'[i].op \in {"setStatus", "send"}
<1>1. \A i \in DOMAIN todo' : todo'[i] = SetStatus(s) \/ todo'[i] = Send(x, "true")
  BY PairEntries
<1>2. s # "RUNNING"
  BY DEF FinalStatus
<1>3. SetStatus(s) # SetStatus("RUNNING")
  BY <1>2, EffectFields
<1>4. Send(x, "true") # SetStatus("RUNNING")
  BY EffectFields
<1> QED
  BY <1>1, <1>3, <1>4, EffectFields DEF windsUp

\* the last domain to finish is the end, ...
LEMMA CompletionConcludes ==
    ASSUME proceeds, LevelInv, CleanInv, OfferInv, BackInv, NEW d \in Domains, allDone(d)
    PROVE  Inert'
<1>1. handled(d) /\ changes(d) /\ finishes(d) /\ ~Some(domains', DomainStatus \ Finished) /\ TypeOK'
  BY SteadyFacts DEF allDone
<1>2. windsUp'
  <2>1. "INCOMPLETE" \in FinalStatus /\ "COMPLETED" \in FinalStatus
    BY DEF FinalStatus
  <2> QED
    BY <2>1, ConclusionPair DEF allDone
<1>3. \A e \in DOMAIN domains' : domains'[e] \in Finished
  BY <1>1 DEF Some, TypeOK
<1>4. OfferInv'
  BY OfferStep
<1>5. \A c \in Phases : ~offered(c)'
  <2>1. \A c \in Phases : ~Some(domains', from(c))
    BY <1>3, BegunStatuses DEF Some
  <2> QED
    BY <1>4, <2>1 DEF OfferInv
<1>6. reached("DOWNLOAD")'
  <2>1. reached("DOWNLOAD")
    BY <1>1 DEF finishes, LevelInv, involves
  <2> QED
    BY <2>1, InvolvedReached
<1> QED
  BY <1>2, <1>3, <1>5, <1>6 DEF Inert, spent, decided

\* ... and so is the owner's refusal of the first command
LEMMA RefusalConcludes ==
    ASSUME proceeds, LevelInv, CleanInv, OfferInv, BackInv, FirstInv, refuses("DOWNLOAD")
    PROVE  Inert'
<1>1. "DOWNLOAD" \in Phases /\ CarriedInv /\ TurnInv /\ TypeOK /\ pc # "idle"
  BY SteadyFacts DEF Phases
<1>2. consulted("DOWNLOAD") /\ UNCHANGED domains
  BY DEF refuses, onlyTodo
<1>3. reached("DOWNLOAD") /\ \A e \in Domains : unbegun(e)
  BY <1>1, <1>2 DEF CarriedInv, carried, FirstInv
<1>4. windsUp'
  <2>1. todo' = <<SetStatus("INCOMPLETE"), Send("err", "true")>>
    BY <1>1, RefusedTodo
  <2>2. "INCOMPLETE" \in FinalStatus
    BY DEF FinalStatus
  <2> QED
    BY <2>1, <2>2, ConclusionPair
<1>5. \A e \in DOMAIN domains : e \in Domains /\ domains[e] \in {"IDENTIFIED"} \cup Finished
  <2>1. \A e \in DOMAIN domains : e \in Domains /\ domains[e] \in unstarted
    BY <1>1, <1>3 DEF unbegun, TypeOK
  <2>2. \A e \in DOMAIN domains : domains[e] \notin {"IDENTIFYING", "IDENTIFICATION_FAILED"}
    BY <1>3 DEF reached, Behind, Some
  <2> QED
    BY <2>1, <2>2 DEF unstarted
<1>6. \A e \in DOMAIN domains' : spent(e)'
  BY <1>2, <1>3, <1>4, <1>5, AsideKept DEF spent, unbegun
<1>7. ASSUME NEW c \in Phases, offered(c)'
      PROVE  FALSE
  <2>1. CASE c = "DOWNLOAD"
    <3>1. ~waitingFor(c)' /\ ~consulted(c)' /\ ~ahead(c)'
      BY <1>1, <1>2, <2>1, RefusedNow DEF TurnInv
    <3> QED
      BY <1>7, <3>1 DEF offered
  <2>2. CASE c # "DOWNLOAD"
    <3>1. Some(domains', from(c))
      BY <1>7, OfferStep DEF OfferInv
    <3>2. from(c) \in {{"DOWNLOAD_SUCCESS"}, {"UPDATE_SUCCESS"}}
      BY <2>2 DEF from, Phases
    <3> QED
      BY <1>2, <1>5, <3>1, <3>2 DEF Some, Finished
  <2> QED
    BY <2>1, <2>2
<1>8. decided'
  BY <1>3, InvolvedReached DEF decided
<1> QED
  BY <1>4, <1>6, <1>7, <1>8 DEF Inert

InertInv == concluding \/ over => Inert

LEMMA InertStep ==
    ASSUME proceeds, Unhurried, ~terminated, LevelInv, CleanInv, OfferInv, BackInv, FirstInv, WorthInv, LateInv,
           InertInv
    PROVE  InertInv'
<1>1. CASE concluding \/ over
  BY <1>1, InertKept DEF InertInv
<1>2. CASE ~concluding /\ ~over
  <2>1. over' => FALSE
    BY <1>2, OverStep DEF conveyed, concluding, signals
  <2>2. ASSUME concluding'
        PROVE  \/ \E d \in Domains : givesUp(d) \/ findsNothing(d) \/ allDone(d)
               \/ refuses("DOWNLOAD")
    <3>1. newSignal("err", "true") \/ newSignal("done", "true") \/ newSignal("DOWNLOAD", "false")
      BY <1>2, <2>2, SignalKinds, PhaseNames DEF concluding
    <3>2. \A c \in Phases : After(c) \notin {"err", "done"}
      BY PhaseNames
    <3>3. newSignal("err", "true") => (\E d \in Domains : givesUp(d) \/ allDone(d)) \/ refuses("DOWNLOAD")
      BY <3>2 DEF newSignal
    <3>4. newSignal("done", "true") => \E d \in Domains : allDone(d)
      BY <3>2 DEF newSignal
    <3>5. newSignal("DOWNLOAD", "false") => \E d \in Domains : findsNothing(d)
      BY DEF newSignal
    <3> QED
      BY <3>1, <3>3, <3>4, <3>5
  <2> QED
    BY <2>1, <2>2, IdentificationConcludes, CompletionConcludes, RefusalConcludes DEF InertInv, Unhurried
<1> QED
  BY <1>1, <1>2

-----------------------------------------------------------------------------
(* The status at the end *)

\* the last thing the lock holder does is to tell Apply to end, right after it has set a final status
concludes(e) == e \in {Send("err", "true"), Send("done", "true"), Send("DOWNLOAD", "false")}

EndInv ==
    \A i \in DOMAIN todo : concludes(todo[i]) =>
        /\ i = Len(todo)
        /\ IF i = 1 THEN status \in FinalStatus ELSE \E s \in FinalStatus : todo[i - 1] = SetStatus(s)

\* so Apply ends with a final status, and nobody reports anything else
FinalInv ==
    conveyed \/ over => status \in FinalStatus /\ \A i \in DOMAIN todo : todo[i].op # "notify"

LEMMA PairConcludes ==
    ASSUME NEW s \in FinalStatus, NEW x, NEW v, NEW t, t = <<SetStatus(s), Send(x, v)>>,
           NEW i \in DOMAIN t, concludes(t[i])
    PROVE  i = Len(t) /\ i # 1 /\ \E r \in FinalStatus : t[i - 1] = SetStatus(r)
<1>1. DOMAIN t = {1, 2} /\ Len(t) = 2 /\ t[1] = SetStatus(s)
  OBVIOUS
<1>2. ~concludes(t[1])
  BY <1>1, EffectFields DEF concludes
<1>3. i = 2
  BY <1>1, <1>2
<1> QED
  BY <1>1, <1>3

LEMMA ConcludesOp ==
    ASSUME NEW e, concludes(e)
    PROVE  e.op = "send" /\ e.channel \in {"err", "done", "DOWNLOAD"} /\ (e.channel = "DOWNLOAD" => e.value = "false")
BY EffectFields DEF concludes

\* new work ends that way
LEMMA NewWorkConcludes ==
    ASSUME proceeds, NEW i \in DOMAIN todo', concludes(todo'[i]),
           \/ \E c \in Commands : issuesNow(c) \/ asksOwner(c)
           \/ \E c \in Phases : refuses(c)
           \/ \E d \in Domains : handled(d) /\ (changes(d) \/ progresses(d))
    PROVE  i = Len(todo') /\ i # 1 /\ \E s \in FinalStatus : todo'[i - 1] = SetStatus(s)
<1>1. /\ todo'[i].op = "send" /\ todo'[i].channel \in {"err", "done", "DOWNLOAD"}
      /\ todo'[i].channel = "DOWNLOAD" => todo'[i].value = "false"
  BY ConcludesOp
<1>2. "INCOMPLETE" \in FinalStatus /\ "COMPLETED" \in FinalStatus /\ "IDENTIFICATION_FAILED" \in FinalStatus
  BY DEF FinalStatus
<1>3. ASSUME NEW c \in Commands, issuesNow(c)
      PROVE  FALSE
  <2>1. c \in AllCommands
    BY DEF AllCommands
  <2>2. PICK a : todo' = ExecuteCommand(c, a)
    BY <1>3 DEF issuesNow
  <2> QED
    BY <1>1, <2>1, <2>2, IssuedTargets
<1>4. ASSUME NEW c \in Commands, asksOwner(c)
      PROVE  FALSE
  <2>1. PICK a : todo' = <<AwaitConsent(c, a)>>
    BY <1>4 DEF asksOwner
  <2>2. todo'[i] = AwaitConsent(c, a)
    BY <2>1, SingletonEntry
  <2> QED
    BY <1>1, <2>2, EffectFields
<1>5. ASSUME NEW c \in Phases, refuses(c)
      PROVE  i = Len(todo') /\ i # 1 /\ \E s \in FinalStatus : todo'[i - 1] = SetStatus(s)
  <2>1. CASE todo' = <<SetStatus("INCOMPLETE"), Send("err", "true")>>
    BY <1>2, <2>1, PairConcludes
  <2>2. CASE /\ 1 \in DOMAIN todo' /\ todo'[1] = Send("rollback", "true")
             /\ \A j \in DOMAIN todo' : j # 1 => todo'[j].op = "command"
    <3>1. i = 1
      BY <1>1, <2>2
    <3>2. todo'[i].channel = "rollback"
      BY <2>2, <3>1, EffectFields
    <3> QED
      BY <1>1, <3>2
  <2> QED
    BY <1>5, <2>1, <2>2, RefusedTodo
<1>6. ASSUME NEW d \in Domains, progresses(d)
      PROVE  FALSE
  <2>1. todo'[i] = Notify("RUNNING")
    BY <1>6, SingletonEntry DEF progresses
  <2> QED
    BY <1>1, <2>1, EffectFields
<1>7. ASSUME NEW d \in Domains, handled(d), changes(d)
      PROVE  i = Len(todo') /\ i # 1 /\ \E s \in FinalStatus : todo'[i - 1] = SetStatus(s)
  <2>1. CASE todo' = <<>>
    BY <2>1
  <2>2. CASE offersDownload(d)
    <3>1. todo' = <<Notify("IDENTIFIED"), Notify("RUNNING"), SetStatus("RUNNING"), Send("DOWNLOAD", "true")>>
      BY <2>2 DEF offersDownload, running
    <3>2. DOMAIN todo' = {1, 2, 3, 4}
      BY <3>1
    <3>3. /\ todo'[1] = Notify("IDENTIFIED") /\ todo'[2] = Notify("RUNNING")
          /\ todo'[3] = SetStatus("RUNNING") /\ todo'[4] = Send("DOWNLOAD", "true")
      BY <3>1
    <3> QED
      BY <1>1, <3>2, <3>3, EffectFields
  <2>3. CASE findsNothing(d)
    <3>1. todo' = <<Notify("IDENTIFIED"), SetStatus("COMPLETED"), Send("DOWNLOAD", "false")>>
      BY <2>3 DEF findsNothing, nothingToDo
    <3>2. DOMAIN todo' = {1, 2, 3} /\ Len(todo') = 3
      BY <3>1
    <3>3. todo'[1] = Notify("IDENTIFIED") /\ todo'[2] = SetStatus("COMPLETED")
      BY <3>1
    <3>4. i = 3
      BY <1>1, <3>2, <3>3, EffectFields
    <3>5. 3 - 1 = 2
      OBVIOUS
    <3> QED
      BY <1>2, <3>2, <3>3, <3>4, <3>5
  <2>4. CASE givesUp(d)
    <3>1. todo' = <<SetStatus("IDENTIFICATION_FAILED"), Send("err", "true")>>
      BY <2>4 DEF givesUp, IdentificationFailed
    <3> QED
      BY <1>2, <3>1, PairConcludes
  <2>5. ASSUME NEW c \in Phases, offersNext(c, d)
        PROVE  FALSE
    <3>1. todo' = <<Send(After(c), "true"), Notify("RUNNING")>>
      BY <2>5 DEF offersNext
    <3>2. todo'[i] = Send(After(c), "true") \/ todo'[i] = Notify("RUNNING")
      BY <3>1, PairEntries
    <3>3. After(c) \notin {"err", "done", "DOWNLOAD"}
      BY PhaseNames
    <3> QED
      BY <1>1, <3>2, <3>3, EffectFields
  <2>6. CASE hasRolledBack(d)
    <3>1. todo' = <<Send("CLEANUP", "true"), Notify("RUNNING")>>
      BY <2>6 DEF hasRolledBack
    <3>2. todo'[i] = Send("CLEANUP", "true") \/ todo'[i] = Notify("RUNNING")
      BY <3>1, PairEntries
    <3> QED
      BY <1>1, <3>2, EffectFields
  <2>7. CASE allDone(d)
    BY <1>2, <2>7, PairConcludes DEF allDone
  <2>8. ASSUME todo' = <<Command("CLEANUP", {d}, activity)>>
        PROVE  FALSE
    <3>1. todo'[i] = Command("CLEANUP", {d}, activity)
      BY <2>8, SingletonEntry
    <3> QED
      BY <1>1, <3>1, EffectFields
  <2> QED
    BY <1>7, <2>1, <2>2, <2>3, <2>4, <2>5, <2>6, <2>7, <2>8, ChangedTodo
<1> QED
  BY <1>3, <1>4, <1>5, <1>6, <1>7

\* what the lock holder has done changes the status
LEMMA HolderSets ==
    ASSUME proceeds, holderActs \/ (\E d \in Domains : CommandDomain(d)), NEW s, 1 \in DOMAIN todo, todo[1] = SetStatus(s)
    PROVE  status' = s
<1>1. todo # <<>> /\ Head(todo).op = "setStatus" /\ Head(todo).status = s
  BY HolderTodo, EffectFields
<1> QED
  BY <1>1 DEF holderActs, NotifyFeedback, UpdateStatus, SendSignal, CommandDomain

LEMMA EndStep ==
    ASSUME proceeds, Unhurried, ~terminated, EndInv
    PROVE  EndInv'
<1> SUFFICES ASSUME NEW i \in DOMAIN todo', concludes(todo'[i])
             PROVE  /\ i = Len(todo')
                    /\ IF i = 1 THEN status' \in FinalStatus ELSE \E s \in FinalStatus : todo'[i - 1] = SetStatus(s)
  BY DEF EndInv, concludes
<1>1. TypeOK /\ todo \in Seq(Effect)
  BY SteadyFacts DEF TypeOK
<1>2. todo'[i].op = "send"
  BY ConcludesOp
<1>3. CASE UNCHANGED todo
  <2>1. /\ i = Len(todo) /\ concludes(todo[i])
        /\ IF i = 1 THEN status \in FinalStatus ELSE \E s \in FinalStatus : todo[i - 1] = SetStatus(s)
    BY <1>3 DEF EndInv
  <2>2. ASSUME i = 1
        PROVE  status' = status
    <3>1. ASSUME 1 \in DOMAIN todo, todo[1] = SetStatus(status')
          PROVE  FALSE
      BY <1>2, <1>3, <2>2, <3>1, EffectFields
    <3>2. ~("phaseTimeout" \in Faults \/ (terminated /\ status' = "INCOMPLETE"))
      BY DEF Unhurried
    <3> QED
      BY <3>1, <3>2, StatusKinds
  <2> QED
    BY <1>3, <2>1, <2>2
<1>4. CASE holderActs \/ \E d \in Domains : CommandDomain(d)
  <2>1. /\ todo' = Tail(todo) /\ todo # <<>>
        /\ \A j \in DOMAIN todo' : j \in Nat \ {0} /\ j + 1 \in DOMAIN todo /\ todo'[j] = todo[j + 1]
    <3>1. CASE DOMAIN todo' = {1} /\ todo'[1].op = "command"
      BY <1>2, <3>1
    <3> QED
      BY <1>4, <3>1, HolderTodo
  <2>2. i \in Nat \ {0} /\ i + 1 \in DOMAIN todo /\ concludes(todo[i + 1])
    BY <2>1
  <2>3. i + 1 = Len(todo) /\ i + 1 # 1
    BY <2>2 DEF EndInv
  <2>4. \E s \in FinalStatus : todo[(i + 1) - 1] = SetStatus(s)
    BY <2>2, <2>3 DEF EndInv
  <2>5. PICK s \in FinalStatus : todo[i] = SetStatus(s)
    <3>1. (i + 1) - 1 = i
      BY <2>2
    <3> QED
      BY <2>4, <3>1
  <2>6. i = Len(todo')
    <3>1. Len(todo') = Len(todo) - 1
      BY <1>1, <2>1
    <3> QED
      BY <2>2, <2>3, <3>1
  <2>7. CASE i = 1
    <3>1. 1 \in DOMAIN todo
      BY <1>1, <2>1, HeadIsFirst
    <3>2. status' = s
      BY <1>4, <2>5, <2>7, <3>1, HolderSets
    <3> QED
      BY <2>6, <2>7, <3>2
  <2>8. CASE i # 1
    <3>1. i - 1 \in DOMAIN todo'
      <4>1. todo' \in Seq(Effect)
        BY SteadyFacts DEF TypeOK
      <4>2. DOMAIN todo' = 1..Len(todo') /\ Len(todo') \in Nat
        BY <4>1, LenProperties
      <4> QED
        BY <2>2, <2>8, <4>2
    <3>2. todo'[i - 1] = todo[(i - 1) + 1]
      BY <2>1, <3>1
    <3>3. (i - 1) + 1 = i
      BY <2>2
    <3> QED
      BY <2>5, <2>6, <2>8, <3>2, <3>3
  <2> QED
    BY <2>7, <2>8
<1>5. CASE \/ \E c \in Commands : issuesNow(c) \/ asksOwner(c)
           \/ \E c \in Phases : refuses(c)
           \/ \E d \in Domains : handled(d) /\ (changes(d) \/ progresses(d))
  BY <1>5, NewWorkConcludes
<1> QED
  BY <1>3, <1>4, <1>5, TodoKinds

\* while an activity ends nothing is reported of it
LEMMA NotifyNoMore ==
    ASSUME proceeds, Unhurried, LevelInv, InertInv, FinalInv, conveyed \/ over, NEW i \in DOMAIN todo'
    PROVE  todo'[i].op # "notify"
<1>1. Inert /\ status \in FinalStatus /\ \A j \in DOMAIN todo : todo[j].op # "notify"
  BY DEF InertInv, FinalInv, conveyed, concluding, signals
<1>2. CASE UNCHANGED todo
  BY <1>1, <1>2
<1>3. CASE holderActs \/ \E d \in Domains : CommandDomain(d)
  <2>1. CASE i + 1 \in DOMAIN todo /\ todo'[i] = todo[i + 1]
    BY <1>1, <2>1
  <2>2. CASE DOMAIN todo' = {1} /\ todo'[1].op = "command"
    BY <2>2
  <2> QED
    BY <1>3, <2>1, <2>2, HolderTodo
<1>4. ASSUME NEW c \in Commands, issuesNow(c) \/ asksOwner(c)
      PROVE  todo'[i].op # "notify"
  <2>1. CASE issuesNow(c)
    <3>1. c \in AllCommands
      BY DEF AllCommands
    <3>2. PICK a : todo' = ExecuteCommand(c, a)
      BY <2>1 DEF issuesNow
    <3> QED
      BY <3>1, <3>2, IssuedTargets
  <2>2. CASE asksOwner(c)
    <3>1. PICK a : todo' = <<AwaitConsent(c, a)>>
      BY <2>2 DEF asksOwner
    <3>2. todo'[i] = AwaitConsent(c, a)
      BY <3>1, SingletonEntry
    <3> QED
      BY <3>2, EffectFields
  <2> QED
    BY <1>4, <2>1, <2>2
<1>5. ASSUME NEW c \in Phases, refuses(c)
      PROVE  FALSE
  BY <1>1, <1>5 DEF refuses, Inert, offered
<1>6. ASSUME NEW d \in Domains, handled(d), progresses(d)
      PROVE  FALSE
  <2>1. status # "RUNNING"
    BY <1>1 DEF FinalStatus
  <2>2. domains[d] \in Cleanable
    BY <1>6, <2>1 DEF progresses
  <2>3. spent(d)
    BY <1>1, <1>6 DEF Inert, handled
  <2> QED
    BY <2>2, <2>3 DEF spent, Cleanable, Finished
<1>7. ASSUME NEW d \in Domains, handled(d), changes(d)
      PROVE  todo'[i].op # "notify"
  <2>1. todo' = <<SetStatus("IDENTIFICATION_FAILED"), Send("err", "true")>>
    BY <1>1, <1>7, InertReport DEF givesUp, IdentificationFailed
  <2>2. todo'[i] = SetStatus("IDENTIFICATION_FAILED") \/ todo'[i] = Send("err", "true")
    BY <2>1, PairEntries
  <2> QED
    BY <2>2, EffectFields
<1> QED
  BY <1>2, <1>3, <1>4, <1>5, <1>6, <1>7, TodoKinds

\* Apply is told to end with the last thing the lock holder does
LEMMA ConveyStep ==
    ASSUME proceeds, EndInv, conveyed', ~conveyed
    PROVE  status \in FinalStatus /\ status' = status /\ DOMAIN todo' = {} /\ \A s : ~sets(s)
<1>1. TypeOK /\ todo \in Seq(Effect)
  BY SteadyFacts DEF TypeOK
<1>2. /\ SendSignal /\ 1 \in DOMAIN todo /\ concludes(todo[1]) /\ todo' = Tail(todo)
  <2>1. CASE chan'["err"] = "true"
    <3>1. chan["err"] # "true"
      BY DEF conveyed
    <3>2. SendSignal /\ 1 \in DOMAIN todo /\ todo[1] = Send("err", "true") /\ todo' = Tail(todo)
      BY <2>1, <3>1, ChannelKinds, PhaseNames
    <3> QED
      BY <3>2 DEF concludes
  <2>2. CASE chan'["done"] = "true"
    <3>1. chan["done"] # "true"
      BY DEF conveyed
    <3>2. SendSignal /\ 1 \in DOMAIN todo /\ todo[1] = Send("done", "true") /\ todo' = Tail(todo)
      BY <2>2, <3>1, ChannelKinds, PhaseNames
    <3> QED
      BY <3>2 DEF concludes
  <2>3. CASE chan'["DOWNLOAD"] = "false"
    <3>1. chan["DOWNLOAD"] # "false" /\ "DOWNLOAD" \in Channels \ {"consent"}
      BY PhaseNames DEF conveyed
    <3>2. SendSignal /\ 1 \in DOMAIN todo /\ todo[1] = Send("DOWNLOAD", "false") /\ todo' = Tail(todo)
      BY <2>3, <3>1, ChannelKinds
    <3> QED
      BY <3>2 DEF concludes
  <2> QED
    BY <2>1, <2>2, <2>3 DEF conveyed
<1>3. 1 = Len(todo) /\ status \in FinalStatus /\ \A s : ~sets(s)
  <2>1. 1 = Len(todo) /\ status \in FinalStatus
    BY <1>2 DEF EndInv
  <2>2. DOMAIN todo = {1}
    <3>1. DOMAIN todo = 1..Len(todo)
      BY <1>1, LenProperties
    <3> QED
      BY <2>1, <3>1
  <2>3. \A s : todo[1] # SetStatus(s)
    BY <1>2, ConcludesOp, EffectFields
  <2> QED
    BY <2>1, <2>2, <2>3 DEF sets
<1>4. Len(todo') = 0
  <2>1. todo # <<>>
    BY <1>3
  <2> QED
    BY <1>1, <1>2, <1>3, <2>1
<1>5. DOMAIN todo' = {}
  <2>1. todo' \in Seq(Effect)
    BY SteadyFacts DEF TypeOK
  <2>2. DOMAIN todo' = 1..Len(todo')
    BY <2>1, LenProperties
  <2> QED
    BY <1>4, <2>2
<1> QED
  BY <1>2, <1>3, <1>5 DEF SendSignal

LEMMA FinalStep ==
    ASSUME proceeds, Unhurried, ~terminated, LevelInv, WorthInv, LateInv, InertInv, EndInv, FinalInv
    PROVE  FinalInv'
<1>1. CASE conveyed \/ over
  <2>1. Inert /\ status \in FinalStatus
    BY <1>1 DEF InertInv, FinalInv, conveyed, concluding, signals
  <2>2. status' \in FinalStatus
    <3>1. CASE 1 \in DOMAIN todo /\ todo[1] = SetStatus(status') /\ status' \in FinalStatus \cup {"RUNNING"}
      BY <2>1, <3>1 DEF Inert, windsUp
    <3>2. ~("phaseTimeout" \in Faults \/ (terminated /\ status' = "INCOMPLETE"))
      BY DEF Unhurried
    <3> QED
      BY <2>1, <3>1, <3>2, StatusKinds
  <2> QED
    BY <1>1, <2>2, NotifyNoMore DEF FinalInv
<1>2. CASE ~conveyed /\ ~over
  <2>1. ~over'
    BY <1>2, OverStep
  <2> QED
    BY <1>2, <2>1, ConveyStep DEF FinalInv
<1> QED
  BY <1>1, <1>2

\* a final status is reported at the end only
ReportedInv == reported \in FinalStatus => pc \in {"dispose", "idle"}

LEMMA ReportedStep ==
    ASSUME TypeOK, ReportedInv, [Next]_vars
    PROVE  /\ ReportedInv'
           /\ \/ reported' = reported
              \/ pc \notin {"dispose", "idle"}
              \/ activity' = activity + 1
              \/ todo # <<>> /\ Head(todo).op = "notify"
<1>1. \A s \in {"", "IDENTIFYING", "IDENTIFIED", "RUNNING"} : s \notin FinalStatus
  BY DEF FinalStatus
<1>2. CASE UNCHANGED vars
  BY <1>2 DEF vars, ReportedInv
<1>3. ASSUME NEW ds \in SUBSET Domains, SetupUpdateOperation(ds)
      PROVE  reported' = "" /\ activity' = activity + 1
  BY <1>3, Zenon DEF SetupUpdateOperation
<1>4. CASE Identify
  BY <1>1, <1>4 DEF Identify, ReportedInv
<1>5. CASE Wait \/ PhaseTimeout
  BY <1>5 DEF Wait, ErrorSignalled, RollbackSignalled, Signalled, ContextDone, PhaseTimeout, applyUnchanged,
              ReportedInv, Waits, Commands
<1>6. CASE ReturnReboot \/ ReportFinal
  BY <1>6 DEF ReturnReboot, ReportFinal, ReportedInv
<1>7. CASE DisposeUpdateOperation
  BY <1>7 DEF DisposeUpdateOperation, ReportedInv
<1>8. CASE NotifyFeedback
  <2>1. /\ todo # <<>> /\ Head(todo).op = "notify" /\ Head(todo) \in Effect
        /\ reported' = Head(todo).status
    BY <1>8, HeadTyped DEF NotifyFeedback
  <2>2. Head(todo).status \in {"IDENTIFIED", "RUNNING"}
    BY <2>1 DEF Effect, Blocked
  <2> QED
    BY <1>1, <2>1, <2>2 DEF ReportedInv
<1>9. CASE UpdateStatus \/ SendSignal \/ \E d \in Domains : CommandDomain(d) \/ CommandFailed(d)
  BY <1>9 DEF UpdateStatus, SendSignal, CommandDomain, CommandFailed, holderUnchanged, ReportedInv
<1>10. CASE OwnerConsented \/ OwnerConsentFailed \/ \E h \in handlers : HandleCommandSignal(h)
  BY <1>10 DEF OwnerConsented, OwnerConsentFailed, HandleCommandSignal, handlerUnchanged, ReportedInv
<1>11. CASE Terminate \/ \E approved \in BOOLEAN : HandleOwnerConsentFeedback(approved)
  BY <1>11 DEF Terminate, HandleOwnerConsentFeedback, ReportedInv
<1>12. CASE \E d \in Domains : SendDesiredState(d)
  BY <1>12 DEF SendDesiredState, ReportedInv
<1>13. ASSUME NEW d \in Domains, SendDesiredStateFailed(d)
       PROVE  UNCHANGED <<reported, pc>>
  BY <1>13 DEF SendDesiredStateFailed, HandleDesiredStateFeedbackEvent
<1>14. ASSUME NEW d \in Domains, NEW s \in FeedbackStatus, NEW hasActions \in BOOLEAN, AgentFeedback(d, s, hasActions)
       PROVE  UNCHANGED <<reported, pc>>
  BY <1>14 DEF AgentFeedback, HandleDesiredStateFeedbackEvent
<1>15. UNCHANGED <<reported, pc>> => ReportedInv'
  BY DEF ReportedInv
<1>16. reported' = "" => ReportedInv'
  BY <1>1 DEF ReportedInv
<1> QED
  BY <1>2, <1>3, <1>4, <1>5, <1>6, <1>7, <1>8, <1>9, <1>10, <1>11, <1>12, <1>13, <1>14, <1>15, <1>16
     DEF Next, Apply, HoldLock

-----------------------------------------------------------------------------
(* The invariant *)

ConclusionInv ==
    /\ ReportedInv
    /\ pc # "idle" => /\ LevelInv /\ CleanInv /\ OfferInv /\ BackInv /\ FirstInv
                      /\ WorthInv /\ LateInv /\ InertInv /\ EndInv /\ FinalInv

\* nothing of an earlier activity is on its way in a new one
LEMMA StartFacts ==
    ASSUME TypeOKActivity, BarrierInv, AgeInv, Start
    PROVE  /\ todo' = <<>> /\ DOMAIN todo' = {} /\ delayedStatus' = "" /\ failed' = {} /\ refused' = {} /\ granted' = {}
           /\ pc' = "identify" \/ (pc' = "report" /\ status' = "INCOMPLETE" /\ DOMAIN domains' = {})
           /\ \A d \in DOMAIN domains' : domains'[d] = "IDENTIFYING"
           /\ \A c, d : ~targeted(c, d)'
           /\ \A c : \A d \in Domains : ~asks(c, d)'
           /\ \A s, d : ~tells(s, d)'
           /\ \A c : \A d \in Domains : ~involves(c, d)'
           /\ \A x \in Channels, v \in {"true", "false"} : ~signals(x, v)'
           /\ \A c : ~consulted(c)'
           /\ \A c \in Phases : ~waitingFor(c)'
<1>1. /\ activity \in Nat /\ activity' = activity + 1
      /\ todo' = <<>> /\ delayedStatus' = "" /\ failed' = {} /\ refused' = {} /\ granted' = {}
      /\ \A d \in DOMAIN domains' : domains'[d] = "IDENTIFYING"
      /\ \A x \in Channels : chan'[x] \in {"nil", "empty"}
      /\ UNCHANGED <<requests, feedback, inHand>>
  BY ZenonT(60) DEF Start, SetupUpdateOperation, TypeOKActivity, TypeOK
<1>2. pc' = "identify" \/ (pc' = "report" /\ status' = "INCOMPLETE" /\ DOMAIN domains' = {})
  BY DEF Start, SetupUpdateOperation
<1>3. DOMAIN todo' = {}
  <2>1. todo' = <<>>
    BY <1>1
  <2> QED
    BY <2>1
<1>4. /\ \A d \in Domains : \A i \in DOMAIN requests[d] : requests[d][i].activity # activity + 1
      /\ \A d \in Domains : \A i \in DOMAIN feedback[d] : feedback[d][i].activity # activity + 1
      /\ \A i \in DOMAIN inHand : inHand[i].activity # activity + 1
  <2>1. activity \in Nat
    BY <1>1
  <2>2. ~(activity + 1 <= activity)
    BY <2>1
  <2> QED
    BY <2>2 DEF AgeInv
<1>5. \A c, d : ~targeted(c, d)'
  BY <1>3 DEF targeted
<1>6. \A c : \A d \in Domains : ~asks(c, d)'
  BY <1>1, <1>4 DEF asks
<1>7. \A s, d : ~tells(s, d)'
  BY <1>1, <1>4 DEF tells
<1>8. \A c : \A d \in Domains : ~involves(c, d)'
  BY <1>5, <1>6, <1>7 DEF involves, responds
<1>9. \A x \in Channels, v \in {"true", "false"} : ~signals(x, v)'
  BY <1>1, <1>3 DEF signals, sends
<1>10. \A c : ~consulted(c)'
  BY <1>3 DEF consulted
<1>11. \A c \in Phases : ~waitingFor(c)'
  BY StartCarriesNothing DEF carried
<1> QED
  BY <1>1, <1>2, <1>3, <1>5, <1>6, <1>7, <1>8, <1>9, <1>10, <1>11

\* and nothing has been offered, commanded or reported in it
LEMMA StartOpens ==
    ASSUME TypeOKActivity, BarrierInv, AgeInv, Start
    PROVE  /\ LevelInv' /\ CleanInv' /\ OfferInv' /\ BackInv' /\ FirstInv' /\ WorthInv'
           /\ \A c \in Phases : ~Some(domains', begun(c)) /\ ~offered(c)'
           /\ ~signals("rollback", "true")' /\ ~concluding'
<1>1. /\ DOMAIN todo' = {} /\ \A d \in DOMAIN domains' : domains'[d] = "IDENTIFYING"
      /\ \A c : \A d \in Domains : ~involves(c, d)'
      /\ \A x \in Channels, v \in {"true", "false"} : ~signals(x, v)'
      /\ \A c : ~consulted(c)'
      /\ \A c \in Phases : ~waitingFor(c)'
  BY StartFacts
<1>2. \A c \in Phases : ~Some(domains', begun(c)) /\ ~offered(c)'
  <2>1. \A c \in Phases : "IDENTIFYING" \notin begun(c) /\ c \in Channels
    BY PhaseNames DEF begun, beyond, Phases
  <2> QED
    BY <1>1, <2>1 DEF Some, offered
<1>3. LevelInv' /\ CleanInv' /\ OfferInv'
  BY <1>1, <1>2 DEF LevelInv, CleanInv, OfferInv
<1>4. /\ ~signals("rollback", "true")' /\ ~signals("err", "true")' /\ ~signals("done", "true")'
      /\ ~signals("DOWNLOAD", "false")'
  BY <1>1 DEF Channels, Commands
<1>5. BackInv' /\ FirstInv' /\ WorthInv'
  BY <1>1, <1>4 DEF BackInv, turnsBack, FirstInv, WorthInv, Phases
<1>6. ~concluding'
  BY <1>4 DEF concluding
<1> QED
  BY <1>2, <1>3, <1>4, <1>5, <1>6

LEMMA StartConclusion ==
    ASSUME TypeOKActivity, BarrierInv, AgeInv, Start, Unhurried
    PROVE  /\ LevelInv' /\ CleanInv' /\ OfferInv' /\ BackInv' /\ FirstInv'
           /\ WorthInv' /\ LateInv' /\ InertInv' /\ EndInv' /\ FinalInv'
<1>1. /\ DOMAIN todo' = {} /\ \A d \in DOMAIN domains' : domains'[d] = "IDENTIFYING"
      /\ \A c : \A d \in Domains : ~involves(c, d)'
      /\ \A c : ~consulted(c)'
      /\ \A c \in Phases : ~waitingFor(c)'
  BY StartFacts
<1>2. \A c \in Phases : ~Some(domains', begun(c)) /\ ~offered(c)'
  BY StartOpens
<1>3. LevelInv' /\ CleanInv' /\ OfferInv' /\ BackInv' /\ FirstInv' /\ WorthInv'
  BY StartOpens
<1>4. ~signals("rollback", "true")' /\ ~concluding'
  BY StartOpens
<1>5. EndInv'
  BY <1>1, <1>3 DEF EndInv
<1>6. LateInv'
  BY <1>1, <1>4 DEF LateInv, signals, Phases
<1>7. ~concluding' /\ ~conveyed'
  BY <1>4 DEF concluding, conveyed, signals
<1>8. ASSUME over'
      PROVE  Inert' /\ status' \in FinalStatus
  <2>1. pc' = "report" /\ status' = "INCOMPLETE" /\ DOMAIN domains' = {} /\ todo' = <<>>
    BY <1>8, StartFacts DEF over
  <2>2. allFinished' /\ settled'
    BY <2>1 DEF allFinished, settled, Some, identifying, failing, IdentificationStatus
  <2> QED
    BY <1>1, <1>2, <2>1, <2>2 DEF Inert, decided, windsUp, Unhurried, FinalStatus
<1> QED
  BY <1>1, <1>3, <1>5, <1>6, <1>7, <1>8 DEF InertInv, FinalInv

LEMMA ConclusionStep ==
    ASSUME steady, Unhurried, ~terminated, ConclusionInv, TypeOKActivity', [NextActivity]_allVars
    PROVE  ConclusionInv'
<1>1. TypeOKActivity /\ TypeOK /\ BarrierInv /\ AgeInv /\ [Next]_vars
  BY StepOfOrchestrator DEF steady, OrderInv, TypeOKActivity
<1>2. ReportedInv'
  BY <1>1, ReportedStep DEF ConclusionInv
<1>3. CASE Start
  BY <1>1, <1>2, <1>3, StartConclusion DEF ConclusionInv
<1>4. CASE activity' = activity /\ (pc = "idle" => pc' = "idle")
  <2>1. ASSUME pc' # "idle"
        PROVE  /\ LevelInv' /\ CleanInv' /\ OfferInv' /\ BackInv' /\ FirstInv'
               /\ WorthInv' /\ LateInv' /\ InertInv' /\ EndInv' /\ FinalInv'
    <3>1. proceeds
      BY <1>4, <2>1 DEF proceeds
    <3>2. /\ LevelInv /\ CleanInv /\ OfferInv /\ BackInv /\ FirstInv
          /\ WorthInv /\ LateInv /\ InertInv /\ EndInv /\ FinalInv
      BY <1>4, <2>1 DEF ConclusionInv
    <3> QED
      BY <3>1, <3>2, LevelStep, CleanStep, OfferStep, BackStep, FirstStep, WorthStep, LateStep, InertStep,
         EndStep, FinalStep
  <2> QED
    BY <1>2, <2>1 DEF ConclusionInv
<1> QED
  BY <1>1, <1>3, <1>4, NewActivity

LEMMA InitConclusion == InitActivity => ConclusionInv /\ ~terminated
BY DEF InitActivity, Init, ConclusionInv, ReportedInv, FinalStatus

\* While no timer of apply fires the final feedback is the last word without exception:
\* no agent is commanded after it, not even back, and nothing is reported, whatever it said.
CommandsOver == ~(commanding /\ pc = "dispose")
ReportsOver == [][(reported \in FinalStatus /\ activity' = activity) => (reported' = reported)]_allVars

\* what is left of an activity at its end
LEMMA ConclusionFacts ==
    ConclusionInv => FinalFeedbackIsFinal /\ CommandsOver
<1> SUFFICES ASSUME ConclusionInv
             PROVE  FinalFeedbackIsFinal /\ CommandsOver
  OBVIOUS
<1>1. FinalFeedbackIsFinal
  BY DEF ConclusionInv, FinalInv, over, FinalFeedbackIsFinal
<1>2. CommandsOver
  <2> SUFFICES ASSUME commanding, pc = "dispose"
               PROVE  FALSE
    BY DEF CommandsOver
  <2>1. Inert
    BY DEF ConclusionInv, InertInv, over
  <2>2. todo # <<>> /\ Head(todo).op = "command"
    BY DEF commanding
  <2> QED
    BY <2>1, <2>2 DEF Inert, windsUp
<1> QED
  BY <1>1, <1>2

\* and nothing is reported after it
LEMMA ReportStands ==
    ASSUME TypeOKActivity, IdleInv, ConclusionInv, [NextActivity]_allVars, reported \in FinalStatus, activity' = activity
    PROVE  reported' = reported
<1>1. TypeOK /\ [Next]_vars /\ activity \in Nat
  BY StepOfOrchestrator DEF TypeOKActivity, TypeOK
<1>2. pc \in {"dispose", "idle"} /\ ReportedInv
  BY DEF ConclusionInv, ReportedInv
<1>3. activity' # activity + 1
  BY <1>1
<1>4. ~(todo # <<>> /\ Head(todo).op = "notify")
  <2>1. ASSUME todo # <<>>, Head(todo).op = "notify"
        PROVE  FALSE
    <3>1. pc = "dispose"
      BY <1>2, <2>1 DEF IdleInv
    <3>2. \A i \in DOMAIN todo : todo[i].op # "notify"
      BY <3>1 DEF ConclusionInv, FinalInv, over
    <3> QED
      BY <1>1, <2>1, <3>2, FirstTodo
  <2> QED
    BY <2>1
<1> QED
  BY <1>1, <1>2, <1>3, <1>4, ReportedStep

\* Once the operation has told Apply to end, on an error, as done or because there is nothing to
\* do, nothing of the activity is under way any more, and its status is final (ConclusionInv).
\* Holds while no timer of apply fires, the process goes on and no publish fails, the owner is
\* not asked about ACTIVATE, and no goroutine of an earlier activity waits for operationLock.
THEOREM ConclusionInvariant ==
    ASSUME "publish" \notin Faults, Unhurried
    PROVE  SpecActivity /\ []Undisturbed => []ConclusionInv
<1>1. InitActivity => ConclusionInv /\ ~terminated
  BY InitConclusion
<1>2. TypeOKActivity /\ TypeOKActivity' /\ BarrierInv /\ LifecycleInv /\ OrderInv /\ OutcomeInv /\ Undisturbed
      /\ ~terminated /\ ConclusionInv /\ [NextActivity]_allVars => ConclusionInv'
  BY ConclusionStep DEF steady
<1>3. ~terminated /\ [NextActivity]_allVars => ~terminated'
  BY NotTerminated, StepOfOrchestrator DEF Unhurried
<1>4. SpecActivity => []BarrierInv /\ []LifecycleInv
  BY ActivityIsOrchestrator, BarrierInvariant, LifecycleInvariant, PTL
<1> QED
  BY <1>1, <1>2, <1>3, <1>4, ActivityTypeCorrect, OrderInvariant, OutcomeInvariant, PTL DEF SpecActivity

\* The final feedback of an activity carries a final status (Apply, update_orchestrator.go:62-74):
\* whoever signals the end of apply has set the status before, and nobody sets it back to RUNNING.
THEOREM FinalFeedbackIsFinalHolds ==
    ASSUME "publish" \notin Faults, Unhurried
    PROVE  SpecActivity /\ []Undisturbed => []FinalFeedbackIsFinal
<1> QED
  BY ConclusionFacts, ConclusionInvariant, PTL

\* No agent is commanded anything after the final feedback (handleCommandSignal takes operationLock
\* at any time): when apply is told to end every domain has finished or was never asked for anything.
THEOREM CommandsOverHolds ==
    ASSUME "publish" \notin Faults, Unhurried
    PROVE  SpecActivity /\ []Undisturbed => []CommandsOver
<1> QED
  BY ConclusionFacts, ConclusionInvariant, PTL

\* The final feedback is the last of its activity: the handlers that report RUNNING without looking
\* at apply (update_orchestrator_feedback.go) have nothing left to report by then.
THEOREM ReportsOverHolds ==
    ASSUME "publish" \notin Faults, Unhurried
    PROVE  SpecActivity /\ []Undisturbed => ReportsOver
<1>1. TypeOKActivity /\ OrderInv /\ ConclusionInv /\ [NextActivity]_allVars
      => [(reported \in FinalStatus /\ activity' = activity) => (reported' = reported)]_allVars
  BY ReportStands DEF OrderInv
<1> QED
  BY <1>1, ActivityTypeCorrect, OrderInvariant, ConclusionInvariant, PTL DEF SpecActivity, ReportsOver

\* The rollback that may follow a timeout (apply.go:77 and 165) is the only command after the final
\* feedback, and without that timeout there is none.
COROLLARY NoCommandAfterFinalHolds ==
    ASSUME "publish" \notin Faults, Unhurried
    PROVE  SpecActivity /\ []Undisturbed => []NoCommandAfterFinal
<1>1. CommandsOver => NoCommandAfterFinal
  BY DEF CommandsOver, NoCommandAfterFinal
<1> QED
  BY <1>1, CommandsOverHolds, PTL

\* So is the INCOMPLETE of that timeout the only final feedback that may not be the last.
COROLLARY FinalReportStandsHolds ==
    ASSUME "publish" \notin Faults, Unhurried
    PROVE  SpecActivity /\ []Undisturbed => FinalReportStands /\ CompletedStands
<1>1. /\ [(reported \in FinalStatus /\ activity' = activity) => (reported' = reported)]_allVars
      => [(/\ reported \in FinalStatus
           /\ reported = "INCOMPLETE" => ~underWay
           /\ activity' = activity) => (reported' = reported)]_allVars
  OBVIOUS
<1>2. /\ [(reported \in FinalStatus /\ activity' = activity) => (reported' = reported)]_allVars
      => [(reported = "COMPLETED" /\ activity' = activity) => (reported' = reported)]_allVars
  BY DEF FinalStatus
<1> QED
  BY <1>1, <1>2, ReportsOverHolds, PTL DEF ReportsOver, FinalReportStands, CompletedStands

\* In the first activity of a process nothing is left over: it concludes that way whatever agents
\* and owner do.
THEOREM FirstActivityConcludes ==
    ASSUME "publish" \notin Faults, Unhurried
    PROVE  SpecActivity /\ [](activity <= 1)
             => [](FinalFeedbackIsFinal /\ CommandsOver) /\ ReportsOver
<1> QED
  BY FinalFeedbackIsFinalHolds, CommandsOverHolds, ReportsOverHolds, FirstActivityUndisturbed, PTL

-----------------------------------------------------------------------------
(* What becomes of a refusal *)

\* what the lock holder has to do waits for it, or for the owner
LEMMA WorkKept ==
    ASSUME proceeds
    PROVE  UNCHANGED todo \/ holderActs \/ (\E d \in Domains : CommandDomain(d)) \/ questionEnds \/ todo = <<>>
<1>1. CASE rests
  BY <1>1 DEF rests
<1>2. CASE applies
  BY <1>2 DEF applies, ApplyWork, Identify, PhaseTimeout, Wait, ErrorSignalled, RollbackSignalled, Signalled,
              ContextDone, ReturnReboot, ReportFinal, applyUnchanged
<1>3. CASE \E h \in handlers : HandlerStep(h) /\ HandleCommandSignal(h)
  BY <1>3, HandlerKinds
<1>4. CASE \E d \in Domains : handled(d) /\ (changes(d) \/ progresses(d))
  BY <1>4 DEF handled
<1> QED
  BY <1>1, <1>2, <1>3, <1>4, StepsOfActivity

\* only a report or a refusal makes an activity fail, ...
LEMMA DelayedKinds ==
    ASSUME proceeds
    PROVE  \/ UNCHANGED delayedStatus
           \/ \E c \in Phases : refuses(c)
           \/ \E d \in Domains : handled(d) /\ changes(d)
<1>1. CASE rests
  BY <1>1 DEF rests
<1>2. CASE applies
  BY <1>2 DEF applies, ApplyWork, Identify, PhaseTimeout, Wait, ErrorSignalled, RollbackSignalled, Signalled,
              ContextDone, ReturnReboot, ReportFinal, applyUnchanged, opVars
<1>3. CASE \E h \in handlers : HandlerStep(h) /\ HandleCommandSignal(h)
  BY <1>3, HandlerKinds DEF issuesNow, asksOwner
<1>4. CASE questionEnds
  BY <1>4, QuestionKinds DEF issuesNow
<1>5. CASE holderActs
  BY <1>5 DEF holderActs, NotifyFeedback, UpdateStatus, SendSignal, holderUnchanged
<1>6. CASE \E d \in Domains : CommandStep(d) /\ CommandDomain(d)
  BY <1>6 DEF CommandDomain, holderUnchanged
<1>7. CASE \E d \in Domains : handled(d) /\ (changes(d) \/ progresses(d))
  BY <1>7 DEF progresses
<1> QED
  BY <1>1, <1>2, <1>3, <1>4, <1>5, <1>6, <1>7, StepsOfActivity

\* ... and what failed is not made good
LEMMA FailureKept ==
    ASSUME proceeds, intact'
    PROVE  intact
<1>1. TypeOKActivity /\ ProgressInv /\ SentInv /\ [NextActivity]_allVars /\ activity' = activity /\ pc' # "idle"
  BY SteadyFacts
<1>2. ASSUME NEW d \in Domains, NEW s \in FeedbackStatus, reports(d, s)
      PROVE  intact
  BY <1>2, ReportFacts
<1> QED
  BY <1>1, <1>2, DomainsStep

\* an activity of which something failed does not complete
CompleteInv == status = "COMPLETED" \/ toComplete => intact

LEMMA CompleteStep ==
    ASSUME proceeds, OfferInv, CompleteInv
    PROVE  CompleteInv'
<1>1. /\ TypeOKActivity /\ TypeOK /\ FinishInv /\ IntactInv /\ [NextActivity]_allVars
      /\ activity' = activity /\ pc # "idle"
  BY SteadyFacts
<1>2. ASSUME status = "COMPLETED" \/ toComplete
      PROVE  intact'
  <2>1. intact /\ ~Some(domains, DomainStatus \ Finished)
    BY <1>1, <1>2 DEF CompleteInv, FinishInv, closed
  <2>2. \A d \in DOMAIN domains : domains[d] \in Finished
    BY <1>1, <2>1 DEF Some, TypeOK
  <2>3. ASSUME NEW c \in Phases, refuses(c)
        PROVE  FALSE
    <3>1. Some(domains, from(c))
      BY <2>3 DEF refuses, OfferInv, offered
    <3> QED
      BY <2>2, <3>1, BegunStatuses DEF Some
  <2>4. ASSUME NEW d \in Domains, handled(d), changes(d), delayedStatus' # delayedStatus
        PROVE  FALSE
    <3>1. domains[d] \in Finished
      BY <2>2, <2>4 DEF handled
    <3>2. \A c \in Failable : ~fails(c, d)
      BY <3>1, FailureStatuses DEF fails
    <3>3. ~finishes(d)
      BY <3>1 DEF finishes
    <3> QED
      BY <2>4, <3>2, <3>3 DEF changes, identifies, succeeds, rollsBack
  <2> QED
    BY <2>1, <2>3, <2>4, DelayedKinds DEF intact
<1>3. ASSUME toComplete', ~toComplete
      PROVE  intact'
  <2>1. PICK i \in DOMAIN todo' : todo'[i] = SetStatus("COMPLETED")
    BY <1>3 DEF toComplete
  <2>2. ASSUME NEW d \in Domains, findsNothing(d)
        PROVE  intact'
    <3>1. identifying /\ UNCHANGED delayedStatus
      BY <2>2 DEF findsNothing, allIdentified, identifies
    <3> QED
      BY <1>1, <3>1 DEF IntactInv, reached, intact
  <2>3. ~UNCHANGED todo
    BY <1>3, <2>1 DEF toComplete
  <2>4. ~(i + 1 \in DOMAIN todo /\ todo[i + 1] = SetStatus("COMPLETED"))
    BY <1>3 DEF toComplete
  <2>5. "COMPLETED" = (IF intact' THEN "COMPLETED" ELSE "INCOMPLETE") => intact'
    OBVIOUS
  <2>6. "COMPLETED" # "RUNNING" /\ "COMPLETED" # "IDENTIFICATION_FAILED" /\ "COMPLETED" # "INCOMPLETE"
    OBVIOUS
  <2> QED
    BY <2>1, <2>2, <2>3, <2>4, <2>5, <2>6, SetKinds
<1> QED
  BY <1>1, <1>2, <1>3, StatusStep DEF CompleteInv

\* The owner refused the first command: the activity ends INCOMPLETE.
declined ==
    /\ Inert /\ reached("DOWNLOAD")
    /\ \A s : sets(s) => s = "INCOMPLETE"
    /\ status = "INCOMPLETE" \/ (sets("INCOMPLETE") /\ ~conveyed /\ ~over)

LEMMA DeclinedNow ==
    ASSUME proceeds, LevelInv, CleanInv, OfferInv, BackInv, FirstInv, InertInv, refuses("DOWNLOAD")
    PROVE  declined'
<1>1. "DOWNLOAD" \in Phases /\ CarriedInv /\ pc # "idle"
  BY SteadyFacts DEF Phases
<1>2. Inert'
  BY RefusalConcludes
<1>3. consulted("DOWNLOAD") /\ onlyTodo
  BY DEF refuses
<1>4. reached("DOWNLOAD")'
  BY <1>1, <1>3, InvolvedReached DEF CarriedInv, carried
<1>5. ~over' /\ ~conveyed'
  <2>1. ~concluding /\ ~over
    BY <1>1, <1>3 DEF InertInv, Inert, offered
  <2>2. {"err", "done", "DOWNLOAD"} \subseteq Channels \ {"consent"}
    BY PhaseNames
  <2>3. pc' = pc /\ chan'["err"] = chan["err"] /\ chan'["done"] = chan["done"] /\ chan'["DOWNLOAD"] = chan["DOWNLOAD"]
    BY <1>3, <2>2 DEF onlyTodo
  <2> QED
    BY <2>1, <2>3 DEF over, conveyed, concluding, signals
<1>6. todo' = <<SetStatus("INCOMPLETE"), Send("err", "true")>>
  BY <1>1, RefusedTodo
<1>7. sets("INCOMPLETE")'
  <2>1. 1 \in DOMAIN todo' /\ todo'[1] = SetStatus("INCOMPLETE")
    BY <1>6
  <2> QED
    BY <2>1 DEF sets
<1>8. ASSUME NEW s, sets(s)'
      PROVE  s = "INCOMPLETE"
  <2>1. PICK i \in DOMAIN todo' : todo'[i] = SetStatus(s)
    BY <1>8 DEF sets
  <2>2. todo'[i] = SetStatus("INCOMPLETE") \/ todo'[i] = Send("err", "true")
    BY <1>6, PairEntries
  <2> QED
    BY <2>1, <2>2, EffectFields
<1> QED
  BY <1>2, <1>4, <1>5, <1>7, <1>8 DEF declined

LEMMA DeclinedKept ==
    ASSUME proceeds, Unhurried, ~terminated, LevelInv, WorthInv, LateInv, EndInv, declined
    PROVE  declined'
<1>1. Inert /\ Inert' /\ reached("DOWNLOAD") /\ reached("DOWNLOAD")' /\ ~identifying
  BY InertKept, InvolvedReached DEF declined
<1>2. \A d \in Domains : ~(handled(d) /\ changes(d))
  BY <1>1, InertReport
<1>3. ASSUME NEW s, sets(s)'
      PROVE  s = "INCOMPLETE"
  <2>1. PICK i \in DOMAIN todo' : todo'[i] = SetStatus(s)
    BY <1>3 DEF sets
  <2>2. \A d \in Domains : ~offersDownload(d) /\ ~findsNothing(d) /\ ~givesUp(d) /\ ~allDone(d)
    BY <1>2 DEF offersDownload, findsNothing, givesUp, allDone, allIdentified
  <2>3. sets(s) => s = "INCOMPLETE"
    BY DEF declined
  <2>4. UNCHANGED todo => sets(s)
    BY <2>1 DEF sets
  <2>5. i + 1 \in DOMAIN todo /\ todo[i + 1] = SetStatus(s) => sets(s)
    BY DEF sets
  <2> QED
    BY <2>1, <2>2, <2>3, <2>4, <2>5, SetKinds
<1>4. CASE status = "INCOMPLETE"
  <2>1. ~("phaseTimeout" \in Faults \/ (terminated /\ status' = "INCOMPLETE"))
    BY DEF Unhurried
  <2>2. 1 \in DOMAIN todo /\ todo[1] = SetStatus(status') => status' = "INCOMPLETE"
    BY DEF declined, sets
  <2>3. status' = "INCOMPLETE"
    BY <1>4, <2>1, <2>2, StatusKinds
  <2> QED
    BY <1>1, <1>3, <2>3 DEF declined
<1>5. CASE sets("INCOMPLETE") /\ ~conveyed /\ ~over
  <2>1. ~over' /\ ~conveyed'
    BY <1>5, OverStep, ConveyStep
  <2>2. PICK i \in DOMAIN todo : todo[i] = SetStatus("INCOMPLETE")
    BY <1>5 DEF sets
  <2>3. CASE UNCHANGED todo
    BY <1>1, <1>3, <1>5, <2>1, <2>3 DEF declined, sets
  <2>4. CASE holderActs \/ \E d \in Domains : CommandDomain(d)
    <3>1. 1 \in DOMAIN todo /\ todo # <<>> /\ TypeOK /\ todo \in Seq(Effect)
      BY <2>4, HolderTodo, SteadyFacts DEF TypeOK
    <3>2. CASE i = 1
      <4>1. status' = "INCOMPLETE"
        BY <2>2, <2>4, <3>1, <3>2, HolderSets
      <4> QED
        BY <1>1, <1>3, <4>1 DEF declined
    <3>3. CASE i # 1
      <4>1. todo' = Tail(todo)
        BY <2>2, <2>4, <3>3, HolderTodo
      <4>2. i - 1 \in DOMAIN todo' /\ todo'[i - 1] = todo[i]
        <5>1. DOMAIN todo = 1..Len(todo) /\ Len(todo) \in Nat
          BY <3>1, LenProperties
        <5>2. Len(todo') = Len(todo) - 1 /\ DOMAIN todo' = 1..Len(todo')
          BY <3>1, <4>1, HeadTailProperties, LenProperties
        <5>3. i - 1 \in DOMAIN todo'
          BY <3>3, <5>1, <5>2
        <5>4. todo'[i - 1] = todo[(i - 1) + 1]
          BY <3>1, <4>1, <5>3, HeadIsFirst
        <5>5. (i - 1) + 1 = i
          BY <5>1
        <5> QED
          BY <5>3, <5>4, <5>5
      <4>3. sets("INCOMPLETE")'
        BY <2>2, <4>2 DEF sets
      <4> QED
        BY <1>1, <1>3, <2>1, <4>3 DEF declined
    <3> QED
      BY <3>2, <3>3
  <2>5. ~questionEnds
    <3>1. ASSUME NEW c \in Phases, \A j \in DOMAIN todo : todo[j].op = "consent"
          PROVE  FALSE
      BY <2>2, <3>1, EffectFields
    <3> QED
      BY <3>1, QuestionKinds
  <2>6. todo # <<>>
    BY <2>2
  <2> QED
    BY <2>3, <2>4, <2>5, <2>6, WorkKept
<1> QED
  BY <1>4, <1>5 DEF declined

\* What the owner refused is still being asked, or has made the activity fail.
RefusedInv == \A c \in Phases : isAsked(c) \/ c \in refused => consulted(c) \/ ~intact \/ declined

\* the owner's consent is the only thing waited for
LEMMA QuestionAlone ==
    ASSUME proceeds, NEW c, consulted(c), holderActs \/ (\E d \in Domains : CommandDomain(d))
    PROVE  FALSE
<1>1. LastInv /\ Head(todo) = todo[1] /\ 1 \in DOMAIN todo /\ todo \in Seq(Effect)
  BY HolderTodo, SteadyFacts DEF TypeOK
<1>2. PICK i \in DOMAIN todo : todo[i].op = "consent"
  BY DEF consulted
<1>3. i = 1
  <2>1. Len(todo) = 1
    BY <1>1, <1>2 DEF LastInv
  <2>2. DOMAIN todo = 1..Len(todo)
    BY <1>1, LenProperties
  <2> QED
    BY <1>2, <2>1, <2>2
<1>4. Head(todo).op \in {"notify", "setStatus", "send", "command"}
  BY DEF holderActs, NotifyFeedback, UpdateStatus, SendSignal, CommandDomain
<1> QED
  BY <1>1, <1>2, <1>3, <1>4

\* a question is answered with what the owner said, or not at all
LEMMA RefusedQuestion ==
    ASSUME proceeds, Undisrupted, NEW c \in Phases, isAsked(c) \/ c \in refused, consulted(c)
    PROVE  consulted(c)' \/ refuses(c)
<1>1. ~issuesNow(c)
  <2>1. ASSUME issuesNow(c)
        PROVE  FALSE
    <3>1. c \in Commands /\ AnswerInv
      BY ConsentFacts
    <3>2. c \in OwnerConsentCommands
      BY <3>1 DEF AnswerInv, broughtUp
    <3>3. c \in granted
      BY <2>1, <3>2, LatestAnswer DEF issuesNow
    <3> QED
      BY <3>1, <3>3 DEF AnswerInv
  <2> QED
    BY <2>1
<1>2. PICK i \in DOMAIN todo : todo[i].op = "consent" /\ todo[i].command = c
  BY DEF consulted
<1>3. questionEnds => refuses(c)
  BY <1>1, <1>2, QuestionKinds
<1>4. UNCHANGED todo => consulted(c)'
  BY <1>2 DEF consulted
<1> QED
  BY <1>2, <1>3, <1>4, WorkKept, QuestionAlone

LEMMA RefusedStep ==
    ASSUME proceeds, goingOn, Unhurried, ~terminated, LevelInv, CleanInv, OfferInv, BackInv, FirstInv,
           WorthInv, LateInv, InertInv, EndInv, RefusedInv
    PROVE  RefusedInv'
<1> SUFFICES ASSUME NEW c \in Phases, isAsked(c)' \/ c \in refused'
             PROVE  consulted(c)' \/ ~intact' \/ declined'
  BY DEF RefusedInv
<1>1. TypeOKActivity /\ [NextActivity]_allVars /\ activity' = activity
  BY SteadyFacts
<1>2. isAsked(c) \/ c \in refused \/ asking(c)
  <2>1. c \in refused' => c \in refused \/ isAsked(c)
    BY <1>1, BroughtUpStep
  <2>2. ASSUME NEW r \in asked', r.command = c, r.activity = activity'
        PROVE  isAsked(c) \/ asking(c)
    BY <1>1, <2>2, AskedStep DEF isAsked, asking
  <2> QED
    BY <2>1, <2>2 DEF isAsked
<1>3. CASE asking(c)
  <2>1. PICK h \in handlers : HandleCommandSignal(h) /\ h.command = c /\ c \in OwnerConsentCommands
    BY <1>3 DEF asking, HandlerStep
  <2>2. pc # "idle" /\ "publish" \notin Faults
    BY SteadyFacts
  <2>3. todo' = <<AwaitConsent(c, h.spawnedIn)>>
    BY <2>1, <2>2 DEF HandleCommandSignal
  <2>4. 1 \in DOMAIN todo' /\ todo'[1] = AwaitConsent(c, h.spawnedIn)
    BY <2>3
  <2> QED
    BY <2>4 DEF consulted, AwaitConsent
<1>4. CASE isAsked(c) \/ c \in refused
  <2>1. intact' => intact
    BY FailureKept
  <2>2. declined => declined'
    BY DeclinedKept
  <2>3. ASSUME consulted(c)
        PROVE  consulted(c)' \/ ~intact' \/ declined'
    <3>1. CASE refuses(c) /\ c = "DOWNLOAD"
      BY <3>1, DeclinedNow
    <3>2. CASE refuses(c) /\ c # "DOWNLOAD"
      BY <3>2, RefusedTodo DEF intact
    <3> QED
      BY <1>4, <2>3, <3>1, <3>2, RefusedQuestion DEF goingOn
  <2> QED
    BY <1>4, <2>1, <2>2, <2>3 DEF RefusedInv
<1> QED
  BY <1>2, <1>3, <1>4

RefusalInv == pc # "idle" => RefusedInv /\ CompleteInv

LEMMA StartRefusal ==
    ASSUME TypeOKActivity, BarrierInv, AgeInv, Start
    PROVE  RefusedInv' /\ CompleteInv'
<1>1. refused' = {} /\ delayedStatus' = ""
  BY StartFacts
<1>2. ASSUME NEW c \in Phases
      PROVE  ~isAsked(c)'
  <2>1. asked' = asked /\ activity' = activity + 1 /\ activity \in Nat
    BY DEF Start, SetupUpdateOperation, TypeOKActivity, TypeOK
  <2>2. \A r \in asked : r.activity \in Nat /\ r.activity <= activity
    BY DEF AgeInv, TypeOKActivity
  <2> QED
    BY <2>1, <2>2 DEF isAsked
<1> QED
  BY <1>1, <1>2 DEF RefusedInv, CompleteInv, intact

LEMMA RefusalStep ==
    ASSUME steady, ConsentInv, Unhurried, ~terminated, ConclusionInv, RefusalInv,
           TypeOKActivity', [NextActivity]_allVars
    PROVE  RefusalInv'
<1>1. TypeOKActivity /\ BarrierInv /\ LifecycleInv /\ AgeInv /\ Undisturbed
  BY DEF steady, OrderInv
<1>2. CASE Start
  BY <1>1, <1>2, StartRefusal DEF RefusalInv
<1>3. CASE activity' = activity /\ (pc = "idle" => pc' = "idle")
  <2>1. ASSUME pc' # "idle"
        PROVE  RefusedInv' /\ CompleteInv'
    <3>1. proceeds /\ goingOn
      BY <1>1, <1>3, <2>1 DEF proceeds, goingOn, Undisrupted
    <3>2. /\ LevelInv /\ CleanInv /\ OfferInv /\ BackInv /\ FirstInv
          /\ WorthInv /\ LateInv /\ InertInv /\ EndInv /\ FinalInv /\ RefusedInv /\ CompleteInv
      BY <1>3, <2>1 DEF ConclusionInv, RefusalInv
    <3> QED
      BY <3>1, <3>2, RefusedStep, CompleteStep
  <2> QED
    BY <2>1 DEF RefusalInv
<1> QED
  BY <1>1, <1>2, <1>3, NewActivity

\* at the end nothing is asked any more
LEMMA RefusalFacts ==
    ASSUME steady, ConsentInv, ConclusionInv, RefusalInv
    PROVE  RefusalRollsBack
<1> SUFFICES ASSUME pc = "report", NEW c \in refused
             PROVE  status = "INCOMPLETE" /\ ~Some(domains, {"DOWNLOAD_SUCCESS", "UPDATE_SUCCESS"})
  BY DEF RefusalRollsBack
<1>1. Inert /\ status \in FinalStatus /\ RefusedInv /\ CompleteInv /\ IntactInv /\ over
  BY DEF over, ConclusionInv, InertInv, FinalInv, RefusalInv, steady, OutcomeInv
<1>2. c \in Phases
  <2>1. Undisrupted /\ c \in Commands
    BY DEF Undisrupted, steady, TypeOKActivity
  <2> QED
    BY <2>1, ConsentFacts DEF broughtUp
<1>3. ~Some(domains, {"DOWNLOAD_SUCCESS", "UPDATE_SUCCESS"})
  BY <1>1 DEF Inert, spent, Some, Finished
<1>4. ~intact \/ declined
  BY <1>1, <1>2 DEF RefusedInv, Inert, offered
<1>5. CASE declined
  BY <1>1, <1>3, <1>5 DEF declined
<1>6. CASE ~intact
  <2>1. status # "COMPLETED"
    BY <1>1, <1>6 DEF CompleteInv
  <2>2. ~identifying
    BY <1>1, <1>6 DEF IntactInv, reached
  <2> QED
    BY <1>1, <1>3, <2>1, <2>2 DEF FinalStatus, identifying, IdentificationStatus
<1> QED
  BY <1>4, <1>5, <1>6

\* What the owner refused makes the activity fail, whatever its domains report afterwards.
\* Each answer is taken for the question it was given to, as in ConsentInvariant.
THEOREM RefusalInvariant ==
    ASSUME "publish" \notin Faults, Unhurried, Once \/ Single
    PROVE  SpecActivity /\ []Undisturbed => []RefusalInv
<1>1. InitActivity => RefusalInv
  BY DEF InitActivity, Init, RefusalInv
<1>2. TypeOKActivity /\ TypeOKActivity' /\ BarrierInv /\ LifecycleInv /\ OrderInv /\ OutcomeInv /\ ConsentInv
      /\ Undisturbed /\ ~terminated /\ ConclusionInv /\ RefusalInv /\ [NextActivity]_allVars => RefusalInv'
  BY RefusalStep DEF steady
<1>3. InitActivity => ~terminated
  BY InitConclusion
<1>4. ~terminated /\ [NextActivity]_allVars => ~terminated'
  BY NotTerminated, StepOfOrchestrator DEF Unhurried
<1>5. SpecActivity => []BarrierInv /\ []LifecycleInv
  BY ActivityIsOrchestrator, BarrierInvariant, LifecycleInvariant, PTL
<1> QED
  BY <1>1, <1>2, <1>3, <1>4, <1>5, ActivityTypeCorrect, OrderInvariant, OutcomeInvariant, ConsentInvariant,
     ConclusionInvariant, PTL DEF SpecActivity

\* An activity the owner refused ends INCOMPLETE, and no domain is left with an update downloaded
\* or installed (handleCommandSignal and getOwnerConsent, update_orchestrator_apply.go:114-160): the
\* rollback and the cleanup that follow a refusal are over before the final feedback is reported.
THEOREM RefusalRollsBackHolds ==
    ASSUME "publish" \notin Faults, Unhurried, Once \/ Single
    PROVE  SpecActivity /\ []Undisturbed => []RefusalRollsBack
<1>1. TypeOKActivity /\ BarrierInv /\ LifecycleInv /\ OrderInv /\ OutcomeInv /\ ConsentInv
      /\ Undisturbed /\ ConclusionInv /\ RefusalInv => RefusalRollsBack
  BY RefusalFacts DEF steady
<1>2. SpecActivity => []BarrierInv /\ []LifecycleInv
  BY ActivityIsOrchestrator, BarrierInvariant, LifecycleInvariant, PTL
<1> QED
  BY <1>1, <1>2, ActivityTypeCorrect, OrderInvariant, OutcomeInvariant, ConsentInvariant,
     ConclusionInvariant, RefusalInvariant, PTL

\* That holds of every refusal as no timer ends the activity before it is heard, and with it of
\* the refusals that were heard.
COROLLARY HeardRefusalRollsBackHolds ==
    ASSUME "publish" \notin Faults, Unhurried, Once \/ Single
    PROVE  SpecActivity /\ []Undisturbed => []HeardRefusalRollsBack
<1>1. RefusalRollsBack => HeardRefusalRollsBack
  BY DEF HeardRefusalRollsBack
<1> QED
  BY <1>1, RefusalRollsBackHolds, PTL

\* Nothing is left over in the first activity of a process: a refusal of it leads back.
THEOREM FirstActivityRollsBack ==
    ASSUME "publish" \notin Faults, Unhurried, Once \/ Single
    PROVE  SpecActivity /\ [](activity <= 1) => []RefusalRollsBack
<1> QED
  BY RefusalRollsBackHolds, FirstActivityUndisturbed, PTL

-----------------------------------------------------------------------------
(* The overall result of a domain *)

\* an agent reports to its own queue
HomeInv == \A d \in Domains : \A i \in DOMAIN feedback[d] : feedback[d][i].domain = d

\* the result of a cleanup, and the overall result
cleaned(m, a) == m.status \in Finished /\ m.activity = a
overall(m, a) == m.status \in {"COMPLETED", "INCOMPLETE"} /\ m.activity = a
hasFinished(d) == d \in DOMAIN domains /\ domains[d] \in Finished
cleanedInHand(d) == \E i \in DOMAIN inHand : inHand[i] \in Report /\ inHand[i].domain = d /\ cleaned(inHand[i], activity)

\* an overall result comes after the result of the cleanup, so it finds its domain finished
SequelInv ==
    /\ \A d \in Domains : \A i \in DOMAIN feedback[d] : overall(feedback[d][i], activity) =>
         IF i = 1 THEN hasFinished(d) \/ cleanedInHand(d) ELSE cleaned(feedback[d][i - 1], activity)
    /\ \A d \in Domains : \A i \in DOMAIN inHand :
         inHand[i] \in Report /\ inHand[i].domain = d /\ overall(inHand[i], activity) => hasFinished(d)

\* what happens to reports
LEMMA RouterKinds ==
    ASSUME TypeOKActivity, [NextActivity]_allVars
    PROVE  \/ UNCHANGED <<feedback, inHand>>
           \/ Deliver /\ UNCHANGED feedback /\ inHand' = <<>>
           \/ \E d \in Domains : TakeFeedback(d)
           \/ TakeConsent
           \/ \E d \in Domains : AgentAnswers(d)
<1>1. CASE \/ Start \/ ApplyStep \/ HoldLockStep \/ Timeout \/ ConsentTimeout
           \/ TerminateStep \/ \E h \in handlers : HandlerStep(h)
  BY <1>1 DEF Start, ApplyStep, HoldLockStep, Timeout, ConsentTimeout, TerminateStep, HandlerStep, envVars
<1>2. CASE \/ \E approved \in BOOLEAN : OwnerAnswers(approved)
           \/ \E d \in Domains : \/ DesiredState(d) \/ DesiredStateFailed(d)
                                 \/ CommandStep(d) \/ CommandStepFailed(d)
           \/ UNCHANGED allVars
  BY <1>2 DEF OwnerAnswers, DesiredState, DesiredStateFailed, CommandStep, CommandStepFailed, allVars, envVars
<1>3. CASE Deliver
  BY <1>3 DEF Deliver
<1> QED
  BY <1>1, <1>2, <1>3 DEF NextActivity, Untimed

\* the entry of t at i, and the one before it, are those of q or those of r
placed(t, i, q, r) ==
    \/ i \in DOMAIN q /\ t[i] = q[i] /\ (i # 1 => i - 1 \in DOMAIN q /\ t[i - 1] = q[i - 1])
    \/ \E k \in DOMAIN r :
         t[i] = r[k] /\ (k # 1 => i # 1 /\ k - 1 \in DOMAIN r /\ t[i - 1] = r[k - 1])

LEMMA ConcatPositions ==
    ASSUME NEW q \in Seq(Report), NEW r \in Seq(Report), NEW t, t = q \o r
    PROVE  \A i \in DOMAIN t : placed(t, i, q, r)
<1> SUFFICES ASSUME NEW i \in DOMAIN t
             PROVE  \/ i \in DOMAIN q /\ t[i] = q[i] /\ (i # 1 => i - 1 \in DOMAIN q /\ t[i - 1] = q[i - 1])
                    \/ \E k \in DOMAIN r :
                         t[i] = r[k] /\ (k # 1 => i # 1 /\ k - 1 \in DOMAIN r /\ t[i - 1] = r[k - 1])
  BY DEF placed
<1>1. Len(q) \in Nat /\ Len(r) \in Nat /\ DOMAIN q = 1..Len(q) /\ DOMAIN r = 1..Len(r)
      /\ DOMAIN t = 1..(Len(q) + Len(r))
  BY LenProperties
<1>2. \A j \in 1..Len(q) : t[j] = q[j]
  OBVIOUS
<1>3. \A k \in 1..Len(r) : t[Len(q) + k] = r[k]
  OBVIOUS
<1>4. CASE i <= Len(q)
  <2>1. i \in DOMAIN q /\ (i # 1 => i - 1 \in DOMAIN q)
    BY <1>1, <1>4
  <2> QED
    BY <1>1, <1>2, <2>1
<1>5. CASE i > Len(q)
  <2> DEFINE k == i - Len(q)
  <2>1. k \in DOMAIN r /\ i = Len(q) + k
    BY <1>1, <1>5
  <2>2. k # 1 => i # 1 /\ k - 1 \in DOMAIN r /\ i - 1 = Len(q) + (k - 1)
    BY <1>1, <1>5
  <2>3. t[Len(q) + k] = r[k]
    BY <1>1, <1>3, <2>1
  <2>4. k # 1 => t[Len(q) + (k - 1)] = r[k - 1]
    BY <1>1, <1>3, <2>2
  <2> QED
    BY <2>1, <2>2, <2>3, <2>4
<1>6. i <= Len(q) \/ i > Len(q)
  BY <1>1
<1> QED
  BY <1>4, <1>5, <1>6

\* what an agent adds to its queue
LEMMA AnswersAppended ==
    ASSUME TypeOKActivity, NEW d \in Domains, AgentAnswers(d)
    PROVE  \E answer \in Seq(Report) :
             /\ feedback' = [feedback EXCEPT ![d] = @ \o answer]
             /\ \A k \in DOMAIN answer :
                  /\ answer[k].domain = d
                  /\ overall(answer[k], activity) => k # 1 /\ k - 1 \in DOMAIN answer /\ cleaned(answer[k - 1], activity)
                  /\ identification(answer[k], activity) => DOMAIN answer = {1} /\ asks("identify", d)
<1>1. PICK result \in Results(Head(requests[d]).job), hasActions \in BOOLEAN :
        feedback' = [feedback EXCEPT ![d] = @ \o [k \in DOMAIN result |->
                       [domain |-> d, status |-> result[k], hasActions |-> hasActions,
                        activity |-> Head(requests[d]).activity]]]
  BY Zenon DEF AgentAnswers
<1>2. Head(requests[d]) \in Request
  BY HeadAndTail DEF AgentAnswers, TypeOKActivity, Request
<1>3. result \in Seq(FeedbackStatus)
  BY <1>1, <1>2, ResultsTyped DEF Request
<1> DEFINE report(s) == [domain |-> d, status |-> s, hasActions |-> hasActions,
                         activity |-> Head(requests[d]).activity]
           answer == [k \in DOMAIN result |-> report(result[k])]
<1>4. answer \in Seq(Report)
  <2>1. \A s \in FeedbackStatus : report(s) \in Report
    BY <1>2 DEF Report, Request
  <2> QED
    BY <1>3, <2>1
<1>5. \A k \in DOMAIN answer : /\ k \in DOMAIN result /\ answer[k].status = result[k] /\ answer[k].domain = d
                               /\ answer[k].activity = Head(requests[d]).activity
  OBVIOUS
<1>6. DOMAIN answer = DOMAIN result
  OBVIOUS
<1>7. ASSUME NEW k \in DOMAIN result, result[k] \in {"COMPLETED", "INCOMPLETE"}
      PROVE  k # 1 /\ k - 1 \in DOMAIN result /\ result[k - 1] \in Finished
  <2>1. Head(requests[d]).job \in AllCommands \cup {"identify"}
    BY <1>2 DEF Request
  <2>2. \E r \in Finished, f \in {"COMPLETED", "INCOMPLETE"} : result = <<"CLEANUP", r, f>>
    <3>1. result[k] \in replies("CLEANUP") /\ "CLEANUP" \in AllCommands
      BY <1>7 DEF replies, AllCommands, Commands
    <3>2. Head(requests[d]).job = "CLEANUP"
      BY <1>1, <1>7, <2>1, <3>1, ResultsReply
    <3> QED
      BY <1>1, <3>2 DEF Results
  <2> QED
    BY <1>7, <2>2 DEF Finished
<1>8. \A k \in DOMAIN answer : overall(answer[k], activity) => k # 1 /\ k - 1 \in DOMAIN answer /\ cleaned(answer[k - 1], activity)
  BY <1>5, <1>6, <1>7 DEF overall, cleaned
<1>9. ASSUME NEW k \in DOMAIN result, result[k] \in replies("identify"), Head(requests[d]).activity = activity
      PROVE  DOMAIN result = {1} /\ asks("identify", d)
  <2>1. Head(requests[d]).job = "identify"
    BY <1>1, <1>2, <1>9, ResultsReply DEF Request
  <2>2. 1 \in DOMAIN requests[d] /\ requests[d][1] = Head(requests[d])
    BY HeadAndTail DEF AgentAnswers, TypeOKActivity
  <2>3. result \in {<<"IDENTIFIED">>, <<"IDENTIFICATION_FAILED">>}
    BY <1>1, <2>1 DEF Results
  <2> QED
    BY <1>9, <2>1, <2>2, <2>3 DEF asks
<1>10. \A k \in DOMAIN answer : identification(answer[k], activity) => DOMAIN answer = {1} /\ asks("identify", d)
  BY <1>5, <1>6, <1>9 DEF identification
<1> HIDE DEF answer
<1> QED
  BY <1>1, <1>4, <1>5, <1>8, <1>10 DEF answer

LEMMA HomeStep ==
    ASSUME TypeOKActivity, HomeInv, [NextActivity]_allVars
    PROVE  HomeInv'
<1> SUFFICES ASSUME NEW d \in Domains, NEW i \in DOMAIN feedback'[d]
             PROVE  feedback'[d][i].domain = d
  BY DEF HomeInv
<1>1. feedback \in [Domains -> Seq(Report)]
  BY DEF TypeOKActivity
<1>2. CASE feedback'[d] = feedback[d]
  BY <1>2 DEF HomeInv
<1>3. ASSUME NEW e \in Domains, TakeFeedback(e), feedback'[d] # feedback[d]
      PROVE  feedback'[d][i].domain = d
  <2>1. e = d /\ feedback[d] # <<>> /\ feedback'[d] = Tail(feedback[d])
    BY <1>1, <1>3 DEF TakeFeedback
  <2>2. \E j \in DOMAIN feedback[d] : feedback'[d][i] = feedback[d][j]
    BY <1>1, <2>1, HeadIsFirst
  <2> QED
    BY <2>2 DEF HomeInv
<1>4. ASSUME NEW e \in Domains, AgentAnswers(e), feedback'[d] # feedback[d]
      PROVE  feedback'[d][i].domain = d
  <2>1. PICK answer \in Seq(Report) :
          /\ feedback' = [feedback EXCEPT ![e] = @ \o answer]
          /\ \A k \in DOMAIN answer : answer[k].domain = e
    BY <1>4, AnswersAppended, ZenonT(60)
  <2>2. e = d /\ feedback'[d] = feedback[d] \o answer /\ feedback[d] \in Seq(Report)
    BY <1>1, <1>4, <2>1
  <2>3. \/ i \in DOMAIN feedback[d] /\ feedback'[d][i] = feedback[d][i]
        \/ \E k \in DOMAIN answer : feedback'[d][i] = answer[k]
    BY <2>2, ConcatEntries
  <2> QED
    BY <2>1, <2>2, <2>3 DEF HomeInv
<1>5. UNCHANGED feedback => feedback'[d] = feedback[d]
  OBVIOUS
<1>6. TakeConsent => UNCHANGED feedback
  BY DEF TakeConsent
<1> QED
  BY <1>2, <1>3, <1>4, <1>5, <1>6, RouterKinds

\* while all goes well a domain that has been cleaned up stays as it is
LEMMA FinishedKept ==
    ASSUME proceeds, intact', NEW d \in Domains, reached("DOWNLOAD"), hasFinished(d)
    PROVE  hasFinished(d)'
<1>1. DOMAIN domains' = DOMAIN domains
  BY DomainKept
<1>2. ASSUME NEW s \in FeedbackStatus, reports(d, s), identified(d, s) \/ advanced(d, s) \/ cleanedUp(d)
      PROVE  hasFinished(d)'
  <2>1. ~identified(d, s)
    BY <1>2, ReportPlace
  <2>2. ~advanced(d, s)
    <3>1. \A c \in Phases : from(c) \cap Finished = {}
      BY StatusSets
    <3> QED
      BY <1>2, <3>1, ReportPlace DEF hasFinished
  <2> QED
    BY <1>1, <1>2, <2>1, <2>2, ReportPlace DEF hasFinished
<1> QED
  BY <1>1, <1>2, DomainKept DEF hasFinished

LEMMA CleanupSeen ==
    ASSUME proceeds, intact, NEW d \in Domains, NEW s, tells(s, d), s \in Finished \cup {"COMPLETED", "INCOMPLETE"}
    PROVE  /\ d \in DOMAIN domains /\ domains[d] \in {"ACTIVATION_SUCCESS"} \cup Finished
           /\ reached("DOWNLOAD")
<1>1. involves("CLEANUP", d)
  BY DEF involves, responds, replies, Finished
<1> QED
  BY <1>1, SteadyFacts DEF AsideInv

\* the result of a cleanup is not ignored
LEMMA CleanedDelivered ==
    ASSUME proceeds, intact', NEW d \in Domains, cleanedInHand(d), Deliver, inHand' = <<>>
    PROVE  hasFinished(d)'
<1>1. TypeOKActivity /\ TypeOK /\ pc # "idle" /\ intact
  BY SteadyFacts, FailureKept
<1>2. PICK i \in DOMAIN inHand : inHand[i] \in Report /\ inHand[i].domain = d /\ cleaned(inHand[i], activity)
  BY DEF cleanedInHand
<1>3. i = 1
  <2>1. inHand \in Seq(Report \cup Answer) /\ Len(inHand) <= 1
    BY <1>1 DEF TypeOKActivity
  <2> QED
    BY <1>2, <2>1, LenProperties
<1> DEFINE m == inHand[1]
<1>4. m \in Report /\ m.domain = d /\ m.status \in Finished /\ m.activity = activity
  BY <1>2, <1>3 DEF cleaned
<1>5. tells(m.status, d)
  BY <1>2, <1>3, <1>4 DEF tells
<1>6. d \in DOMAIN domains /\ domains[d] \in {"ACTIVATION_SUCCESS"} \cup Finished /\ reached("DOWNLOAD")
  BY <1>1, <1>4, <1>5, CleanupSeen
<1>7. CASE domains[d] \in Finished
  BY <1>6, <1>7, FinishedKept DEF hasFinished
<1>8. CASE domains[d] = "ACTIVATION_SUCCESS"
  <2>1. AgentFeedback(m.domain, m.status, m.hasActions)
    BY <1>1, <1>4, ReportsAndAnswers DEF Deliver
  <2>2. Accepts(d, m.status)
    BY <1>1, <1>4, <1>8 DEF Accepts, AcceptedIn, AcceptedFrom, Cleanable, Finished, TypeOK
  <2>3. HandleAccepted(d, m.status, m.hasActions)
    BY <1>4, <2>1, <2>2 DEF AgentFeedback, HandleDesiredStateFeedbackEvent
  <2>4. HandleDomainFinished(d, m.status)
    BY <1>4, <2>3 DEF HandleAccepted, Finished, HandleDomainDownload, HandleDomainUpdate,
                      HandleDomainActivation, HandleDomainRollback, PhaseFeedback
  <2>5. \E v \in Finished : domains' = [domains EXCEPT ![d] = v]
    BY <2>4 DEF HandleDomainFinished, Finished
  <2> QED
    BY <1>6, <2>5 DEF hasFinished
<1> QED
  BY <1>6, <1>7, <1>8

LEMMA SequelStep ==
    ASSUME proceeds, intact', HomeInv, SequelInv
    PROVE  SequelInv'
<1>1. /\ TypeOKActivity /\ [NextActivity]_allVars /\ activity' = activity /\ intact
      /\ feedback \in [Domains -> Seq(Report)]
  BY SteadyFacts, FailureKept DEF TypeOKActivity
<1> SUFFICES ASSUME NEW d \in Domains
             PROVE  /\ \A i \in DOMAIN feedback'[d] : overall(feedback'[d][i], activity) =>
                         IF i = 1 THEN hasFinished(d)' \/ cleanedInHand(d)' ELSE cleaned(feedback'[d][i - 1], activity)
                    /\ \A i \in DOMAIN inHand' :
                         inHand'[i] \in Report /\ inHand'[i].domain = d /\ overall(inHand'[i], activity)
                           => hasFinished(d)'
  BY <1>1 DEF SequelInv
<1> DEFINE follows(i) == IF i = 1 THEN hasFinished(d) \/ cleanedInHand(d) ELSE cleaned(feedback[d][i - 1], activity)
<1>2. ASSUME NEW s, tells(s, d), s \in Finished \cup {"COMPLETED", "INCOMPLETE"}, hasFinished(d)
      PROVE  hasFinished(d)'
  BY <1>1, <1>2, CleanupSeen, FinishedKept
<1>3. ASSUME NEW i \in DOMAIN feedback[d], overall(feedback[d][i], activity)
      PROVE  follows(i) /\ (hasFinished(d) => hasFinished(d)')
  <2>1. tells(feedback[d][i].status, d)
    BY <1>3 DEF tells, overall, HomeInv
  <2> QED
    BY <1>2, <1>3, <2>1 DEF overall, SequelInv
<1>4. ASSUME NEW i \in DOMAIN inHand, inHand[i] \in Report, inHand[i].domain = d, overall(inHand[i], activity)
      PROVE  hasFinished(d)'
  <2>1. tells(inHand[i].status, d)
    BY <1>4 DEF tells, overall
  <2>2. hasFinished(d)
    BY <1>4 DEF SequelInv
  <2> QED
    BY <1>2, <1>4, <2>1, <2>2 DEF overall
<1>5. UNCHANGED inHand => cleanedInHand(d)' = cleanedInHand(d)
  BY <1>1 DEF cleanedInHand
<1>6. CASE UNCHANGED <<feedback, inHand>>
  BY <1>3, <1>4, <1>5, <1>6
<1>7. CASE Deliver /\ UNCHANGED feedback /\ inHand' = <<>>
  <2>1. cleanedInHand(d) => hasFinished(d)'
    BY <1>7, CleanedDelivered
  <2>2. DOMAIN inHand' = {}
    BY <1>7
  <2> QED
    BY <1>3, <1>7, <2>1, <2>2
<1>8. ASSUME NEW e \in Domains, TakeFeedback(e)
      PROVE  /\ \A i \in DOMAIN feedback'[d] : overall(feedback'[d][i], activity) =>
                  IF i = 1 THEN hasFinished(d)' \/ cleanedInHand(d)' ELSE cleaned(feedback'[d][i - 1], activity)
             /\ \A i \in DOMAIN inHand' :
                  inHand'[i] \in Report /\ inHand'[i].domain = d /\ overall(inHand'[i], activity) => hasFinished(d)'
  <2>1. /\ inHand = <<>> /\ feedback[e] # <<>> /\ inHand' = <<Head(feedback[e])>> /\ UNCHANGED domains
        /\ feedback' = [feedback EXCEPT ![e] = Tail(@)] \/ UNCHANGED feedback
    BY <1>8 DEF TakeFeedback, vars, opVars
  <2>2. Head(feedback[e]) \in Report /\ 1 \in DOMAIN feedback[e] /\ feedback[e][1] = Head(feedback[e])
    BY <1>1, <2>1, HeadAndTail
  <2>3. \A i \in DOMAIN inHand' : i = 1 /\ inHand'[i] = feedback[e][1]
    BY <2>1, <2>2, SingletonEntry
  <2>4. feedback[e][1].domain = e
    BY <2>2 DEF HomeInv
  <2>5. ~cleanedInHand(d) /\ hasFinished(d)' = hasFinished(d)
    BY <2>1 DEF cleanedInHand, hasFinished
  <2>6. ASSUME NEW i \in DOMAIN inHand', inHand'[i].domain = d, overall(inHand'[i], activity)
        PROVE  hasFinished(d)'
    <3>1. e = d /\ overall(feedback[d][1], activity)
      BY <2>3, <2>4, <2>6
    <3> QED
      BY <1>3, <2>2, <2>5, <3>1
  <2>7. e = d /\ cleaned(feedback[d][1], activity) => cleanedInHand(d)'
    <3>1. 1 \in DOMAIN inHand' /\ inHand'[1] = feedback[e][1]
      BY <2>1, <2>2
    <3> QED
      BY <1>1, <2>2, <2>4, <3>1 DEF cleanedInHand
  <2>8. ASSUME NEW i \in DOMAIN feedback'[d], overall(feedback'[d][i], activity)
        PROVE  IF i = 1 THEN hasFinished(d)' \/ cleanedInHand(d)' ELSE cleaned(feedback'[d][i - 1], activity)
    <3>1. CASE feedback'[d] = feedback[d]
      BY <1>3, <2>5, <2>8, <3>1
    <3>2. CASE d = e /\ feedback'[d] = Tail(feedback[d])
      <4>1. feedback[d] \in Seq(Report) /\ feedback[d] # <<>> /\ i \in DOMAIN Tail(feedback[d])
        BY <1>1, <2>1, <2>8, <3>2
      <4>2. DOMAIN Tail(feedback[d]) = 1..(Len(feedback[d]) - 1) /\ DOMAIN feedback[d] = 1..Len(feedback[d])
            /\ Len(feedback[d]) \in Nat
        BY <4>1, LenProperties, HeadTailProperties
      <4>3. i \in Nat \ {0} /\ i + 1 \in DOMAIN feedback[d]
        BY <4>1, <4>2
      <4>4. i + 1 # 1 /\ (i + 1) - 1 = i
        BY <4>3
      <4>5. feedback'[d][i] = feedback[d][i + 1]
        BY <3>2, <4>1, HeadIsFirst
      <4>6. cleaned(feedback[d][i], activity)
        BY <1>3, <2>8, <4>3, <4>4, <4>5
      <4>7. CASE i = 1
        BY <2>7, <3>2, <4>6, <4>7
      <4>8. CASE i # 1
        <5>1. i - 1 \in DOMAIN Tail(feedback[d]) /\ (i - 1) + 1 = i
          BY <4>1, <4>2, <4>8
        <5>2. feedback'[d][i - 1] = feedback[d][(i - 1) + 1]
          BY <3>2, <4>1, <5>1, HeadIsFirst, ZenonT(60)
        <5> QED
          BY <4>6, <4>8, <5>1, <5>2
      <4> QED
        BY <4>7, <4>8
    <3> QED
      BY <1>1, <2>1, <3>1, <3>2
  <2> QED
    BY <2>6, <2>8
<1>9. CASE TakeConsent
  <2>1. inHand = <<>> /\ UNCHANGED <<feedback, domains>> /\ answers \in Seq(Answer) /\ answers # <<>>
        /\ (inHand' = <<>> \/ inHand' = <<Head(answers)>>)
    BY <1>1, <1>9 DEF TakeConsent, vars, opVars, TypeOKActivity
  <2>2. \A i \in DOMAIN inHand' : inHand'[i] \notin Report
    <3>1. Head(answers) \in Answer
      BY <2>1, HeadAndTail
    <3>2. Head(answers) \notin Report
      BY <3>1, ReportsAndAnswers
    <3> QED
      BY <2>1, <3>2, SingletonEntry
  <2>3. ~cleanedInHand(d)
    BY <2>1 DEF cleanedInHand
  <2> QED
    BY <1>3, <2>1, <2>2, <2>3
<1>10. ASSUME NEW e \in Domains, AgentAnswers(e)
       PROVE  /\ \A i \in DOMAIN feedback'[d] : overall(feedback'[d][i], activity) =>
                   IF i = 1 THEN hasFinished(d)' \/ cleanedInHand(d)' ELSE cleaned(feedback'[d][i - 1], activity)
              /\ \A i \in DOMAIN inHand' :
                   inHand'[i] \in Report /\ inHand'[i].domain = d /\ overall(inHand'[i], activity) => hasFinished(d)'
  <2>1. PICK answer \in Seq(Report) :
          /\ feedback' = [feedback EXCEPT ![e] = @ \o answer]
          /\ \A k \in DOMAIN answer : overall(answer[k], activity) =>
               k # 1 /\ k - 1 \in DOMAIN answer /\ cleaned(answer[k - 1], activity)
    BY <1>1, <1>10, AnswersAppended
  <2>2. UNCHANGED <<inHand, domains>>
    BY <1>10 DEF AgentAnswers, vars, opVars
  <2>3. ASSUME NEW i \in DOMAIN feedback'[d], overall(feedback'[d][i], activity)
        PROVE  IF i = 1 THEN hasFinished(d)' \/ cleanedInHand(d)' ELSE cleaned(feedback'[d][i - 1], activity)
    <3>1. CASE feedback'[d] = feedback[d]
      BY <1>3, <1>5, <2>2, <2>3, <3>1
    <3>2. CASE d = e
      <4>1. feedback'[d] = feedback[d] \o answer /\ feedback[d] \in Seq(Report)
        BY <1>1, <2>1, <3>2
      <4>2. CASE /\ i \in DOMAIN feedback[d] /\ feedback'[d][i] = feedback[d][i]
                 /\ i # 1 => i - 1 \in DOMAIN feedback[d] /\ feedback'[d][i - 1] = feedback[d][i - 1]
        BY <1>3, <1>5, <2>2, <2>3, <4>2
      <4>3. ASSUME NEW k \in DOMAIN answer, feedback'[d][i] = answer[k],
                   k # 1 => i # 1 /\ k - 1 \in DOMAIN answer /\ feedback'[d][i - 1] = answer[k - 1]
            PROVE  i # 1 /\ cleaned(feedback'[d][i - 1], activity)
        BY <2>1, <2>3, <4>3
      <4>4. \/ /\ i \in DOMAIN feedback[d] /\ feedback'[d][i] = feedback[d][i]
               /\ i # 1 => i - 1 \in DOMAIN feedback[d] /\ feedback'[d][i - 1] = feedback[d][i - 1]
            \/ \E k \in DOMAIN answer :
                 /\ feedback'[d][i] = answer[k]
                 /\ k # 1 => i # 1 /\ k - 1 \in DOMAIN answer /\ feedback'[d][i - 1] = answer[k - 1]
        <5>1. \A j \in DOMAIN feedback'[d] : placed(feedback'[d], j, feedback[d], answer)
          BY <2>1, <4>1, ConcatPositions
        <5> QED
          BY <2>3, <5>1 DEF placed
      <4> QED
        BY <4>2, <4>3, <4>4
    <3> QED
      BY <1>1, <2>1, <3>1, <3>2
  <2> QED
    BY <1>4, <2>2, <2>3
<1> QED
  BY <1>1, <1>6, <1>7, <1>8, <1>9, <1>10, RouterKinds

-----------------------------------------------------------------------------
(* Who is to blame when an activity does not complete *)

\* as long as the owner has refused nothing, nobody passes on a refusal
denies(m) == m \in Answer /\ ~m.approved
DenialInv ==
    refused = {} =>
        /\ chan["consent"] # "false"
        /\ \A i \in DOMAIN answers : answers[i].activity = activity => ~denies(answers[i])
        /\ \A i \in DOMAIN inHand : inHand[i].activity = activity => ~denies(inHand[i])

LEMMA RefusedGrows ==
    ASSUME proceeds, refused' = {}
    PROVE  refused = {}
<1>1. TypeOKActivity /\ [NextActivity]_allVars /\ activity' = activity
  BY SteadyFacts
<1>2. \A c : c \in refused => c \in refused'
  BY <1>1, BroughtUpStep
<1> QED
  BY <1>2

LEMMA DenialStep ==
    ASSUME proceeds, SendInv, DenialInv
    PROVE  DenialInv'
<1> SUFFICES ASSUME refused' = {}
             PROVE  /\ chan'["consent"] # "false"
                    /\ \A i \in DOMAIN answers' : answers'[i].activity = activity => ~denies(answers'[i])
                    /\ \A i \in DOMAIN inHand' : inHand'[i].activity = activity => ~denies(inHand'[i])
  BY SteadyFacts DEF DenialInv
<1>1. /\ TypeOKActivity /\ [NextActivity]_allVars /\ activity' = activity /\ pc' # "idle" /\ answers \in Seq(Answer)
      /\ asked \subseteq [command : Commands, activity : Nat] /\ refused = {}
  BY SteadyFacts, RefusedGrows DEF TypeOKActivity
<1>2. /\ chan["consent"] # "false"
      /\ \A i \in DOMAIN answers : answers[i].activity = activity => ~denies(answers[i])
      /\ \A i \in DOMAIN inHand : inHand[i].activity = activity => ~denies(inHand[i])
  BY <1>1 DEF DenialInv
<1>3. chan'["consent"] # "false"
  <2>1. consentDelivered => chan'["consent"] # "false"
    BY <1>2 DEF consentDelivered, denies
  <2> QED
    BY <1>1, <1>2, <2>1, ChannelStep
<1>4. ASSUME NEW i \in DOMAIN inHand', inHand'[i].activity = activity
      PROVE  ~denies(inHand'[i])
  <2>1. inHand'[i] \in Report => ~denies(inHand'[i])
    BY ReportsAndAnswers DEF denies
  <2> QED
    BY <1>1, <1>2, <1>4, <2>1, InHandStep
<1>5. CASE UNCHANGED answers \/ TakeConsent
  <2>1. ASSUME NEW i \in DOMAIN answers'
        PROVE  \E j \in DOMAIN answers : answers'[i] = answers[j]
    <3>1. CASE answers' = answers
      BY <3>1
    <3>2. CASE answers' = Tail(answers) /\ answers # <<>>
      BY <1>1, <3>2, HeadIsFirst
    <3>3. TakeConsent => answers # <<>> /\ (answers' = Tail(answers) \/ answers' = answers)
      BY DEF TakeConsent
    <3> QED
      BY <1>5, <3>1, <3>2, <3>3
  <2>2. \A i \in DOMAIN answers' : answers'[i].activity = activity => ~denies(answers'[i])
    BY <1>2, <2>1
  <2> QED
    BY <1>3, <1>4, <2>2
<1>6. ASSUME NEW r \in asked, NEW approved \in BOOLEAN,
             answers' = Append(answers, [command |-> r.command, approved |-> approved, activity |-> r.activity]),
             refused' = IF ~approved /\ r.activity = activity THEN refused \cup {r.command} ELSE refused
      PROVE  \A i \in DOMAIN answers' : answers'[i].activity = activity => ~denies(answers'[i])
  <2> DEFINE e == [command |-> r.command, approved |-> approved, activity |-> r.activity]
  <2>1. e \in Answer /\ e.approved = approved /\ e.activity = r.activity
    BY <1>1 DEF Answer
  <2>2. e.activity = activity => ~denies(e)
    BY <1>6, <2>1 DEF denies
  <2> HIDE DEF e
  <2>3. \A i \in DOMAIN Append(answers, e) :
          (i \in DOMAIN answers /\ Append(answers, e)[i] = answers[i]) \/ Append(answers, e)[i] = e
    BY <1>1, <2>1, AppendEntries
  <2>4. answers' = Append(answers, e)
    BY <1>6 DEF e
  <2> QED
    BY <1>2, <2>2, <2>3, <2>4
<1> QED
  BY <1>1, <1>3, <1>4, <1>5, <1>6, HistoryStep

\* an activity goes wrong on a refusal, on a reported failure, or on an overall result that is early
LEMMA FailureOrigin ==
    ASSUME proceeds, intact, ~intact', \A c \in Phases : ~refuses(c)
    PROVE  \E m \in Report :
             /\ m.activity = activity /\ 1 \in DOMAIN inHand /\ inHand[1] = m
             /\ m.status \in Failures \/ (m.status = "INCOMPLETE" /\ ~hasFinished(m.domain))
<1>1. /\ TypeOKActivity /\ SentInv /\ "publish" \notin Faults /\ [NextActivity]_allVars
      /\ activity' = activity /\ activity \in Nat /\ pc' # "idle"
      /\ inHand \in Seq(Report \cup Answer)
  BY SteadyFacts DEF TypeOKActivity, TypeOK
<1>2. delayedStatus' # delayedStatus
  BY DEF intact
<1>3. ~Start
  <2>1. Start => activity' = activity + 1
    BY Zenon DEF Start, SetupUpdateOperation
  <2> QED
    BY <1>1, <2>1
<1>4. ~(ApplyStep \/ Timeout)
  BY <1>1, <1>2 DEF ApplyStep, Apply, Identify, Wait, ErrorSignalled, RollbackSignalled, Signalled, ContextDone,
              ReturnReboot, ReportFinal, DisposeUpdateOperation, Timeout, PhaseTimeout, applyUnchanged, opVars
<1>5. ~(HoldLockStep \/ ConsentTimeout)
  <2>1. ~questionEnds
    BY <1>2, QuestionKinds DEF issuesNow
  <2>2. ~holderActs
    BY <1>2 DEF holderActs, NotifyFeedback, UpdateStatus, SendSignal, holderUnchanged
  <2> QED
    BY <2>1, <2>2, Zenon DEF HoldLockStep, ConsentTimeout, HoldLock, questionEnds, holderActs
<1>6. ~\E h \in handlers : HandlerStep(h)
  <2>1. ASSUME NEW h \in handlers, HandlerStep(h)
        PROVE  FALSE
    <3>1. HandleCommandSignal(h)
      BY <2>1 DEF HandlerStep
    <3>2. UNCHANGED delayedStatus
      BY <2>1, <3>1, HandlerKinds DEF issuesNow, asksOwner
    <3> QED
      BY <1>2, <3>2
  <2> QED
    BY <2>1
<1>7. ~(TerminateStep \/ TakeConsent \/ UNCHANGED allVars)
  BY <1>2 DEF TerminateStep, Terminate, TakeConsent, allVars, vars, opVars
<1>8. ~\E approved \in BOOLEAN : OwnerAnswers(approved)
  BY <1>2 DEF OwnerAnswers, vars, opVars
<1>9. ASSUME NEW d \in Domains, DesiredState(d) \/ CommandStep(d) \/ AgentAnswers(d) \/ TakeFeedback(d)
      PROVE  FALSE
  BY <1>2, <1>9 DEF AgentAnswers, TakeFeedback, DesiredState, SendDesiredState, CommandStep, CommandDomain,
                    holderUnchanged, vars, opVars
<1>10. ASSUME NEW d \in Domains, DesiredStateFailed(d) \/ CommandStepFailed(d)
       PROVE  FALSE
  BY <1>1, <1>10 DEF DesiredStateFailed, SendDesiredStateFailed, SentInv, CommandStepFailed, CommandFailed
<1>11. Deliver
  BY <1>1, <1>3, <1>4, <1>5, <1>6, <1>7, <1>8, <1>9, <1>10 DEF NextActivity, Untimed
<1> DEFINE m == inHand[1]
<1>12. 1 \in DOMAIN inHand /\ m \in Report /\ m.activity = activity /\ AgentFeedback(m.domain, m.status, m.hasActions)
  <2>1. 1 \in DOMAIN inHand
    BY <1>1, <1>11, HeadAndTail DEF Deliver
  <2> QED
    BY <1>2, <1>11, <2>1 DEF Deliver, HandleOwnerConsentFeedback, vars, opVars
<1> HIDE DEF m
<1>13. /\ m.domain \in DOMAIN domains /\ Accepts(m.domain, m.status)
       /\ HandleAccepted(m.domain, m.status, m.hasActions)
  BY <1>2, <1>12 DEF AgentFeedback, HandleDesiredStateFeedbackEvent
<1>14. CASE HandleDomainFinished(m.domain, m.status)
  <2>1. m.status = "INCOMPLETE"
    BY <1>2, <1>14 DEF HandleDomainFinished
  <2>2. domains[m.domain] \notin Finished
    BY <1>13, <2>1 DEF Accepts, AcceptedFrom
  <2> QED
    BY <1>12, <2>1, <2>2 DEF hasFinished, m
<1>15. CASE ~HandleDomainFinished(m.domain, m.status)
  <2>1. m.status \in Failures
    BY <1>2, <1>13, <1>15 DEF HandleAccepted, HandleDomainIdentified, HandleDomainIdentificationFailed,
       HandleDomainDownload, HandleDomainUpdate, HandleDomainActivation, HandleDomainRollback, PhaseFeedback, Failures
  <2> QED
    BY <1>12, <2>1 DEF m
<1> QED
  BY <1>14, <1>15

\* as long as nobody reports a failure and nothing is refused, nothing goes wrong
troubles == {"INCOMPLETE", "IDENTIFICATION_FAILED"}
blameless == failed = {} /\ refused = {}
Blameless ==
    /\ intact /\ SequelInv
    /\ \A s \in troubles : ~sets(s) /\ (status = s => DOMAIN domains = {})
    /\ \A d \in Domains, s \in Failures : ~tells(s, d)
    /\ \A d \in DOMAIN domains : domains[d] # "IDENTIFICATION_FAILED"

LEMMA FailedGrows ==
    ASSUME proceeds, failed' = {}
    PROVE  /\ failed = {}
           /\ \A d \in Domains, s \in Failures : tells(s, d)' => tells(s, d)
<1>1. TypeOKActivity /\ SentInv /\ [NextActivity]_allVars /\ activity' = activity
  BY SteadyFacts
<1>2. failed = {}
  <2>1. ASSUME NEW d \in Domains, NEW result, answersWith(d, result)
        PROVE  failed = {}
    BY <2>1 DEF answersWith
  <2> QED
    BY <1>1, <2>1, FailedChange
<1>3. ASSUME NEW d \in Domains, NEW s \in Failures, tells(s, d)', ~tells(s, d)
      PROVE  FALSE
  <2>1. PICK e \in Domains : AgentAnswers(e)
    BY <1>1, <1>3, TellsStep
  <2>2. PICK result : answersWith(e, result)
    BY <1>1, <2>1, AnswersOutcome
  <2>3. requests[e][1].activity = activity /\ \E i \in DOMAIN result : s = result[i]
    BY <1>3, <2>2 DEF answersWith
  <2>4. failed' = failed \cup {e}
    BY <1>3, <2>2, <2>3 DEF answersWith
  <2> QED
    BY <2>4
<1> QED
  BY <1>2, <1>3

LEMMA NothingRefused ==
    ASSUME proceeds, DenialInv, refused = {}, "consentTimeout" \notin Faults, ~terminated, NEW c
    PROVE  ~refuses(c)
  BY DEF DenialInv, refuses

LEMMA BlamelessIntact ==
    ASSUME proceeds, Blameless, \A c \in Phases : ~refuses(c)
    PROVE  intact'
<1> SUFFICES ASSUME ~intact'
             PROVE  FALSE
  OBVIOUS
<1>1. PICK m \in Report :
        /\ m.activity = activity /\ 1 \in DOMAIN inHand /\ inHand[1] = m
        /\ m.status \in Failures \/ (m.status = "INCOMPLETE" /\ ~hasFinished(m.domain))
  BY FailureOrigin DEF Blameless
<1>2. m.domain \in Domains
  BY DEF Report
<1>3. CASE m.status \in Failures
  <2>1. tells(m.status, m.domain)
    BY <1>1 DEF tells
  <2> QED
    BY <1>2, <1>3, <2>1 DEF Blameless
<1>4. CASE m.status = "INCOMPLETE" /\ ~hasFinished(m.domain)
  <2>1. overall(inHand[1], activity) /\ inHand[1] \in Report /\ inHand[1].domain = m.domain
    BY <1>1, <1>4 DEF overall
  <2>2. SequelInv
    BY DEF Blameless
  <2>3. hasFinished(m.domain)
    BY <1>1, <1>2, <2>1, <2>2 DEF SequelInv
  <2> QED
    BY <1>4, <2>3
<1> QED
  BY <1>1, <1>3, <1>4

LEMMA DomainsNamed ==
    ASSUME proceeds
    PROVE  DOMAIN domains' = DOMAIN domains
  BY DomainsChange, ChangeFacts

LEMMA BlamelessStep ==
    ASSUME proceeds, Unhurried, "consentTimeout" \notin Faults, ~terminated, HomeInv, DenialInv,
           blameless', Blameless
    PROVE  Blameless'
<1>1. failed = {} /\ refused = {} /\ \A d \in Domains, s \in Failures : tells(s, d)' => tells(s, d)
  BY FailedGrows, RefusedGrows DEF blameless
<1>2. \A c : ~refuses(c)
  BY <1>1, NothingRefused
<1>3. intact'
  BY <1>2, BlamelessIntact
<1>4. SequelInv'
  BY <1>3, SequelStep DEF Blameless
<1>5. \A d \in Domains, s \in Failures : ~tells(s, d)'
  BY <1>1 DEF Blameless
<1>6. ASSUME NEW e \in DOMAIN domains', domains'[e] = "IDENTIFICATION_FAILED"
      PROVE  FALSE
  <2>1. e \in DOMAIN domains /\ domains[e] # "IDENTIFICATION_FAILED"
    BY DomainsNamed DEF Blameless
  <2>2. PICK d \in Domains : handled(d) /\ changes(d)
    BY <1>6, <2>1, DomainsChange
  <2>3. e = d
    BY <1>6, <2>1, <2>2, ChangeFacts
  <2>4. CASE identifies(d)
    <3>1. PICK v \in {"IDENTIFIED", "IDENTIFICATION_FAILED", "CLEANUP_SUCCESS"} :
            becomes(d, v) /\ (v = "IDENTIFICATION_FAILED" => tells(v, d))
      BY <2>4 DEF identifies
    <3>2. domains'[d] = v
      BY <2>1, <2>3, <3>1 DEF becomes
    <3>3. tells("IDENTIFICATION_FAILED", d) /\ "IDENTIFICATION_FAILED" \in Failures
      BY <1>6, <2>3, <3>1, <3>2 DEF Failures
    <3> QED
      BY <3>3 DEF Blameless
  <2>5. /\ \A c \in Phases : success(c) # "IDENTIFICATION_FAILED"
        /\ \A c \in Failable : failure(c) # "IDENTIFICATION_FAILED"
        /\ "IDENTIFICATION_FAILED" \notin Finished
    BY DEF Phases, Failable, success, failure, Finished
  <2> QED
    BY <1>6, <2>2, <2>3, <2>4, <2>5, ChangeFacts
<1>7. ASSUME NEW s \in troubles, sets(s)'
      PROVE  FALSE
  <2>1. PICK i \in DOMAIN todo' : todo'[i] = SetStatus(s)
    BY <1>7 DEF sets
  <2>2. ~sets(s)
    BY DEF Blameless
  <2>3. UNCHANGED todo => sets(s)
    BY <2>1 DEF sets
  <2>4. (\E j \in DOMAIN todo : todo[j] = SetStatus(s)) => sets(s)
    BY DEF sets
  <2>5. ~\E d \in Domains : givesUp(d)
    BY <1>6 DEF givesUp, Some
  <2> QED
    BY <1>2, <1>3, <2>1, <2>2, <2>3, <2>4, <2>5, SetKinds DEF troubles
<1>8. ASSUME NEW s \in troubles, status' = s
      PROVE  DOMAIN domains' = {}
  <2>1. ~sets(s)
    BY DEF Blameless
  <2>2. status' = status
    BY <1>8, <2>1, StatusKinds DEF sets, Unhurried
  <2> QED
    BY <1>8, <2>2, DomainsNamed DEF Blameless
<1> QED
  BY <1>3, <1>4, <1>5, <1>6, <1>7, <1>8 DEF Blameless

BlameInv ==
    /\ HomeInv /\ SendInv
    /\ pc # "idle" => DenialInv /\ (blameless => Blameless)

LEMMA StartBlame ==
    ASSUME TypeOKActivity, BarrierInv, AgeInv, Start
    PROVE  DenialInv' /\ Blameless'
<1>1. /\ activity \in Nat /\ activity' = activity + 1 /\ DOMAIN todo' = {} /\ delayedStatus' = ""
      /\ UNCHANGED <<answers, inHand, feedback>> /\ chan'["consent"] # "false"
  BY StartFacts, ZenonT(60) DEF Start, SetupUpdateOperation, TypeOKActivity, TypeOK, Channels
<1>2. /\ \A i \in DOMAIN answers : answers[i].activity # activity'
      /\ \A i \in DOMAIN inHand : inHand[i].activity # activity'
      /\ \A d \in Domains : \A i \in DOMAIN feedback[d] : feedback[d][i].activity # activity'
  <2>1. activity \in Nat
    BY <1>1
  <2>2. ~(activity + 1 <= activity)
    BY <2>1
  <2> QED
    BY <1>1, <2>2 DEF AgeInv
<1>3. DenialInv'
  BY <1>1, <1>2 DEF DenialInv
<1>4. SequelInv'
  BY <1>1, <1>2 DEF SequelInv, overall
<1>5. \A s \in troubles : ~sets(s)' /\ (status' = s => DOMAIN domains' = {})
  <2>1. \A s : ~sets(s)'
    BY <1>1 DEF sets
  <2>2. status' = "IDENTIFYING" \/ DOMAIN domains' = {}
    BY DEF Start, SetupUpdateOperation
  <2> QED
    BY <2>1, <2>2 DEF troubles
<1> QED
  BY <1>1, <1>3, <1>4, <1>5, StartFacts DEF Blameless, intact

LEMMA BlameStep ==
    ASSUME steady, Unhurried, "consentTimeout" \notin Faults, ~terminated, BlameInv,
           TypeOKActivity', [NextActivity]_allVars
    PROVE  BlameInv'
<1>1. TypeOKActivity /\ BarrierInv /\ AgeInv
  BY DEF steady, OrderInv
<1>2. HomeInv' /\ SendInv'
  BY <1>1, HomeStep, SendStep DEF BlameInv
<1>3. CASE Start
  BY <1>1, <1>2, <1>3, StartBlame DEF BlameInv
<1>4. CASE activity' = activity /\ (pc = "idle" => pc' = "idle")
  <2>1. ASSUME pc' # "idle"
        PROVE  DenialInv' /\ (blameless' => Blameless')
    <3>1. proceeds /\ DenialInv /\ (blameless => Blameless) /\ HomeInv /\ SendInv
      BY <1>1, <1>4, <2>1 DEF proceeds, BlameInv
    <3>2. blameless' => blameless
      BY <3>1, FailedGrows, RefusedGrows DEF blameless
    <3> QED
      BY <3>1, <3>2, DenialStep, BlamelessStep
  <2> QED
    BY <1>2, <2>1 DEF BlameInv
<1> QED
  BY <1>1, <1>3, <1>4, NewActivity

LEMMA InitBlame == InitActivity => BlameInv
<1> SUFFICES ASSUME InitActivity
             PROVE  BlameInv
  OBVIOUS
<1>1. pc = "idle" /\ todo = <<>> /\ \A d \in Domains : feedback[d] = <<>>
  BY DEF InitActivity, Init
<1>2. DOMAIN todo = {} /\ \A d \in Domains : DOMAIN feedback[d] = {}
  BY <1>1
<1> QED
  BY <1>1, <1>2 DEF BlameInv, HomeInv, SendInv

\* an activity ends with a final status, and only COMPLETED needs nobody to blame
LEMMA BlameFacts ==
    ASSUME ConclusionInv, BlameInv
    PROVE  SuccessCompletes
<1> SUFFICES ASSUME pc = "report", failed = {}, refused = {}, DOMAIN domains # {}
             PROVE  status = "COMPLETED"
  BY DEF SuccessCompletes
<1>1. status \in FinalStatus
  BY DEF over, ConclusionInv, FinalInv
<1>2. \A s \in troubles : status # s
  BY DEF BlameInv, blameless, Blameless
<1> QED
  BY <1>1, <1>2 DEF FinalStatus, troubles

\* Every way an activity can go wrong starts with a domain that reports a failure or an owner who
\* refuses: operation.delayedStatus is set, and an operation gives up its identification, only then,
\* and an agent's overall result, which could set it too, finds its domain cleaned up already.
\* That also takes an owner who answers before ownerConsentTimeout, which counts as a refusal.
THEOREM BlameInvariant ==
    ASSUME "publish" \notin Faults, Unhurried, "consentTimeout" \notin Faults
    PROVE  SpecActivity /\ []Undisturbed => []BlameInv
<1>1. InitActivity => BlameInv
  BY InitBlame
<1>2. TypeOKActivity /\ TypeOKActivity' /\ BarrierInv /\ LifecycleInv /\ OrderInv /\ OutcomeInv
      /\ Undisturbed /\ ~terminated /\ BlameInv /\ [NextActivity]_allVars => BlameInv'
  BY BlameStep DEF steady
<1>3. InitActivity => ~terminated
  BY InitConclusion
<1>4. ~terminated /\ [NextActivity]_allVars => ~terminated'
  BY NotTerminated, StepOfOrchestrator DEF Unhurried
<1>5. SpecActivity => []BarrierInv /\ []LifecycleInv
  BY ActivityIsOrchestrator, BarrierInvariant, LifecycleInvariant, PTL
<1> QED
  BY <1>1, <1>2, <1>3, <1>4, <1>5, ActivityTypeCorrect, OrderInvariant, OutcomeInvariant, PTL DEF SpecActivity

\* An activity in which no domain failed and the owner refused nothing is reported COMPLETED
\* (domainUpdateCompleted and the failure handlers, update_orchestrator_feedback.go).
THEOREM SuccessCompletesHolds ==
    ASSUME "publish" \notin Faults, Unhurried, "consentTimeout" \notin Faults
    PROVE  SpecActivity /\ []Undisturbed => []SuccessCompletes
<1>1. ConclusionInv /\ BlameInv => SuccessCompletes
  BY BlameFacts
<1> QED
  BY <1>1, ConclusionInvariant, BlameInvariant, PTL

\* Nothing is left over in the first activity of a process: it succeeds unless somebody is to blame.
THEOREM FirstActivitySucceeds ==
    ASSUME "publish" \notin Faults, Unhurried, "consentTimeout" \notin Faults
    PROVE  SpecActivity /\ [](activity <= 1) => []SuccessCompletes
<1> QED
  BY SuccessCompletesHolds, FirstActivityUndisturbed, PTL

-----------------------------------------------------------------------------
(* The channels have room *)

\* the identification of the actions of a domain is reported once
single(q, a) == \A i, j \in DOMAIN q : identification(q[i], a) /\ identification(q[j], a) => i = j
none(q, a) == \A i \in DOMAIN q : ~identification(q[i], a)
HeardInv ==
    \A d \in Domains : /\ single(feedback[d], activity)
                       /\ identifiedInHand(d) => none(feedback[d], activity)

LEMMA SingleTail ==
    ASSUME NEW q \in Seq(Report), q # <<>>, NEW a, single(q, a)
    PROVE  /\ single(Tail(q), a)
           /\ identification(Head(q), a) => none(Tail(q), a)
<1>1. Head(q) = q[1] /\ 1 \in DOMAIN q
      /\ \A i \in DOMAIN Tail(q) : i \in Nat \ {0} /\ i + 1 \in DOMAIN q /\ Tail(q)[i] = q[i + 1]
  BY HeadIsFirst
<1>2. single(Tail(q), a)
  <2> SUFFICES ASSUME NEW i \in DOMAIN Tail(q), NEW j \in DOMAIN Tail(q),
                      identification(Tail(q)[i], a), identification(Tail(q)[j], a)
               PROVE  i = j
    BY DEF single
  <2>1. i + 1 = j + 1
    BY <1>1 DEF single
  <2> QED
    BY <1>1, <2>1
<1>3. ASSUME identification(Head(q), a), NEW i \in DOMAIN Tail(q), identification(Tail(q)[i], a)
      PROVE  FALSE
  <2>1. i + 1 = 1
    BY <1>1, <1>3 DEF single
  <2> QED
    BY <1>1, <2>1
<1> QED
  BY <1>2, <1>3 DEF none

LEMMA SingleConcat ==
    ASSUME NEW q \in Seq(Report), NEW r \in Seq(Report), NEW a
    PROVE  /\ none(q, a) /\ none(r, a) => none(q \o r, a)
           /\ single(q, a) /\ none(r, a) => single(q \o r, a)
           /\ none(q, a) /\ DOMAIN r = {1} => single(q \o r, a)
<1>1. \A i \in DOMAIN (q \o r) : \/ i \in DOMAIN q /\ (q \o r)[i] = q[i]
                                 \/ \E j \in DOMAIN r : (q \o r)[i] = r[j]
  BY ConcatEntries
<1>2. none(q, a) /\ none(r, a) => none(q \o r, a)
  BY <1>1 DEF none
<1>3. single(q, a) /\ none(r, a) => single(q \o r, a)
  BY <1>1 DEF none, single
<1>4. ASSUME none(q, a), DOMAIN r = {1}
      PROVE  single(q \o r, a)
  <2>1. Len(q) \in Nat /\ DOMAIN q = 1..Len(q) /\ DOMAIN (q \o r) = 1..(Len(q) + 1)
    <3>1. Len(r) = 1
      BY <1>4, LenProperties
    <3>2. q \o r \in Seq(Report) /\ Len(q \o r) = Len(q) + Len(r)
      BY ConcatProperties
    <3>3. Len(q) \in Nat /\ DOMAIN q = 1..Len(q) /\ DOMAIN (q \o r) = 1..Len(q \o r)
      BY <3>2, LenProperties
    <3> QED
      BY <3>1, <3>2, <3>3
  <2>2. \A i \in 1..Len(q) : (q \o r)[i] = q[i]
    OBVIOUS
  <2>3. \A i \in DOMAIN (q \o r) : identification((q \o r)[i], a) => i = Len(q) + 1
    BY <1>4, <2>1, <2>2 DEF none
  <2> QED
    BY <2>3 DEF single
<1> QED
  BY <1>2, <1>3, <1>4

LEMMA HeardStep ==
    ASSUME proceeds, Once, HomeInv, HeardInv
    PROVE  HeardInv'
<1>1. /\ TypeOKActivity /\ [NextActivity]_allVars /\ activity' = activity /\ OnceInv /\ "identify" \in Steps
      /\ feedback \in [Domains -> Seq(Report)] /\ duplicates \in 0..MaxDuplicates
  BY SteadyFacts, StatusSets DEF TypeOKActivity
<1> SUFFICES ASSUME NEW d \in Domains
             PROVE  /\ single(feedback'[d], activity)
                    /\ identifiedInHand(d)' => none(feedback'[d], activity)
  BY <1>1 DEF HeardInv
<1>2. single(feedback[d], activity) /\ (identifiedInHand(d) => none(feedback[d], activity))
  BY DEF HeardInv
<1>3. UNCHANGED inHand => identifiedInHand(d)' = identifiedInHand(d)
  BY <1>1 DEF identifiedInHand
<1>4. CASE UNCHANGED <<feedback, inHand>>
  BY <1>2, <1>3, <1>4
<1>5. CASE Deliver /\ UNCHANGED feedback /\ inHand' = <<>>
  <2>1. ~identifiedInHand(d)'
    BY <1>5 DEF identifiedInHand
  <2> QED
    BY <1>2, <1>5, <2>1
<1>6. ASSUME NEW e \in Domains, TakeFeedback(e)
      PROVE  /\ single(feedback'[d], activity)
             /\ identifiedInHand(d)' => none(feedback'[d], activity)
  <2>1. ~KeepCopy
    BY <1>1 DEF KeepCopy, Once
  <2>2. /\ feedback[e] # <<>> /\ inHand' = <<Head(feedback[e])>>
        /\ feedback' = [feedback EXCEPT ![e] = Tail(@)]
    BY <1>6, <2>1 DEF TakeFeedback
  <2>3. feedback[e] \in Seq(Report) /\ 1 \in DOMAIN feedback[e] /\ feedback[e][1] = Head(feedback[e])
    BY <1>1, <2>2, HeadAndTail
  <2>4. Head(feedback[e]).domain = e
    BY <2>3 DEF HomeInv
  <2>5. identifiedInHand(d)' => e = d /\ identification(Head(feedback[d]), activity)
    <3>1. \A i \in DOMAIN inHand' : inHand'[i] = Head(feedback[e])
      BY <2>2, SingletonEntry
    <3> QED
      BY <1>1, <2>4, <3>1 DEF identifiedInHand
  <2>6. CASE d # e
    BY <1>1, <1>2, <2>2, <2>5, <2>6
  <2>7. CASE d = e
    <3>1. feedback'[d] = Tail(feedback[d])
      BY <1>1, <2>2, <2>7
    <3> QED
      BY <1>2, <2>2, <2>3, <2>5, <2>7, <3>1, SingleTail
  <2> QED
    BY <2>6, <2>7
<1>7. CASE TakeConsent
  <2>1. /\ UNCHANGED feedback /\ answers \in Seq(Answer) /\ answers # <<>>
        /\ inHand' = <<>> \/ inHand' = <<Head(answers)>>
    BY <1>1, <1>7 DEF TakeConsent, TypeOKActivity
  <2>2. \A i \in DOMAIN inHand' : inHand'[i] \notin Report
    <3>1. Head(answers) \in Answer
      BY <2>1, HeadAndTail
    <3>2. Head(answers) \notin Report
      BY <3>1, ReportsAndAnswers
    <3> QED
      BY <2>1, <3>2, SingletonEntry
  <2>3. ~identifiedInHand(d)'
    BY <2>2 DEF identifiedInHand
  <2> QED
    BY <1>2, <2>1, <2>3
<1>8. ASSUME NEW e \in Domains, AgentAnswers(e)
      PROVE  /\ single(feedback'[d], activity)
             /\ identifiedInHand(d)' => none(feedback'[d], activity)
  <2>1. PICK answer \in Seq(Report) :
          /\ feedback' = [feedback EXCEPT ![e] = @ \o answer]
          /\ \A k \in DOMAIN answer : identification(answer[k], activity) => DOMAIN answer = {1} /\ asks("identify", e)
    BY <1>1, <1>8, AnswersAppended
  <2>2. UNCHANGED inHand
    BY <1>8 DEF AgentAnswers
  <2>3. CASE d # e
    BY <1>1, <1>2, <1>3, <2>1, <2>2, <2>3
  <2>4. CASE d = e
    <3>1. feedback'[d] = feedback[d] \o answer /\ feedback[d] \in Seq(Report)
      BY <1>1, <2>1, <2>4
    <3>2. CASE none(answer, activity)
      BY <1>2, <1>3, <2>2, <3>1, <3>2, SingleConcat
    <3>3. CASE ~none(answer, activity)
      <4>1. DOMAIN answer = {1} /\ asks("identify", d)
        BY <2>1, <2>4, <3>3 DEF none
      <4>2. ~responds("identify", d)
        BY <1>1, <4>1 DEF OnceInv
      <4>3. ~identifiedInHand(d)
        BY <4>2 DEF identifiedInHand, identification, responds, tells
      <4>4. none(feedback[d], activity)
        <5>1. \A i \in DOMAIN feedback[d] : feedback[d][i].domain = d
          BY DEF HomeInv
        <5> QED
          BY <4>2, <5>1 DEF none, identification, responds, tells
      <4> QED
        BY <1>3, <2>2, <3>1, <4>1, <4>3, <4>4, SingleConcat
    <3> QED
      BY <3>2, <3>3
  <2> QED
    BY <2>3, <2>4
<1> QED
  BY <1>1, <1>4, <1>5, <1>6, <1>7, <1>8, RouterKinds

\* a domain stays IDENTIFYING until its report on that, the only one, is handled
beingIdentified(d) == unissued("identify", d) \/ asks("identify", d) \/ responds("identify", d)
IdentifyInv == \A d \in DOMAIN domains : beingIdentified(d) => domains[d] = "IDENTIFYING"

LEMMA IdentificationHandled ==
    ASSUME proceeds, HomeInv, HeardInv, NEW d \in Domains, handled(d), changes(d), identifies(d)
    PROVE  ~beingIdentified(d)'
<1>1. /\ TypeOKActivity /\ [NextActivity]_allVars /\ activity' = activity /\ OnceInv /\ "identify" \in Steps
  BY SteadyFacts, StatusSets
<1>2. responds("identify", d) /\ identifiedInHand(d)
  BY DEF identifies
<1>3. ~unissued("identify", d) /\ ~asks("identify", d)
  BY <1>1, <1>2 DEF OnceInv
<1>4. ~unissued("identify", d)'
  BY <1>1, <1>3, UnissuedStep
<1>5. ~asks("identify", d)'
  BY <1>3, ChangeFacts
<1>6. ~responds("identify", d)'
  <2>1. UNCHANGED feedback /\ DOMAIN inHand' = {}
    BY DEF handled
  <2>2. none(feedback[d], activity)
    BY <1>2 DEF HeardInv
  <2>3. \A e \in Domains : \A i \in DOMAIN feedback[e] : feedback[e][i].domain = d => e = d
    BY DEF HomeInv
  <2>4. ASSUME NEW s \in replies("identify"), tells(s, d)'
        PROVE  FALSE
    BY <1>1, <2>1, <2>2, <2>3, <2>4 DEF tells, none, identification
  <2>5. responds("identify", d)' => \E s \in replies("identify") : tells(s, d)'
    BY DEF responds
  <2> QED
    BY <2>4, <2>5
<1> QED
  BY <1>4, <1>5, <1>6 DEF beingIdentified

LEMMA IdentifyStep ==
    ASSUME proceeds, CleanInv, HomeInv, HeardInv, IdentifyInv
    PROVE  IdentifyInv'
<1>1. /\ DOMAIN domains' = DOMAIN domains /\ DOMAIN domains \subseteq Domains /\ "identify" \in Steps
      /\ "identify" \in AllCommands \cup {"identify"}
  BY SteadyFacts, DomainsNamed, StatusSets DEF TypeOK
<1> SUFFICES ASSUME NEW d \in DOMAIN domains, beingIdentified(d)'
             PROVE  domains'[d] = "IDENTIFYING"
  BY <1>1 DEF IdentifyInv
<1>2. d \in Domains
  BY <1>1
<1>3. beingIdentified(d)
  <2>1. unissued("identify", d)' => unissued("identify", d)
    BY <1>1, <1>2, UnissuedStep
  <2>2. asks("identify", d)' => asks("identify", d) \/ unissued("identify", d)
    BY <1>1, <1>2, AsksIssued
  <2>3. responds("identify", d)' => responds("identify", d) \/ asks("identify", d)
    BY <1>1, <1>2, RespondsStep
  <2> QED
    BY <2>1, <2>2, <2>3 DEF beingIdentified
<1>4. domains[d] = "IDENTIFYING"
  BY <1>3 DEF IdentifyInv
<1>5. ASSUME NEW e \in Domains, handled(e), changes(e), e = d
      PROVE  FALSE
  <2>1. ~identifies(d)
    BY <1>5, IdentificationHandled
  <2>2. \A c \in Phases : ~succeeds(c, d)
    BY <1>4 DEF succeeds, from, Phases
  <2>3. ~rollsBack(d) /\ \A c \in Failable : ~fails(c, d)
    BY <1>4 DEF rollsBack, fails, takes, from, Failable, Phases
  <2>4. ~finishes(d)
    <3>1. finishes(d) => involves("CLEANUP", d)
      BY DEF finishes, involves
    <3> QED
      BY <1>2, <1>4, <3>1, BegunStatuses DEF CleanInv
  <2> QED
    BY <1>5, <2>1, <2>2, <2>3, <2>4 DEF changes
<1>6. ASSUME NEW e \in Domains, handled(e), changes(e), e # d
      PROVE  domains'[d] = domains[d]
  BY <1>6, ChangeFacts
<1> QED
  BY <1>4, <1>5, <1>6, DomainsChange

LEMMA OverLasts ==
    ASSUME proceeds, over
    PROVE  /\ over' /\ \A c : waitingFor(c)' => waitingFor(c)
<1>1. activity' = activity /\ pc' # "idle" /\ pc \notin Waits /\ pc # "identify"
  BY SteadyFacts DEF over, Waits, Commands
<1>2. over' /\ handlers' \subseteq handlers
  <2>1. CASE rests
    BY <2>1 DEF rests, over
  <2>2. CASE applies
    BY <1>1, <2>2 DEF applies, ApplyWork, Identify, PhaseTimeout, Wait, ErrorSignalled, RollbackSignalled, Signalled,
                      ContextDone, ReturnReboot, ReportFinal, applyUnchanged, over
  <2>3. ASSUME NEW h \in handlers, HandleCommandSignal(h)
        PROVE  over' /\ handlers' \subseteq handlers
    BY <2>3 DEF HandleCommandSignal, handlerUnchanged, over
  <2>4. CASE questionEnds
    BY <2>4 DEF questionEnds, OwnerConsented, OwnerConsentFailed, handlerUnchanged, over
  <2>5. CASE holderActs \/ \E d \in Domains : CommandStep(d) /\ CommandDomain(d)
    BY <2>5 DEF holderActs, NotifyFeedback, UpdateStatus, SendSignal, CommandDomain, holderUnchanged, over
  <2>6. ASSUME NEW d \in Domains, handled(d)
        PROVE  over' /\ handlers' \subseteq handlers
    BY <2>6 DEF handled, over
  <2> QED
    BY <2>1, <2>2, <2>3, <2>4, <2>5, <2>6, StepsOfActivity
<1> QED
  BY <1>1, <1>2 DEF waitingFor

\* an operation without channels has no domains, and ends before anything is done
NilInv ==
    (\E x \in Channels \ {"consent"} : chan[x] = "nil") =>
        over /\ DOMAIN domains = {} /\ todo = <<>> /\ \A c \in Commands : ~waitingFor(c)

LEMMA NilStep ==
    ASSUME proceeds, NilInv
    PROVE  NilInv'
<1> SUFFICES ASSUME NEW x \in Channels \ {"consent"}, chan'[x] = "nil"
             PROVE  over' /\ DOMAIN domains' = {} /\ todo' = <<>> /\ \A c \in Commands : ~waitingFor(c)'
  BY DEF NilInv
<1>1. chan[x] = "nil"
  <2>1. chan'[x] # "empty"
    OBVIOUS
  <2>2. ASSUME SendSignal, 1 \in DOMAIN todo, todo[1] = Head(todo), todo[1] = Send(x, chan'[x])
        PROVE  FALSE
    <3>1. todo \in Seq(Effect) /\ TypeOK
      BY SteadyFacts DEF TypeOK
    <3>2. todo[1] \in Effect /\ todo[1].op = "send" /\ todo[1].value = "nil"
      BY <2>2, <3>1, EffectFields, LenProperties
    <3> QED
      BY <3>2 DEF Effect, Blocked
  <2> QED
    BY <2>1, <2>2, ChannelKinds
<1>2. over /\ DOMAIN domains = {} /\ todo = <<>> /\ \A c \in Commands : ~waitingFor(c)
  BY <1>1 DEF NilInv
<1>3. DOMAIN todo = {}
  BY <1>2
<1>4. \A c : ~consulted(c)
  BY <1>3 DEF consulted
<1>5. todo' = todo
  <2>1. ~(holderActs \/ \E d \in Domains : CommandDomain(d))
    BY <1>3, HolderTodo
  <2>2. \A c \in Commands : ~issuesNow(c) /\ ~asksOwner(c)
    BY <1>2, <1>4 DEF issuesNow, asksOwner
  <2>3. \A c \in Phases : ~refuses(c)
    BY <1>4 DEF refuses
  <2>4. \A d \in Domains : ~handled(d)
    BY <1>2 DEF handled
  <2> QED
    BY <2>1, <2>2, <2>3, <2>4, TodoKinds
<1> QED
  BY <1>2, <1>5, OverLasts, DomainsNamed

\* Everything announced stands: no domain is identified any more after DOWNLOAD was signalled, none
\* is behind a phase that was, none is left to activate after CLEANUP was, and nothing goes on once
\* apply is told to end.
AnnouncedInv ==
    /\ signals("DOWNLOAD", "true") => ~Some(domains, {"IDENTIFYING"})
    /\ \A c \in {"UPDATE", "ACTIVATE"} : signals(c, "true") => reached(c)
    /\ signals("CLEANUP", "true") => reached("ACTIVATE") /\ ~Some(domains, {"UPDATE_SUCCESS"})
    /\ concluding => Inert

LEMMA IdentifyingGone ==
    ASSUME proceeds, ~Some(domains, {"IDENTIFYING"})
    PROVE  ~Some(domains', {"IDENTIFYING"})
<1>1. DOMAIN domains' = DOMAIN domains
  BY DomainsNamed
<1>2. ASSUME NEW d \in Domains, handled(d), changes(d)
      PROVE  domains'[d] # "IDENTIFYING"
  <2>1. \A c \in Phases : success(c) # "IDENTIFYING"
    BY DEF success, Phases
  <2>2. \A c \in Failable : failure(c) # "IDENTIFYING"
    BY DEF failure, Failable, Phases
  <2>3. "IDENTIFYING" \notin Finished
    BY DEF Finished
  <2> QED
    BY <1>2, <2>1, <2>2, <2>3, ChangeFacts
<1> QED
  BY <1>1, <1>2, DomainsChange, ChangeFacts DEF Some

LEMMA PhaseReached ==
    ASSUME proceeds, NEW c \in Phases, NEW d \in Domains, responds(c, d)
    PROVE  reached(c) /\ reached(c)'
<1>1. pursued(c)
  BY InvolvedReached
<1>2. reached(c)
  BY <1>1, SteadyFacts DEF CarriedInv, carried
<1> QED
  BY <1>2, SteadyFacts, ReachedKept

\* the last success in a phase brings the activity to the next
LEMMA NextReached ==
    ASSUME proceeds, NEW c \in Phases, NEW d \in Domains, offersNext(c, d)
    PROVE  reached(c)' /\ (c # "ACTIVATE" => reached(After(c))')
<1>1. reached(c)' /\ ~Some(domains', from(c))
  <2>1. responds(c, d)
    BY StatusSets DEF offersNext, succeeds, responds
  <2> QED
    BY <2>1, PhaseReached DEF offersNext
<1>2. ASSUME c # "ACTIVATE"
      PROVE  Behind(After(c)) = Behind(c) \cup from(c)
  BY <1>2 DEF Behind, After, from, Phases
<1> QED
  BY <1>1, <1>2 DEF reached, Some

LEMMA AnnouncedStep ==
    ASSUME proceeds, LevelInv, CleanInv, OfferInv, BackInv, FirstInv, IdentifyInv', AnnouncedInv
    PROVE  AnnouncedInv'
<1>1. /\ {"UPDATE", "ACTIVATE"} \subseteq Phases /\ \A c \in Phases : reached(c) => reached(c)'
      /\ {"DOWNLOAD", "UPDATE", "ACTIVATE", "CLEANUP", "err", "done"} \subseteq Channels \ {"consent"}
  BY SteadyFacts, ReachedKept, PhaseNames
<1>2. signals("DOWNLOAD", "true")' => ~Some(domains', {"IDENTIFYING"})
  <2>1. CASE signals("DOWNLOAD", "true")
    BY <2>1, IdentifyingGone DEF AnnouncedInv
  <2>2. CASE newSignal("DOWNLOAD", "true")
    <3>1. \E d \in Domains : offersDownload(d)
      BY <2>2, PhaseNames DEF newSignal
    <3> QED
      BY <3>1 DEF offersDownload, allIdentified
  <2> QED
    BY <1>1, <2>1, <2>2, SignalKinds
<1>3. ASSUME NEW c \in {"UPDATE", "ACTIVATE"}, signals(c, "true")'
      PROVE  reached(c)'
  <2>1. CASE signals(c, "true")
    BY <1>1, <2>1 DEF AnnouncedInv
  <2>2. CASE newSignal(c, "true")
    <3>1. PICK b \in Phases, d \in Domains : offersNext(b, d) /\ c = After(b)
      BY <2>2 DEF newSignal
    <3>2. b # "ACTIVATE"
      BY <3>1, PhaseNames
    <3> QED
      BY <3>1, <3>2, NextReached
  <2> QED
    BY <1>1, <1>3, <2>1, <2>2, SignalKinds
<1>4. ASSUME signals("CLEANUP", "true")'
      PROVE  reached("ACTIVATE")' /\ ~Some(domains', {"UPDATE_SUCCESS"})
  <2>1. CASE signals("CLEANUP", "true")
    <3>1. reached("ACTIVATE") /\ ~Some(domains, {"UPDATE_SUCCESS"})
      BY <2>1 DEF AnnouncedInv
    <3>2. ASSUME NEW d \in Domains, handled(d), changes(d)
          PROVE  domains'[d] # "UPDATE_SUCCESS"
      <4>1. d \in DOMAIN domains /\ domains[d] # "DOWNLOAD_SUCCESS"
        BY <3>1, <3>2, ChangeFacts DEF reached, Some, Behind
      <4>2. ASSUME NEW c \in Phases, succeeds(c, d)
            PROVE  success(c) # "UPDATE_SUCCESS"
        BY <4>1, <4>2 DEF succeeds, success, from, Phases
      <4>3. \A c \in Failable : failure(c) # "UPDATE_SUCCESS"
        BY DEF failure, Failable, Phases
      <4>4. "UPDATE_SUCCESS" \notin Finished
        BY DEF Finished
      <4> QED
        BY <3>2, <4>2, <4>3, <4>4, ChangeFacts
    <3>3. ~Some(domains', {"UPDATE_SUCCESS"})
      BY <3>1, <3>2, DomainsNamed, DomainsChange, ChangeFacts DEF Some
    <3> QED
      BY <1>1, <3>1, <3>3
  <2>2. ASSUME NEW c \in Phases, NEW d \in Domains, offersNext(c, d), After(c) = "CLEANUP"
        PROVE  reached("ACTIVATE")' /\ ~Some(domains', {"UPDATE_SUCCESS"})
    <3>1. c = "ACTIVATE"
      BY <2>2, PhaseNames
    <3>2. from("ACTIVATE") = {"UPDATE_SUCCESS"}
      BY DEF from
    <3> QED
      BY <2>2, <3>1, <3>2, NextReached DEF offersNext
  <2>3. ASSUME NEW d \in Domains, hasRolledBack(d)
        PROVE  reached("ACTIVATE")' /\ ~Some(domains', {"UPDATE_SUCCESS"})
    <3>1. reached("UPDATE")
      BY <2>3 DEF hasRolledBack, rollsBack, involves, LevelInv
    <3>2. reached("UPDATE")' /\ ~Some(domains', takes("ROLLBACK"))
      BY <1>1, <2>3, <3>1 DEF hasRolledBack
    <3>3. Behind("ACTIVATE") \subseteq Behind("UPDATE") \cup takes("ROLLBACK") /\ "UPDATE_SUCCESS" \in takes("ROLLBACK")
      BY DEF Behind, takes
    <3> QED
      BY <3>2, <3>3 DEF reached, Some
  <2>4. signals("CLEANUP", "true") \/ newSignal("CLEANUP", "true")
    BY <1>1, <1>4, SignalKinds
  <2> QED
    BY <2>1, <2>2, <2>3, <2>4 DEF newSignal
<1>5. ASSUME concluding'
      PROVE  Inert'
  <2>1. CASE concluding
    BY <2>1, InertKept DEF AnnouncedInv
  <2>2. ASSUME NEW d \in Domains, givesUp(d) \/ findsNothing(d)
        PROVE  Inert'
    <3>1. ~Some(domains', {"IDENTIFYING"})
      BY <2>2 DEF givesUp, findsNothing, allIdentified
    <3>2. idOver'
      BY <3>1 DEF IdentifyInv, beingIdentified, idOver, Some
    <3> QED
      BY <2>2, <3>2, IdentificationConcludes
  <2>3. ASSUME NEW d \in Domains, allDone(d)
        PROVE  Inert'
    BY <2>3, CompletionConcludes
  <2>4. CASE refuses("DOWNLOAD")
    BY <2>4, RefusalConcludes
  <2>5. CASE newSignal("err", "true") \/ newSignal("done", "true") \/ newSignal("DOWNLOAD", "false")
    <3>1. \A c \in Phases : After(c) \notin {"err", "done", "DOWNLOAD"}
      BY PhaseNames
    <3> QED
      BY <2>2, <2>3, <2>4, <2>5, <3>1 DEF newSignal
  <2>6. \/ signals("err", "true") \/ newSignal("err", "true")
        \/ signals("done", "true") \/ newSignal("done", "true")
        \/ signals("DOWNLOAD", "false") \/ newSignal("DOWNLOAD", "false")
    BY <1>1, <1>5, SignalKinds DEF concluding
  <2> QED
    BY <2>1, <2>5, <2>6 DEF concluding
<1> QED
  BY <1>2, <1>3, <1>4, <1>5 DEF AnnouncedInv

\* what the lock holder sends it sends once, to an empty channel
oneSend(t) == \A i, j \in DOMAIN t : t[i].op = "send" /\ t[j].op = "send" => i = j
RoomInv ==
    /\ oneSend(todo)
    /\ \A i \in DOMAIN todo : todo[i].op = "send" => chan[todo[i].channel] = "empty"

LEMMA SendShapes ==
    /\ oneSend(<<>>) /\ oneSend(running) /\ oneSend(nothingToDo)
    /\ \A e : oneSend(<<e>>)
    /\ \A c, s : oneSend(<<Send(c, "true"), Notify(s)>>) /\ oneSend(<<SetStatus(s), Send(c, "true")>>)
<1>1. oneSend(<<>>) /\ \A e : oneSend(<<e>>)
  BY DEF oneSend
<1>2. ASSUME NEW i \in DOMAIN running, running[i].op = "send"
      PROVE  i = 4
  <2>1. i \in 1..4
    BY DEF running
  <2>2. running[1].op = "notify" /\ running[2].op = "notify" /\ running[3].op = "setStatus"
    BY EffectFields DEF running
  <2> QED
    BY <1>2, <2>1, <2>2
<1>3. ASSUME NEW i \in DOMAIN nothingToDo, nothingToDo[i].op = "send"
      PROVE  i = 3
  <2>1. i \in 1..3
    BY DEF nothingToDo
  <2>2. nothingToDo[1].op = "notify" /\ nothingToDo[2].op = "setStatus"
    BY EffectFields DEF nothingToDo
  <2> QED
    BY <1>3, <2>1, <2>2
<1>4. ASSUME NEW c, NEW s, NEW i \in DOMAIN <<Send(c, "true"), Notify(s)>>, <<Send(c, "true"), Notify(s)>>[i].op = "send"
      PROVE  i = 1
  BY <1>4, PairEntries, EffectFields
<1>5. ASSUME NEW c, NEW s, NEW i \in DOMAIN <<SetStatus(s), Send(c, "true")>>, <<SetStatus(s), Send(c, "true")>>[i].op = "send"
      PROVE  i = 2
  BY <1>5, PairEntries, EffectFields
<1> QED
  BY <1>1, <1>2, <1>3, <1>4, <1>5 DEF oneSend

LEMMA OneSendStep ==
    ASSUME proceeds, RoomInv
    PROVE  oneSend(todo')
<1>1. CASE UNCHANGED todo
  BY <1>1 DEF RoomInv
<1>2. CASE holderActs \/ \E d \in Domains : CommandDomain(d)
  <2>1. CASE \A i \in DOMAIN todo' : i \in Nat \ {0} /\ i + 1 \in DOMAIN todo /\ todo'[i] = todo[i + 1]
    <3>1. ASSUME NEW i \in DOMAIN todo', NEW j \in DOMAIN todo', todo'[i].op = "send", todo'[j].op = "send"
          PROVE  i = j
      <4>1. i + 1 = j + 1
        BY <2>1, <3>1 DEF RoomInv, oneSend
      <4> QED
        BY <2>1, <4>1
    <3> QED
      BY <3>1 DEF oneSend
  <2>2. CASE DOMAIN todo' = {1}
    BY <2>2 DEF oneSend
  <2> QED
    BY <1>2, <2>1, <2>2, HolderTodo
<1>3. ASSUME NEW c \in Commands, issuesNow(c) \/ asksOwner(c)
      PROVE  oneSend(todo')
  <2>1. ASSUME NEW i \in DOMAIN todo', issuesNow(c)
        PROVE  todo'[i].op = "command"
    BY <2>1, IssuedTargets DEF issuesNow, AllCommands
  <2>2. asksOwner(c) => oneSend(todo')
    BY SendShapes DEF asksOwner
  <2>3. issuesNow(c) => oneSend(todo')
    BY <2>1 DEF oneSend
  <2> QED
    BY <1>3, <2>2, <2>3
<1>4. ASSUME NEW c \in Phases, refuses(c)
      PROVE  oneSend(todo')
  <2>1. CASE \A i \in DOMAIN todo' : i # 1 => todo'[i].op = "command"
    BY <2>1 DEF oneSend
  <2> QED
    BY <1>4, <2>1, RefusedTodo, SendShapes
<1>5. ASSUME NEW d \in Domains, handled(d), changes(d) \/ progresses(d)
      PROVE  oneSend(todo')
  <2>1. progresses(d) => oneSend(todo')
    BY SendShapes DEF progresses
  <2>2. offersDownload(d) \/ findsNothing(d) \/ givesUp(d) => oneSend(todo')
    BY SendShapes DEF offersDownload, findsNothing, givesUp, IdentificationFailed
  <2>3. (\E c \in Phases : offersNext(c, d)) \/ hasRolledBack(d) => oneSend(todo')
    BY SendShapes DEF offersNext, hasRolledBack
  <2>4. allDone(d) => oneSend(todo')
    BY SendShapes DEF allDone
  <2> QED
    BY <1>5, <2>1, <2>2, <2>3, <2>4, ChangedTodo, SendShapes
<1> QED
  BY <1>1, <1>2, <1>3, <1>4, <1>5, TodoKinds

\* when apply is told to end, no report changes anything any more
LEMMA NoMoreChanges ==
    ASSUME proceeds, LevelInv, IdentifyInv, AnnouncedInv, concluding, NEW d \in Domains, handled(d), changes(d)
    PROVE  FALSE
<1>1. Inert
  BY DEF AnnouncedInv
<1>2. d \in DOMAIN domains /\ responds("identify", d)
  BY <1>1, InertReport DEF givesUp, allIdentified, identifies, handled
<1>3. domains[d] = "IDENTIFYING"
  BY <1>2 DEF IdentifyInv, beingIdentified
<1>4. spent(d)
  BY <1>1, <1>2 DEF Inert
<1> QED
  BY <1>3, <1>4 DEF spent, Finished

\* a channel that is not empty has told apply what nothing follows that is told it again
LEMMA NewFinds ==
    ASSUME proceeds, LevelInv, OfferInv, BackInv, WorthInv, IdentifyInv, NilInv, AnnouncedInv,
           NEW x, NEW v, newSignal(x, v)
    PROVE  x \in Channels \ {"consent"} /\ chan[x] = "empty"
<1>1. chan \in [Channels -> ChannelState] /\ TypeOK
  BY SteadyFacts DEF TypeOK
<1>2. x \in Channels \ {"consent"}
  BY PhaseNames DEF newSignal
<1>3. chan[x] # "nil"
  <2>1. chan[x] = "nil" => todo = <<>> /\ DOMAIN domains = {}
    BY <1>2 DEF NilInv
  <2>2. todo = <<>> => \A c : ~refuses(c)
    BY DEF refuses, consulted
  <2>3. DOMAIN domains = {} => \A d : ~handled(d)
    BY DEF handled
  <2> QED
    BY <2>1, <2>2, <2>3 DEF newSignal, offersDownload, findsNothing, givesUp, allIdentified, offersNext, hasRolledBack,
       allDone
<1>4. ASSUME chan[x] = "true" \/ chan[x] = "false"
      PROVE  FALSE
  <2>1. signals(x, "true") \/ (x = "DOWNLOAD" /\ signals(x, "false"))
    BY <1>2, <1>4 DEF signals, WorthInv
  <2>2. ASSUME NEW d \in Domains, allIdentified(d), x \in {"DOWNLOAD", "err"}
        PROVE  FALSE
    <3>1. CASE concluding
      BY <2>2, <3>1, NoMoreChanges DEF allIdentified
    <3>2. CASE signals("DOWNLOAD", "true")
      <4>1. d \in DOMAIN domains /\ domains[d] = "IDENTIFYING"
        BY <2>2 DEF allIdentified, identifies, handled, IdentifyInv, beingIdentified
      <4> QED
        BY <3>2, <4>1 DEF AnnouncedInv, Some
    <3> QED
      BY <2>1, <2>2, <3>1, <3>2 DEF concluding
  <2>3. ASSUME NEW d \in Domains, allDone(d), x \in {"done", "err"}
        PROVE  FALSE
    <3>1. concluding
      BY <2>1, <2>3 DEF concluding
    <3> QED
      BY <2>3, <3>1, NoMoreChanges DEF allDone
  <2>4. ASSUME NEW c \in Phases, NEW d \in Domains, offersNext(c, d), x = After(c)
        PROVE  FALSE
    <3>1. d \in DOMAIN domains /\ domains[d] \in from(c) /\ signals(After(c), "true")
      BY <2>1, <2>4, PhaseNames DEF offersNext, handled, succeeds
    <3>2. CASE c = "ACTIVATE"
      <4>1. ~Some(domains, {"UPDATE_SUCCESS"})
        BY <3>1, <3>2, PhaseNames DEF AnnouncedInv
      <4> QED
        BY <3>1, <3>2, <4>1 DEF from, Some
    <3>3. CASE c # "ACTIVATE"
      <4>1. reached(After(c)) /\ from(c) \subseteq Behind(After(c))
        BY <3>1, <3>3, PhaseNames DEF AnnouncedInv, from, Behind
      <4> QED
        BY <3>1, <4>1 DEF reached, Some
    <3> QED
      BY <3>2, <3>3
  <2>5. ASSUME NEW d \in Domains, hasRolledBack(d), x = "CLEANUP"
        PROVE  FALSE
    <3>1. d \in DOMAIN domains /\ domains[d] \in takes("ROLLBACK")
      BY <2>5 DEF hasRolledBack, handled, rollsBack
    <3>2. reached("ACTIVATE") /\ ~Some(domains, {"UPDATE_SUCCESS"})
      BY <2>1, <2>5 DEF AnnouncedInv
    <3> QED
      BY <3>1, <3>2 DEF takes, reached, Behind, Some
  <2>6. ASSUME refuses("DOWNLOAD"), x = "err"
        PROVE  FALSE
    <3>1. Inert
      BY <2>1, <2>6 DEF concluding, AnnouncedInv
    <3> QED
      BY <2>6, <3>1, PhaseNames DEF refuses, Inert, offered
  <2>7. ASSUME NEW c \in Phases \ {"DOWNLOAD"}, refuses(c), x = "rollback"
        PROVE  FALSE
    <3>1. barred
      BY <2>1, <2>7 DEF turnsBack, BackInv
    <3> QED
      BY <2>7, <3>1, PhaseNames DEF refuses, barred
  <2> QED
    BY <2>2, <2>3, <2>4, <2>5, <2>6, <2>7 DEF newSignal, offersDownload, findsNothing, givesUp
<1> QED
  BY <1>1, <1>2, <1>3, <1>4 DEF ChannelState

\* a channel of apply stays as it is until the lock holder sends to it, or else is emptied
LEMMA ChannelKept ==
    ASSUME proceeds, NEW x \in Channels \ {"consent"}, chan[x] = "empty",
           ~(todo # <<>> /\ todo' = Tail(todo) /\ 1 \in DOMAIN todo /\ todo[1].op = "send" /\ todo[1].channel = x)
    PROVE  chan'[x] = "empty"
<1>1. \A v : Send(x, v).op = "send" /\ Send(x, v).channel = x
  BY EffectFields
<1>2. 1 \in DOMAIN todo => todo # <<>>
  OBVIOUS
<1> QED
  BY <1>1, <1>2, ChannelKinds

LEMMA RoomStep ==
    ASSUME proceeds, LevelInv, OfferInv, BackInv, WorthInv, IdentifyInv, NilInv, AnnouncedInv, SendInv, RoomInv
    PROVE  RoomInv'
<1>1. /\ TypeOK /\ todo \in Seq(Effect) /\ todo' \in Seq(Effect)
      /\ oneSend(todo')
  BY SteadyFacts, OneSendStep DEF TypeOK
<1> SUFFICES ASSUME NEW i \in DOMAIN todo', todo'[i].op = "send"
             PROVE  chan'[todo'[i].channel] = "empty"
  BY <1>1 DEF RoomInv
<1>2. PICK x \in Channels, v \in {"true", "false"} : todo'[i] = Send(x, v)
  <2>1. todo'[i] \in Effect
    BY <1>1, LenProperties
  <2> QED
    BY <2>1 DEF Effect, Send, Blocked
<1>3. sends(x, v)' /\ todo'[i].channel = x
  <2>1. sends(x, v)'
    BY <1>2 DEF sends
  <2> QED
    BY <1>2, <2>1, EffectFields
<1>4. ASSUME newSignal(x, v)
      PROVE  chan'[x] = "empty"
  <2>1. x \in Channels \ {"consent"} /\ chan[x] = "empty"
    BY <1>4, NewFinds
  <2>2. (\E d \in Domains : handled(d)) \/ (\E c : refuses(c))
    BY <1>4 DEF newSignal, offersDownload, findsNothing, givesUp, allIdentified, offersNext, hasRolledBack, allDone
  <2>3. chan'[x] = chan[x]
    BY <2>1, <2>2 DEF handled, refuses, onlyTodo
  <2> QED
    BY <2>1, <2>3
<1>5. ASSUME sends(x, v)
      PROVE  chan'[x] = "empty"
  <2>1. PICK j \in DOMAIN todo : todo[j] = Send(x, v)
    BY <1>5 DEF sends
  <2>2. todo[j].op = "send" /\ todo[j].channel = x
    BY <2>1, EffectFields
  <2>3. x \in Channels \ {"consent"} /\ chan[x] = "empty"
    BY <1>2, <2>2 DEF SendInv, RoomInv
  <2>4. ASSUME todo # <<>>, todo' = Tail(todo), 1 \in DOMAIN todo, todo[1].op = "send"
        PROVE  FALSE
    <3>1. i \in Nat \ {0} /\ i + 1 \in DOMAIN todo /\ todo[i + 1] = todo'[i]
      BY <1>1, <2>4, HeadIsFirst
    <3>2. i + 1 = 1
      BY <2>4, <3>1 DEF RoomInv, oneSend
    <3> QED
      BY <3>1, <3>2
  <2> QED
    BY <2>3, <2>4, ChannelKept
<1>6. chan'[x] = "empty"
  BY <1>3, <1>4, <1>5, SendKinds
<1> QED
  BY <1>3, <1>6

SenderInv ==
    /\ HomeInv /\ SendInv
    /\ pc # "idle" => /\ LevelInv /\ CleanInv /\ OfferInv /\ BackInv /\ FirstInv /\ WorthInv
                      /\ HeardInv /\ IdentifyInv /\ NilInv /\ AnnouncedInv /\ RoomInv

LEMMA StartSender ==
    ASSUME TypeOKActivity, BarrierInv, AgeInv, Start
    PROVE  HeardInv' /\ IdentifyInv' /\ NilInv' /\ AnnouncedInv' /\ RoomInv'
<1>1. /\ activity \in Nat /\ activity' = activity + 1 /\ handlers' = handlers
      /\ UNCHANGED <<inHand, feedback>> /\ todo' = <<>> /\ DOMAIN todo' = {}
  BY StartFacts DEF Start, SetupUpdateOperation, TypeOKActivity, TypeOK
<1>2. /\ \A i \in DOMAIN inHand : inHand[i].activity # activity'
      /\ \A d \in Domains : \A i \in DOMAIN feedback[d] : feedback[d][i].activity # activity'
      /\ \A h \in handlers : h.spawnedIn # activity'
  <2>1. activity \in Nat
    BY <1>1
  <2>2. ~(activity + 1 <= activity)
    BY <2>1
  <2> QED
    BY <1>1, <2>2 DEF AgeInv, BarrierInv, HandlerInv
<1>3. HeardInv'
  BY <1>1, <1>2 DEF HeardInv, single, identifiedInHand, identification
<1>4. IdentifyInv'
  BY StartFacts DEF IdentifyInv
<1>5. NilInv'
  <2>1. (\A x \in Channels : chan'[x] = "empty") \/ (pc' = "report" /\ DOMAIN domains' = {})
    BY DEF Start, SetupUpdateOperation
  <2>2. \A c \in Commands : ~waitingFor(c)'
    BY <1>1, <1>2 DEF waitingFor
  <2> QED
    BY <1>1, <2>1, <2>2 DEF NilInv, over
<1>6. AnnouncedInv'
  <2>1. \A c \in {"DOWNLOAD", "UPDATE", "ACTIVATE", "CLEANUP"} : c \in Channels
    BY PhaseNames
  <2> QED
    BY <2>1, StartFacts, StartOpens DEF AnnouncedInv
<1>7. RoomInv'
  BY <1>1 DEF RoomInv, oneSend
<1> QED
  BY <1>3, <1>4, <1>5, <1>6, <1>7

LEMMA SenderStep ==
    ASSUME steady, Once, SenderInv, TypeOKActivity', [NextActivity]_allVars
    PROVE  SenderInv'
<1>1. TypeOKActivity /\ BarrierInv /\ AgeInv
  BY DEF steady, OrderInv
<1>2. HomeInv' /\ SendInv'
  BY <1>1, HomeStep, SendStep DEF SenderInv
<1>3. CASE Start
  BY <1>1, <1>2, <1>3, StartOpens, StartSender DEF SenderInv
<1>4. CASE activity' = activity /\ (pc = "idle" => pc' = "idle")
  <2>1. ASSUME pc' # "idle"
        PROVE  /\ LevelInv' /\ CleanInv' /\ OfferInv' /\ BackInv' /\ FirstInv' /\ WorthInv'
               /\ HeardInv' /\ IdentifyInv' /\ NilInv' /\ AnnouncedInv' /\ RoomInv'
    <3>1. proceeds /\ HomeInv /\ SendInv
      BY <1>1, <1>4, <2>1 DEF proceeds, SenderInv
    <3>2. /\ LevelInv /\ CleanInv /\ OfferInv /\ BackInv /\ FirstInv /\ WorthInv
          /\ HeardInv /\ IdentifyInv /\ NilInv /\ AnnouncedInv /\ RoomInv
      BY <1>4, <2>1 DEF SenderInv
    <3>3. LevelInv' /\ CleanInv' /\ OfferInv' /\ BackInv' /\ FirstInv' /\ WorthInv'
      BY <3>1, <3>2, LevelStep, CleanStep, OfferStep, BackStep, FirstStep, WorthStep
    <3>4. HeardInv' /\ IdentifyInv' /\ NilInv'
      BY <3>1, <3>2, HeardStep, IdentifyStep, NilStep
    <3>5. AnnouncedInv' /\ RoomInv'
      BY <3>1, <3>2, <3>4, AnnouncedStep, RoomStep
    <3> QED
      BY <3>3, <3>4, <3>5
  <2> QED
    BY <1>2, <2>1 DEF SenderInv
<1> QED
  BY <1>1, <1>3, <1>4, NewActivity

LEMMA InitSender == InitActivity => SenderInv
  BY InitBlame DEF InitActivity, Init, BlameInv, SenderInv

\* the channel of the effect the lock holder is about to do has room
LEMMA SenderFacts ==
    ASSUME TypeOKActivity, IdleInv, SenderInv
    PROVE  SenderNeverBlocked
<1> SUFFICES ASSUME todo # <<>>, Head(todo).op = "send"
             PROVE  chan[Head(todo).channel] = "empty"
  BY DEF SenderNeverBlocked
<1>1. RoomInv
  BY DEF IdleInv, SenderInv
<1>2. 1 \in DOMAIN todo /\ todo[1] = Head(todo)
  BY FirstTodo DEF TypeOKActivity
<1> QED
  BY <1>1, <1>2 DEF RoomInv

\* What the lock holder is about to send apply has not been told yet: each signal is given by a
\* handler that has just changed the phase of its domain, or by the one answer of the owner, and
\* no domain comes to the end of its identification or of a phase twice. A feedback event that is
\* delivered twice can report an identification twice, so no message may be duplicated.
THEOREM SenderInvariant ==
    ASSUME "publish" \notin Faults, Once
    PROVE  SpecActivity /\ []Undisturbed => []SenderInv
<1>1. InitActivity => SenderInv
  BY InitSender
<1>2. TypeOKActivity /\ TypeOKActivity' /\ BarrierInv /\ LifecycleInv /\ OrderInv /\ OutcomeInv
      /\ Undisturbed /\ SenderInv /\ [NextActivity]_allVars => SenderInv'
  BY SenderStep DEF steady
<1>3. SpecActivity => []BarrierInv /\ []LifecycleInv
  BY ActivityIsOrchestrator, BarrierInvariant, LifecycleInvariant, PTL
<1> QED
  BY <1>1, <1>2, <1>3, ActivityTypeCorrect, OrderInvariant, OutcomeInvariant, PTL DEF SpecActivity

\* No goroutine blocks on a channel while it holds operationLock: the capacity of one each channel
\* of an operation has (newUpdateOperation, update_operation.go:82-104) is enough, although nobody
\* empties the channels apply no longer waits on. Timers of apply and a termination do not matter.
THEOREM SenderNeverBlockedHolds ==
    ASSUME "publish" \notin Faults, Once
    PROVE  SpecActivity /\ []Undisturbed => []SenderNeverBlocked
<1>1. TypeOKActivity /\ OrderInv /\ SenderInv => SenderNeverBlocked
  BY SenderFacts DEF OrderInv
<1> QED
  BY <1>1, ActivityTypeCorrect, OrderInvariant, SenderInvariant, PTL

\* Nothing is left over in the first activity of a process: every send finds room.
THEOREM FirstActivitySends ==
    ASSUME "publish" \notin Faults, Once
    PROVE  SpecActivity /\ [](activity <= 1) => []SenderNeverBlocked
<1> QED
  BY SenderNeverBlockedHolds, FirstActivityUndisturbed, PTL
=============================================================================
