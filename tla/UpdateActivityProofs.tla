------------------------- MODULE UpdateActivityProofs -------------------------
(***************************************************************************)
(* Theorems about UpdateActivity: the orchestrator among agents and owner  *)
(* that follow the protocol is the orchestrator of UpdateOrchestrator, and *)
(* it commands the phases in order.                                        *)
(***************************************************************************)
EXTENDS UpdateActivity, UpdateOrchestratorProofs

-----------------------------------------------------------------------------
(* The orchestrator of UpdateOrchestrator *)

\* Every step of the composition is one of the orchestrator or leaves it alone.
LEMMA StepOfOrchestrator ==
    ASSUME [NextActivity]_allVars
    PROVE  [Next]_vars
<1>1. CASE Start
  BY <1>1 DEF Start, Next
<1>2. CASE ApplyStep \/ HoldLockStep \/ Timeout \/ ConsentTimeout \/ TerminateStep
  BY <1>2 DEF ApplyStep, HoldLockStep, Timeout, ConsentTimeout, TerminateStep, Next
<1>3. CASE Deliver
  <2>1. ASSUME NEW m, m = inHand[1],
               \/ m \in Report /\ AgentFeedback(m.domain, m.status, m.hasActions)
               \/ m \in Answer /\ HandleOwnerConsentFeedback(m.approved)
        PROVE  Next
    <3>1. CASE m \in Report /\ AgentFeedback(m.domain, m.status, m.hasActions)
      <4>1. m.domain \in Domains /\ m.status \in FeedbackStatus /\ m.hasActions \in BOOLEAN
        BY <3>1 DEF Report
      <4> QED
        BY <3>1, <4>1 DEF Next
    <3>2. CASE m \in Answer /\ HandleOwnerConsentFeedback(m.approved)
      <4>1. m.approved \in BOOLEAN
        BY <3>2 DEF Answer
      <4> QED
        BY <3>2, <4>1 DEF Next
    <3> QED
      BY <2>1, <3>1, <3>2
  <2> QED
    BY <1>3, <2>1 DEF Deliver
<1>4. ASSUME NEW h \in handlers, HandlerStep(h)
      PROVE  Next
  BY <1>4 DEF HandlerStep, Next
<1>5. ASSUME NEW d \in Domains,
             DesiredState(d) \/ DesiredStateFailed(d) \/ CommandStep(d) \/ CommandStepFailed(d)
      PROVE  Next
  BY <1>5 DEF DesiredState, DesiredStateFailed, CommandStep, CommandStepFailed, Next
<1>6. CASE \/ TakeConsent
           \/ \E approved \in BOOLEAN : OwnerAnswers(approved)
           \/ \E d \in Domains : AgentAnswers(d) \/ TakeFeedback(d)
           \/ UNCHANGED allVars
  BY <1>6 DEF TakeConsent, OwnerAnswers, AgentAnswers, TakeFeedback, allVars
<1> QED
  BY <1>1, <1>2, <1>3, <1>4, <1>5, <1>6 DEF NextActivity, Untimed

\* The orchestrator behaves among agents and owner that follow the protocol as it does
\* in an open environment: what is proved of UpdateOrchestrator holds here as well.
THEOREM ActivityIsOrchestrator == SpecActivity => Spec
<1>1. InitActivity => Init
  BY DEF InitActivity
<1>2. [NextActivity]_allVars => [Next]_vars
  BY StepOfOrchestrator
<1> QED
  BY <1>1, <1>2, PTL DEF SpecActivity, Spec

-----------------------------------------------------------------------------
(* Types *)

Request == [job : AllCommands \cup {"identify"}, activity : Nat]

LEMMA HeadAndTail ==
    ASSUME NEW S, NEW q \in Seq(S), q # <<>>
    PROVE  /\ Head(q) \in S /\ Tail(q) \in Seq(S)
           /\ 1 \in DOMAIN q /\ q[1] = Head(q)
  BY HeadTailProperties, EmptySeq, LenProperties

LEMMA PublishTyped ==
    ASSUME TypeOKActivity, NEW d \in Domains, NEW job \in AllCommands \cup {"identify"}
    PROVE  Publish(d, job) \in [Domains -> Seq(Request)]
<1> DEFINE q == [job |-> job, activity |-> activity]
<1>1. q \in Request
  BY DEF Request, TypeOKActivity, TypeOK
<1>2. requests \in [Domains -> Seq(Request)]
  BY DEF TypeOKActivity, Request
<1>3. Append(requests[d], q) \in Seq(Request)
  BY <1>1, <1>2, AppendProperties
<1> QED
  BY <1>2, <1>3 DEF Publish

\* an agent answers with statuses of the feedback it may send
LEMMA ResultsTyped ==
    ASSUME NEW job \in AllCommands \cup {"identify"}, NEW result \in Results(job)
    PROVE  result \in Seq(FeedbackStatus)
<1>1. \A a \in FeedbackStatus : <<a>> \in Seq(FeedbackStatus)
  OBVIOUS
<1>2. \A a, b \in FeedbackStatus : <<a, b>> \in Seq(FeedbackStatus)
  OBVIOUS
<1>3. \A a, b, c \in FeedbackStatus : <<a, b, c>> \in Seq(FeedbackStatus)
  OBVIOUS
<1>4. /\ {"IDENTIFIED", "IDENTIFICATION_FAILED"} \subseteq FeedbackStatus
      /\ {"DOWNLOADING", "UPDATING", "ACTIVATING", "ROLLBACK", "CLEANUP"} \subseteq FeedbackStatus
      /\ {"DOWNLOAD_SUCCESS", "DOWNLOAD_FAILURE", "UPDATE_SUCCESS", "UPDATE_FAILURE"} \subseteq FeedbackStatus
      /\ {"ACTIVATION_SUCCESS", "ACTIVATION_FAILURE"} \subseteq FeedbackStatus
      /\ {"ROLLBACK_SUCCESS", "ROLLBACK_FAILURE"} \subseteq FeedbackStatus
      /\ Finished \subseteq FeedbackStatus /\ {"COMPLETED", "INCOMPLETE"} \subseteq FeedbackStatus
  BY Zenon DEF FeedbackStatus, Finished
<1>5. CASE job = "identify"
  <2>1. \E a \in {"IDENTIFIED", "IDENTIFICATION_FAILED"} : result = <<a>>
    BY <1>5 DEF Results
  <2> QED
    BY <1>1, <1>4, <2>1, Zenon
<1>6. CASE job = "DOWNLOAD"
  <2>1. \E r \in {"DOWNLOAD_SUCCESS", "DOWNLOAD_FAILURE"} : result = <<"DOWNLOADING", r>>
    BY <1>6 DEF Results
  <2> QED
    BY <1>2, <1>4, <2>1, Zenon
<1>7. CASE job = "UPDATE"
  <2>1. \E r \in {"UPDATE_SUCCESS", "UPDATE_FAILURE"} : result = <<"UPDATING", r>>
    BY <1>7 DEF Results
  <2> QED
    BY <1>2, <1>4, <2>1, Zenon
<1>8. CASE job = "ACTIVATE"
  <2>1. \E r \in {"ACTIVATION_SUCCESS", "ACTIVATION_FAILURE"} : result = <<"ACTIVATING", r>>
    BY <1>8 DEF Results
  <2> QED
    BY <1>2, <1>4, <2>1, Zenon
<1>9. CASE job = "ROLLBACK"
  <2>1. \E r \in {"ROLLBACK_SUCCESS", "ROLLBACK_FAILURE"} : result = <<"ROLLBACK", r>>
    BY <1>9 DEF Results
  <2> QED
    BY <1>2, <1>4, <2>1, Zenon
<1>10. CASE job = "CLEANUP"
  <2>1. PICK r \in Finished, f \in {"COMPLETED", "INCOMPLETE"} : result = <<"CLEANUP", r, f>>
    BY <1>10 DEF Results
  <2>2. "CLEANUP" \in FeedbackStatus /\ r \in FeedbackStatus /\ f \in FeedbackStatus
    BY <1>4, Zenon
  <2> QED
    BY <1>3, <2>1, <2>2
<1> QED
  BY <1>5, <1>6, <1>7, <1>8, <1>9, <1>10 DEF AllCommands, Commands

LEMMA AgentAnswersTyped ==
    ASSUME TypeOKActivity, NEW d \in Domains, AgentAnswers(d)
    PROVE  TypeOKActivity'
<1>1. PICK result \in Results(Head(requests[d]).job), hasActions \in BOOLEAN :
        /\ feedback' = [feedback EXCEPT ![d] = @ \o [i \in DOMAIN result |->
                          [domain |-> d, status |-> result[i], hasActions |-> hasActions,
                           activity |-> Head(requests[d]).activity]]]
        /\ failed' = failed \cup {d} \/ failed' = failed
  BY Zenon DEF AgentAnswers
<1>2. /\ requests \in [Domains -> Seq(Request)] /\ requests[d] # <<>>
      /\ requests' = [requests EXCEPT ![d] = Tail(@)]
      /\ UNCHANGED <<vars, asked, answers, inHand, duplicates, granted, refused>>
  BY DEF AgentAnswers, TypeOKActivity, Request
<1>3. Head(requests[d]) \in Request /\ Tail(requests[d]) \in Seq(Request)
  BY <1>2, HeadAndTail
<1>4. result \in Seq(FeedbackStatus)
  BY <1>3, ResultsTyped DEF Request
<1> DEFINE report(s) == [domain |-> d, status |-> s, hasActions |-> hasActions,
                         activity |-> Head(requests[d]).activity]
           answer == [i \in DOMAIN result |-> report(result[i])]
<1>5. answer \in Seq(Report)
  <2>1. \A s \in FeedbackStatus : report(s) \in Report
    BY <1>3 DEF Report, Request
  <2> QED
    BY <1>4, <2>1
<1>6. feedback[d] \o answer \in Seq(Report)
  BY <1>5 DEF TypeOKActivity
<1>7. feedback' \in [Domains -> Seq(Report)]
  BY <1>1, <1>6 DEF TypeOKActivity
<1>8. requests' \in [Domains -> Seq(Request)]
  BY <1>2, <1>3
<1>9. TypeOK'
  BY <1>2 DEF TypeOKActivity, TypeOK, vars, opVars
<1> QED
  BY <1>1, <1>2, <1>7, <1>8, <1>9 DEF TypeOKActivity, Request

LEMMA OwnerAnswersTyped ==
    ASSUME TypeOKActivity, NEW approved \in BOOLEAN, OwnerAnswers(approved)
    PROVE  TypeOKActivity'
<1>1. PICK r \in asked :
        /\ asked' = asked \ {r}
        /\ answers' = Append(answers, [command |-> r.command, approved |-> approved,
                                       activity |-> r.activity])
        /\ granted' = IF approved /\ r.activity = activity THEN granted \cup {r.command} ELSE granted
        /\ refused' = IF ~approved /\ r.activity = activity THEN refused \cup {r.command} ELSE refused
  BY DEF OwnerAnswers
<1>2. r.command \in Commands /\ r.activity \in Nat
  BY DEF TypeOKActivity
<1>3. [command |-> r.command, approved |-> approved, activity |-> r.activity] \in Answer
  BY <1>2 DEF Answer
<1>4. answers' \in Seq(Answer)
  BY <1>1, <1>3, AppendProperties DEF TypeOKActivity
<1>5. UNCHANGED <<vars, requests, feedback, inHand, duplicates, failed>>
  BY DEF OwnerAnswers
<1>6. TypeOK'
  BY <1>5 DEF TypeOKActivity, TypeOK, vars, opVars
<1>7. granted' \subseteq Commands /\ refused' \subseteq Commands
  BY <1>1, <1>2 DEF TypeOKActivity
<1>8. asked' \subseteq [command : Commands, activity : Nat]
  BY <1>1 DEF TypeOKActivity
<1> QED
  BY <1>4, <1>5, <1>6, <1>7, <1>8 DEF TypeOKActivity

\* what the router takes is a report or an answer
LEMMA TakeTyped ==
    ASSUME TypeOKActivity, TakeConsent \/ \E d \in Domains : TakeFeedback(d)
    PROVE  TypeOKActivity'
<1>1. duplicates' \in 0..MaxDuplicates
  BY ActivityAssumption DEF TakeConsent, TakeFeedback, KeepCopy, TypeOKActivity
<1>2. \A m \in Report \cup Answer : <<m>> \in Seq(Report \cup Answer) /\ Len(<<m>>) <= 1
  OBVIOUS
<1>3. <<>> \in Seq(Report \cup Answer) /\ Len(<<>>) <= 1
  OBVIOUS
<1>4. CASE TakeConsent
  <2>1. Head(answers) \in Answer /\ Tail(answers) \in Seq(Answer)
    BY <1>4, HeadAndTail DEF TakeConsent, TypeOKActivity
  <2>2. inHand' \in Seq(Report \cup Answer) /\ Len(inHand') <= 1
    BY <1>2, <1>3, <1>4, <2>1 DEF TakeConsent
  <2>3. answers' \in Seq(Answer)
    BY <1>4, <2>1 DEF TakeConsent, TypeOKActivity
  <2>4. TypeOK'
    BY <1>4 DEF TakeConsent, TypeOKActivity, TypeOK, vars, opVars
  <2> QED
    BY <1>1, <1>4, <2>2, <2>3, <2>4 DEF TakeConsent, TypeOKActivity
<1>5. ASSUME NEW d \in Domains, TakeFeedback(d)
      PROVE  TypeOKActivity'
  <2>1. feedback \in [Domains -> Seq(Report)] /\ feedback[d] # <<>>
    BY <1>5 DEF TakeFeedback, TypeOKActivity
  <2>2. Head(feedback[d]) \in Report /\ Tail(feedback[d]) \in Seq(Report)
    BY <2>1, HeadAndTail
  <2>3. inHand' \in Seq(Report \cup Answer) /\ Len(inHand') <= 1
    BY <1>2, <1>5, <2>2 DEF TakeFeedback
  <2>4. feedback' \in [Domains -> Seq(Report)]
    BY <1>5, <2>1, <2>2 DEF TakeFeedback
  <2>5. TypeOK'
    BY <1>5 DEF TakeFeedback, TypeOKActivity, TypeOK, vars, opVars
  <2> QED
    BY <1>1, <1>5, <2>3, <2>4, <2>5 DEF TakeFeedback, TypeOKActivity
<1> QED
  BY <1>4, <1>5

LEMMA NextActivityTyped ==
    ASSUME TypeOKActivity, [NextActivity]_allVars
    PROVE  TypeOKActivity'
<1>1. TypeOK'
  BY StepOfOrchestrator, NextTyped DEF TypeOKActivity
<1>2. CASE Start
  BY <1>1, <1>2 DEF Start, TypeOKActivity
<1>3. CASE \/ ApplyStep \/ HoldLockStep \/ Timeout \/ ConsentTimeout \/ TerminateStep
           \/ UNCHANGED allVars
  BY <1>1, <1>3 DEF ApplyStep, HoldLockStep, Timeout, ConsentTimeout, TerminateStep, allVars, envVars,
                    TypeOKActivity
<1>4. CASE Deliver
  <2>1. <<>> \in Seq(Report \cup Answer) /\ Len(<<>>) <= 1
    OBVIOUS
  <2> QED
    BY <1>1, <1>4, <2>1 DEF Deliver, TypeOKActivity
<1>5. ASSUME NEW h \in handlers, HandlerStep(h)
      PROVE  TypeOKActivity'
  <2>1. h.command \in Commands /\ activity \in Nat
    BY DEF TypeOKActivity, TypeOK
  <2>2. asked' \subseteq [command : Commands, activity : Nat]
    BY <1>5, <2>1 DEF HandlerStep, TypeOKActivity
  <2> QED
    BY <1>1, <1>5, <2>2 DEF HandlerStep, TypeOKActivity
<1>6. ASSUME NEW d \in Domains, DesiredState(d)
      PROVE  TypeOKActivity'
  <2>1. requests' \in [Domains -> Seq(Request)]
    BY <1>6, PublishTyped DEF DesiredState, TypeOKActivity, Request
  <2> QED
    BY <1>1, <1>6, <2>1 DEF DesiredState, TypeOKActivity, Request
<1>7. ASSUME NEW d \in Domains, DesiredStateFailed(d)
      PROVE  TypeOKActivity'
  BY <1>1, <1>7 DEF DesiredStateFailed, TypeOKActivity
<1>8. ASSUME NEW d \in Domains, CommandStep(d) \/ CommandStepFailed(d)
      PROVE  TypeOKActivity'
  <2>1. Head(todo).command \in AllCommands
    BY <1>8, HeadFields DEF CommandStep, CommandStepFailed, CommandDomain, CommandFailed,
                            TypeOKActivity
  <2>2. requests' \in [Domains -> Seq(Request)]
    BY <1>8, <2>1, PublishTyped DEF CommandStep, CommandStepFailed, TypeOKActivity, Request
  <2> QED
    BY <1>1, <1>8, <2>2 DEF CommandStep, CommandStepFailed, TypeOKActivity, Request
<1> QED
  BY <1>2, <1>3, <1>4, <1>5, <1>6, <1>7, <1>8, AgentAnswersTyped, OwnerAnswersTyped, TakeTyped
     DEF NextActivity, Untimed

LEMMA InitActivityTyped == InitActivity => TypeOKActivity
<1> SUFFICES ASSUME InitActivity PROVE TypeOKActivity
  OBVIOUS
<1>1. TypeOK
  BY InitTyped DEF InitActivity
<1>2. /\ \A S : <<>> \in Seq(S)
      /\ Len(<<>>) <= 1
  OBVIOUS
<1> QED
  BY <1>1, <1>2, ActivityAssumption DEF InitActivity, TypeOKActivity

\* Whatever is published, delivered, delivered twice or lost, every message is one the
\* handlers expect and the router has at most one in hand.
THEOREM ActivityTypeCorrect == SpecActivity => []TypeOKActivity
  BY InitActivityTyped, NextActivityTyped, PTL DEF SpecActivity

-----------------------------------------------------------------------------
(* What a report does, by the shape of what is left to do *)

running == <<Notify("IDENTIFIED"), Notify("RUNNING"), SetStatus("RUNNING"), Send("DOWNLOAD", "true")>>
nothingToDo == <<Notify("IDENTIFIED"), SetStatus("COMPLETED"), Send("DOWNLOAD", "false")>>

\* the report s of a domain ends a phase, and next is signalled
endsPhase(s, next) ==
    \/ s = "DOWNLOAD_SUCCESS" /\ next = "UPDATE" /\ ~Some(domains', Downloadable)
    \/ s = "UPDATE_SUCCESS" /\ next = "ACTIVATE" /\ ~Some(domains', Updatable)
    \/ s = "ACTIVATION_SUCCESS" /\ next = "CLEANUP" /\ ~Some(domains', Activatable)
    \/ s = "ROLLBACK_SUCCESS" /\ next = "CLEANUP" /\ ~Some(domains', Rollbackable)

LEMMA FeedbackShapes ==
    ASSUME NEW d, NEW s, NEW hasActions, HandleDesiredStateFeedbackEvent(d, s, hasActions)
    PROVE  \/ todo' = <<>>
           \/ todo' \in {IdentificationFailed, running, nothingToDo} /\ identifying
           \/ todo' = <<Notify("RUNNING")>>
           \/ \E next \in Commands : todo' = <<Send(next, "true"), Notify("RUNNING")>>
                                     /\ status = "RUNNING" /\ endsPhase(s, next)
           \/ todo' = <<Command("CLEANUP", {d}, activity)>>
           \/ todo' = <<SetStatus("INCOMPLETE"), Send("err", "true")>>
           \/ todo' = <<SetStatus("COMPLETED"), Send("done", "true")>>
<1>1. CASE ~(Accepts(d, s) /\ HandleAccepted(d, s, hasActions))
  BY <1>1 DEF HandleDesiredStateFeedbackEvent
<1>2. CASE Accepts(d, s) /\ HandleAccepted(d, s, hasActions)
  <2>1. CASE \/ s = "IDENTIFIED" /\ HandleDomainIdentified(d, hasActions)
             \/ s = "IDENTIFICATION_FAILED" /\ HandleDomainIdentificationFailed(d)
    BY <1>2, <2>1 DEF Accepts, AcceptedIn, identifying, HandleDomainIdentified,
                      HandleDomainIdentificationFailed, running, nothingToDo
  <2>2. ASSUME NEW from, NEW progress, NEW success, NEW failure, NEW next \in Commands,
               PhaseFeedback(d, s, from, progress, success, failure, next)
        PROVE  \/ todo' = <<>>
               \/ todo' = <<Notify("RUNNING")>>
               \/ /\ todo' = <<Send(next, "true"), Notify("RUNNING")>>
                  /\ s = success /\ ~Some(domains', from)
               \/ todo' = <<Command("CLEANUP", {d}, activity)>>
    BY <2>2 DEF PhaseFeedback
  <2>3. CASE HandleDomainDownload(d, s)
    <3>1. status = "RUNNING"
      BY <1>2, <2>3 DEF Accepts, AcceptedIn, HandleDomainDownload, PhaseFeedback
    <3> QED
      BY <2>2, <2>3, <3>1 DEF HandleDomainDownload, endsPhase, Commands
  <2>4. CASE HandleDomainUpdate(d, s)
    <3>1. status = "RUNNING"
      BY <1>2, <2>4 DEF Accepts, AcceptedIn, HandleDomainUpdate, PhaseFeedback
    <3> QED
      BY <2>2, <2>4, <3>1 DEF HandleDomainUpdate, endsPhase, Commands
  <2>5. CASE HandleDomainActivation(d, s)
    <3>1. status = "RUNNING"
      BY <1>2, <2>5 DEF Accepts, AcceptedIn, HandleDomainActivation, PhaseFeedback
    <3> QED
      BY <2>2, <2>5, <3>1 DEF HandleDomainActivation, endsPhase, Commands
  <2>6. CASE HandleDomainRollback(d, s)
    <3>1. status = "RUNNING"
      BY <1>2, <2>6 DEF Accepts, AcceptedIn, HandleDomainRollback, PhaseFeedback
    <3> QED
      BY <2>2, <2>6, <3>1 DEF HandleDomainRollback, endsPhase, Commands
  <2>7. CASE s = "CLEANUP" /\ todo' = <<Notify("RUNNING")>>
    BY <2>7
  <2>8. CASE HandleDomainFinished(d, s)
    BY <2>8 DEF HandleDomainFinished, DomainUpdateCompleted
  <2> QED
    BY <1>2, <2>1, <2>3, <2>4, <2>5, <2>6, <2>7, <2>8 DEF HandleAccepted
<1> QED
  BY <1>1, <1>2

\* the statuses an agent passes through in a phase; operation.domains never holds them
Progress == {"DOWNLOADING", "UPDATING", "ACTIVATING", "ROLLBACK", "CLEANUP"}

LEMMA FeedbackDomains ==
    ASSUME TypeOK, NEW d, NEW s, NEW hasActions, HandleDesiredStateFeedbackEvent(d, s, hasActions)
    PROVE  /\ d \in DOMAIN domains
           /\ \/ UNCHANGED domains
              \/ \E v \in DomainStatus \ Progress :
                   /\ domains' = [domains EXCEPT ![d] = v]
                   /\ ~identifying => v \in beyond
                   /\ v = "DOWNLOAD_SUCCESS" => domains[d] \in Downloadable
<1>1. d \in DOMAIN domains
  BY DEF HandleDesiredStateFeedbackEvent
<1>2. CASE ~(Accepts(d, s) /\ HandleAccepted(d, s, hasActions))
  BY <1>1, <1>2 DEF HandleDesiredStateFeedbackEvent
<1>3. CASE Accepts(d, s) /\ HandleAccepted(d, s, hasActions)
  <2> DEFINE moved == \/ UNCHANGED domains
                      \/ \E v \in DomainStatus \ Progress :
                           /\ domains' = [domains EXCEPT ![d] = v]
                           /\ ~identifying => v \in beyond
                           /\ v = "DOWNLOAD_SUCCESS" => domains[d] \in Downloadable
  <2>1. CASE \/ s = "IDENTIFIED" /\ HandleDomainIdentified(d, hasActions)
             \/ s = "IDENTIFICATION_FAILED" /\ HandleDomainIdentificationFailed(d)
    <3>1. identifying
      BY <1>3, <2>1 DEF Accepts, AcceptedIn, identifying
    <3>2. \E v \in {"IDENTIFIED", "CLEANUP_SUCCESS", "IDENTIFICATION_FAILED"} :
            domains' = [domains EXCEPT ![d] = v]
      BY <2>1 DEF HandleDomainIdentified, HandleDomainIdentificationFailed
    <3> QED
      BY <1>1, <3>1, <3>2 DEF DomainStatus, FeedbackStatus, Progress
  <2>2. ASSUME NEW from, NEW progress, NEW success \in beyond \ Progress, NEW failure \in beyond \ Progress,
               NEW next, PhaseFeedback(d, s, from, progress, success, failure, next),
               success = "DOWNLOAD_SUCCESS" /\ s = success => domains[d] \in Downloadable,
               failure # "DOWNLOAD_SUCCESS"
        PROVE  moved
    <3>1. \/ UNCHANGED domains
          \/ s = success /\ domains' = [domains EXCEPT ![d] = success]
          \/ domains' = [domains EXCEPT ![d] = failure]
      BY <2>2 DEF PhaseFeedback
    <3> QED
      BY <2>2, <3>1 DEF beyond
  <2>3. /\ {"DOWNLOAD_SUCCESS", "DOWNLOAD_FAILURE", "UPDATE_SUCCESS", "UPDATE_FAILURE",
            "ACTIVATION_SUCCESS", "ACTIVATION_FAILURE", "ROLLBACK_SUCCESS", "ROLLBACK_FAILURE"}
           \subseteq beyond \ Progress
        /\ Finished \subseteq beyond \ Progress
    BY DEF beyond, Progress, DomainStatus, FeedbackStatus, Finished
  <2>4. CASE HandleDomainDownload(d, s)
    <3>1. s = "DOWNLOAD_SUCCESS" => domains[d] \in Downloadable
      BY <1>3 DEF Accepts, AcceptedFrom
    <3> QED
      BY <1>1, <2>2, <2>3, <2>4, <3>1 DEF HandleDomainDownload
  <2>5. CASE HandleDomainUpdate(d, s)
    BY <1>1, <2>2, <2>3, <2>5 DEF HandleDomainUpdate
  <2>6. CASE HandleDomainActivation(d, s)
    BY <1>1, <2>2, <2>3, <2>6 DEF HandleDomainActivation
  <2>7. CASE HandleDomainRollback(d, s)
    BY <1>1, <2>2, <2>3, <2>7 DEF HandleDomainRollback
  <2>8. CASE s = "CLEANUP" /\ UNCHANGED domains
    BY <1>1, <2>8
  <2>9. CASE HandleDomainFinished(d, s)
    <3>1. \E v \in Finished : domains' = [domains EXCEPT ![d] = v]
      BY <2>9 DEF HandleDomainFinished, Finished
    <3> QED
      BY <1>1, <2>3, <3>1 DEF Finished, beyond
  <2> QED
    BY <1>1, <1>3, <2>1, <2>4, <2>5, <2>6, <2>7, <2>8, <2>9 DEF HandleAccepted
<1> QED
  BY <1>2, <1>3

-----------------------------------------------------------------------------
(* Where messages come from *)

LEMMA SingletonEntry ==
    ASSUME NEW e
    PROVE  \A k \in DOMAIN <<e>> : <<e>>[k] = e
  OBVIOUS

LEMMA AppendEntries ==
    ASSUME NEW S, NEW q \in Seq(S), NEW e \in S
    PROVE  \A i \in DOMAIN Append(q, e) :
             (i \in DOMAIN q /\ Append(q, e)[i] = q[i]) \/ (i = Len(q) + 1 /\ Append(q, e)[i] = e)
  BY AppendProperties, LenProperties

LEMMA ConcatEntries ==
    ASSUME NEW S, NEW q \in Seq(S), NEW r \in Seq(S)
    PROVE  \A i \in DOMAIN (q \o r) :
             (i \in DOMAIN q /\ (q \o r)[i] = q[i]) \/ (\E j \in DOMAIN r : (q \o r)[i] = r[j])
<1> SUFFICES ASSUME NEW i \in DOMAIN (q \o r), i \notin DOMAIN q
             PROVE  \E j \in DOMAIN r : (q \o r)[i] = r[j]
  BY ConcatProperties, LenProperties
<1>1. i - Len(q) \in DOMAIN r /\ (q \o r)[i] = r[i - Len(q)]
  BY ConcatProperties, LenProperties
<1> QED
  BY <1>1

\* a request is the desired state or what the lock holder commands
LEMMA RequestsStep ==
    ASSUME TypeOKActivity, [NextActivity]_allVars, NEW e \in Domains, NEW i \in DOMAIN requests'[e]
    PROVE  \/ \E j \in DOMAIN requests[e] : requests'[e][i] = requests[e][j]
           \/ \E job \in AllCommands \cup {"identify"} :
                /\ requests'[e][i] = [job |-> job, activity |-> activity]
                /\ job = "identify" \/ (todo # <<>> /\ Head(todo).op = "command" /\ job = Head(todo).command)
<1> DEFINE goal == \/ \E j \in DOMAIN requests[e] : requests'[e][i] = requests[e][j]
                   \/ \E job \in AllCommands \cup {"identify"} :
                        /\ requests'[e][i] = [job |-> job, activity |-> activity]
                        /\ job = "identify" \/ (todo # <<>> /\ Head(todo).op = "command" /\ job = Head(todo).command)
<1>1. requests \in [Domains -> Seq(Request)] /\ activity \in Nat
  BY DEF TypeOKActivity, TypeOK, Request
<1>2. CASE UNCHANGED requests
  BY <1>2
<1>3. ASSUME NEW d \in Domains, NEW job \in AllCommands \cup {"identify"}, requests' = Publish(d, job),
             job = "identify" \/ (todo # <<>> /\ Head(todo).op = "command" /\ job = Head(todo).command)
      PROVE  goal
  <2> DEFINE q == [job |-> job, activity |-> activity]
  <2>1. q \in Request
    BY <1>1 DEF Request
  <2>2. requests'[e] = IF e = d THEN Append(requests[d], q) ELSE requests[e]
    BY <1>1, <1>3 DEF Publish
  <2> HIDE DEF q
  <2>3. (\E j \in DOMAIN requests[e] : requests'[e][i] = requests[e][j]) \/ requests'[e][i] = q
    BY <1>1, <2>1, <2>2, AppendEntries
  <2> QED
    BY <1>3, <2>3 DEF q
<1>4. ASSUME NEW d \in Domains, DesiredState(d)
      PROVE  goal
  BY <1>2, <1>3, <1>4 DEF DesiredState
<1>5. ASSUME NEW d \in Domains, CommandStep(d) \/ CommandStepFailed(d)
      PROVE  goal
  <2>1. todo # <<>> /\ Head(todo).op = "command"
    BY <1>5 DEF CommandStep, CommandStepFailed, CommandDomain, CommandFailed
  <2>2. Head(todo).command \in AllCommands
    BY <2>1, HeadFields DEF TypeOKActivity
  <2> QED
    BY <1>2, <1>3, <1>5, <2>1, <2>2 DEF CommandStep, CommandStepFailed
<1>6. ASSUME NEW d \in Domains, AgentAnswers(d)
      PROVE  goal
  <2>1. requests[d] # <<>> /\ requests' = [requests EXCEPT ![d] = Tail(@)]
    BY <1>6 DEF AgentAnswers
  <2>2. CASE e = d
    <3>1. requests'[e] = Tail(requests[e])
      BY <1>1, <2>1, <2>2
    <3> QED
      BY <1>1, <2>1, <2>2, <3>1, HeadIsFirst
  <2> QED
    BY <1>1, <2>1, <2>2
<1>7. CASE \/ Start \/ ApplyStep \/ HoldLockStep \/ Deliver \/ Timeout \/ ConsentTimeout
           \/ TerminateStep \/ TakeConsent \/ \E h \in handlers : HandlerStep(h)
  BY <1>2, <1>7 DEF Start, ApplyStep, HoldLockStep, Deliver, Timeout, ConsentTimeout, TerminateStep,
                    TakeConsent, HandlerStep, envVars
<1>8. CASE \/ \E approved \in BOOLEAN : OwnerAnswers(approved)
           \/ \E d \in Domains : DesiredStateFailed(d) \/ TakeFeedback(d)
           \/ UNCHANGED allVars
  BY <1>2, <1>8 DEF OwnerAnswers, DesiredStateFailed, TakeFeedback, allVars, envVars
<1> QED
  BY <1>4, <1>5, <1>6, <1>7, <1>8 DEF NextActivity, Untimed

\* the phases of an update the owner can be asked about
Phases == {"DOWNLOAD", "UPDATE", "ACTIVATE"}

\* the statuses reported in each
ReportsOf(c) ==
    CASE c = "DOWNLOAD" -> {"DOWNLOADING", "DOWNLOAD_SUCCESS", "DOWNLOAD_FAILURE"}
      [] c = "UPDATE"   -> {"UPDATING", "UPDATE_SUCCESS", "UPDATE_FAILURE"}
      [] c = "ACTIVATE" -> {"ACTIVATING", "ACTIVATION_SUCCESS", "ACTIVATION_FAILURE"}
      [] OTHER          -> {}

LEMMA ResultsOfPhase ==
    ASSUME NEW job \in AllCommands \cup {"identify"}, NEW result \in Results(job), NEW i \in DOMAIN result,
           NEW c \in Phases, result[i] \in ReportsOf(c)
    PROVE  job = c
<1>1. CASE job = "identify"
  BY <1>1 DEF Results, ReportsOf, Phases
<1>2. CASE job = "DOWNLOAD"
  BY <1>2 DEF Results, ReportsOf, Phases
<1>3. CASE job = "UPDATE"
  BY <1>3 DEF Results, ReportsOf, Phases
<1>4. CASE job = "ACTIVATE"
  BY <1>4 DEF Results, ReportsOf, Phases
<1>5. CASE job = "ROLLBACK"
  BY <1>5 DEF Results, ReportsOf, Phases
<1>6. CASE job = "CLEANUP"
  BY <1>6 DEF Results, ReportsOf, Phases, Finished
<1> QED
  BY <1>1, <1>2, <1>3, <1>4, <1>5, <1>6 DEF AllCommands, Commands

\* a report is an agent's answer to a request
LEMMA ReportsStep ==
    ASSUME TypeOKActivity, [NextActivity]_allVars, NEW e \in Domains, NEW i \in DOMAIN feedback'[e]
    PROVE  \/ \E j \in DOMAIN feedback[e] : feedback'[e][i] = feedback[e][j]
           \/ /\ 1 \in DOMAIN requests[e] /\ feedback'[e][i].activity = requests[e][1].activity
              /\ \A c \in Phases : feedback'[e][i].status \in ReportsOf(c) => requests[e][1].job = c
<1> DEFINE goal == \/ \E j \in DOMAIN feedback[e] : feedback'[e][i] = feedback[e][j]
                   \/ /\ 1 \in DOMAIN requests[e] /\ feedback'[e][i].activity = requests[e][1].activity
                      /\ \A c \in Phases : feedback'[e][i].status \in ReportsOf(c) => requests[e][1].job = c
<1>1. requests \in [Domains -> Seq(Request)] /\ feedback \in [Domains -> Seq(Report)]
  BY DEF TypeOKActivity, Request
<1>2. CASE UNCHANGED feedback
  BY <1>2
<1>3. ASSUME NEW d \in Domains, AgentAnswers(d)
      PROVE  goal
  <2>1. PICK result \in Results(Head(requests[d]).job), hasActions \in BOOLEAN :
          feedback' = [feedback EXCEPT ![d] = @ \o [k \in DOMAIN result |->
                        [domain |-> d, status |-> result[k], hasActions |-> hasActions,
                         activity |-> Head(requests[d]).activity]]]
    BY <1>3, Zenon DEF AgentAnswers
  <2>2. requests[d] # <<>>
    BY <1>3 DEF AgentAnswers
  <2>3. Head(requests[d]) \in Request /\ 1 \in DOMAIN requests[d] /\ requests[d][1] = Head(requests[d])
    BY <1>1, <2>2, HeadAndTail
  <2>4. result \in Seq(FeedbackStatus)
    BY <2>3, ResultsTyped DEF Request
  <2> DEFINE report(s) == [domain |-> d, status |-> s, hasActions |-> hasActions,
                           activity |-> Head(requests[d]).activity]
             answer == [k \in DOMAIN result |-> report(result[k])]
  <2>5. answer \in Seq(Report)
    <3>1. \A s \in FeedbackStatus : report(s) \in Report
      BY <2>3 DEF Report, Request
    <3> QED
      BY <2>4, <3>1
  <2>6. feedback'[e] = IF e = d THEN feedback[e] \o answer ELSE feedback[e]
    BY <1>1, <2>1
  <2>7. \A k \in DOMAIN answer : /\ answer[k].activity = Head(requests[d]).activity
                                 /\ k \in DOMAIN result /\ answer[k].status = result[k]
    OBVIOUS
  <2> HIDE DEF answer
  <2>8. CASE e = d /\ \E j \in DOMAIN answer : feedback'[e][i] = answer[j]
    <3>1. PICK k \in DOMAIN answer : feedback'[e][i] = answer[k]
      BY <2>8
    <3>2. \A c \in Phases : feedback'[e][i].status \in ReportsOf(c) => requests[e][1].job = c
      BY <2>3, <2>7, <2>8, <3>1, ResultsOfPhase DEF Request
    <3> QED
      BY <2>3, <2>7, <2>8, <3>1, <3>2
  <2> QED
    BY <1>1, <2>5, <2>6, <2>8, ConcatEntries
<1>4. ASSUME NEW d \in Domains, TakeFeedback(d)
      PROVE  goal
  <2>1. feedback[d] # <<>> /\ (feedback' = [feedback EXCEPT ![d] = Tail(@)] \/ UNCHANGED feedback)
    BY <1>4 DEF TakeFeedback
  <2>2. CASE e = d /\ feedback' = [feedback EXCEPT ![d] = Tail(@)]
    <3>1. feedback'[e] = Tail(feedback[e])
      BY <1>1, <2>2
    <3> QED
      BY <1>1, <2>1, <2>2, <3>1, HeadIsFirst
  <2> QED
    BY <1>1, <1>2, <2>1, <2>2
<1>5. CASE \/ Start \/ ApplyStep \/ HoldLockStep \/ Deliver \/ Timeout \/ ConsentTimeout
           \/ TerminateStep \/ TakeConsent \/ \E h \in handlers : HandlerStep(h)
  BY <1>2, <1>5 DEF Start, ApplyStep, HoldLockStep, Deliver, Timeout, ConsentTimeout, TerminateStep,
                    TakeConsent, HandlerStep, envVars
<1>6. CASE \/ \E approved \in BOOLEAN : OwnerAnswers(approved)
           \/ \E d \in Domains : \/ DesiredState(d) \/ DesiredStateFailed(d)
                                 \/ CommandStep(d) \/ CommandStepFailed(d)
           \/ UNCHANGED allVars
  BY <1>2, <1>6 DEF OwnerAnswers, DesiredState, DesiredStateFailed, CommandStep, CommandStepFailed,
                    allVars, envVars
<1> QED
  BY <1>3, <1>4, <1>5, <1>6 DEF NextActivity, Untimed

\* the router takes the first report of an agent or the owner's first answer
LEMMA InHandStep ==
    ASSUME TypeOKActivity, [NextActivity]_allVars, NEW i \in DOMAIN inHand'
    PROVE  \/ i \in DOMAIN inHand /\ inHand'[i] = inHand[i]
           \/ /\ inHand'[i] \in Report
              /\ \E d \in Domains : 1 \in DOMAIN feedback[d] /\ inHand'[i] = feedback[d][1]
           \/ /\ TakeConsent /\ inHand'[i] \in Answer
              /\ 1 \in DOMAIN answers /\ inHand'[i] = answers[1]
<1>1. feedback \in [Domains -> Seq(Report)] /\ answers \in Seq(Answer)
  BY DEF TypeOKActivity
<1>2. \A m : \A k \in DOMAIN <<m>> : <<m>>[k] = m
  OBVIOUS
<1>3. DOMAIN <<>> = {}
  OBVIOUS
<1>4. ASSUME NEW d \in Domains, TakeFeedback(d)
      PROVE  /\ inHand'[i] \in Report
             /\ 1 \in DOMAIN feedback[d] /\ inHand'[i] = feedback[d][1]
  <2>1. feedback[d] # <<>> /\ inHand' = <<Head(feedback[d])>>
    BY <1>4 DEF TakeFeedback
  <2>2. Head(feedback[d]) \in Report /\ 1 \in DOMAIN feedback[d] /\ feedback[d][1] = Head(feedback[d])
    BY <1>1, <2>1, HeadAndTail
  <2> QED
    BY <1>2, <2>1, <2>2
<1>5. CASE TakeConsent
  <2>1. answers # <<>> /\ inHand' = IF awaitingConsent THEN <<Head(answers)>> ELSE <<>>
    BY <1>5 DEF TakeConsent
  <2>2. Head(answers) \in Answer /\ 1 \in DOMAIN answers /\ answers[1] = Head(answers)
    BY <1>1, <2>1, HeadAndTail
  <2> QED
    BY <1>2, <1>3, <1>5, <2>1, <2>2
<1>6. CASE Deliver
  BY <1>3, <1>6 DEF Deliver
<1>7. CASE \/ Start \/ ApplyStep \/ HoldLockStep \/ Timeout \/ ConsentTimeout
           \/ TerminateStep \/ \E h \in handlers : HandlerStep(h)
  BY <1>7 DEF Start, ApplyStep, HoldLockStep, Timeout, ConsentTimeout, TerminateStep, HandlerStep, envVars
<1>8. CASE \/ \E approved \in BOOLEAN : OwnerAnswers(approved)
           \/ \E d \in Domains : \/ DesiredState(d) \/ DesiredStateFailed(d) \/ AgentAnswers(d)
                                 \/ CommandStep(d) \/ CommandStepFailed(d)
           \/ UNCHANGED allVars
  BY <1>8 DEF OwnerAnswers, DesiredState, DesiredStateFailed, AgentAnswers, CommandStep, CommandStepFailed,
              allVars, envVars
<1> QED
  BY <1>4, <1>5, <1>6, <1>7, <1>8 DEF NextActivity, Untimed

-----------------------------------------------------------------------------
(* Where the work of the lock holder comes from *)

\* the owner's refusal leads back, or to the end
refusal(e) ==
    \/ e \in {SetStatus("INCOMPLETE"), Send("err", "true"), Send("rollback", "true")}
    \/ e.op = "command" /\ e.command = "ROLLBACK"

LEMMA HandlerEntries ==
    ASSUME TypeOK, NEW h \in handlers, HandleCommandSignal(h), NEW i \in DOMAIN todo'
    PROVE  /\ pc # "idle"
           /\ \/ /\ todo'[i].op = "command" /\ todo'[i].command = h.command
                 /\ todo'[i].spawnedIn = h.spawnedIn /\ h.command \notin OwnerConsentCommands
              \/ todo' = <<AwaitConsent(h.command, h.spawnedIn)>> /\ h.command \in OwnerConsentCommands
              \/ refusal(todo'[i]) /\ h.command \in OwnerConsentCommands
<1>1. h.command \in Commands /\ h.spawnedIn \in Nat /\ h.command \in AllCommands
  BY DEF TypeOK, AllCommands
<1>2. DOMAIN <<>> = {}
  OBVIOUS
<1>3. pc # "idle"
  BY <1>2 DEF HandleCommandSignal
<1>4. CASE h.command \notin OwnerConsentCommands /\ todo' = ExecuteCommand(h.command, h.spawnedIn)
  BY <1>1, <1>3, <1>4, ExecuteEntries
<1>5. CASE h.command \in OwnerConsentCommands /\ ConsentRefused(h.command, h.spawnedIn)
  BY <1>1, <1>3, <1>5, RefusedEntries DEF refusal
<1> QED
  BY <1>3, <1>4, <1>5 DEF HandleCommandSignal

LEMMA ConsentEntries ==
    ASSUME TypeOK, OwnerConsented \/ OwnerConsentFailed, NEW i \in DOMAIN todo'
    PROVE  /\ todo # <<>> /\ Head(todo).op = "consent"
           /\ \/ /\ OwnerConsented /\ chan["consent"] = "true"
                 /\ todo'[i].op = "command" /\ todo'[i].command = Head(todo).command
                 /\ todo'[i].spawnedIn = Head(todo).spawnedIn
              \/ refusal(todo'[i])
<1>1. todo # <<>> /\ Head(todo).op = "consent"
  BY DEF OwnerConsented, OwnerConsentFailed, awaitingConsent
<1>2. /\ Head(todo).command \in Commands /\ Head(todo).spawnedIn \in Nat
      /\ Head(todo).command \in AllCommands
  BY <1>1, HeadFields DEF AllCommands
<1>3. CASE OwnerConsented /\ chan["consent"] = "true" /\ todo' = ExecuteCommand(Head(todo).command, Head(todo).spawnedIn)
  BY <1>1, <1>2, <1>3, ExecuteEntries
<1>4. CASE ConsentRefused(Head(todo).command, Head(todo).spawnedIn)
  BY <1>1, <1>2, <1>4, RefusedEntries DEF refusal
<1> QED
  BY <1>3, <1>4 DEF OwnerConsented, OwnerConsentFailed

\* the holder does what it has to do first, and nothing else comes up meanwhile
LEMMA HolderEntries ==
    ASSUME TypeOK, HolderWork, NEW i \in DOMAIN todo'
    PROVE  \/ todo'[i] = Blocked
           \/ \E j \in DOMAIN todo : todo'[i] = todo[j]
           \/ /\ 1 \in DOMAIN todo /\ todo'[i].op = "command" /\ todo[1].op = "command"
              /\ todo'[i].command = todo[1].command /\ todo'[i].spawnedIn = todo[1].spawnedIn
<1>1. todo # <<>>
  BY DEF HolderWork, NotifyFeedback, UpdateStatus, SendSignal, CommandDomain, CommandFailed
<1>2. /\ Head(todo) = todo[1] /\ 1 \in DOMAIN todo
      /\ \A k \in DOMAIN Tail(todo) : k + 1 \in DOMAIN todo /\ Tail(todo)[k] = todo[k + 1]
  BY <1>1, HeadIsFirst DEF TypeOK
<1>3. CASE todo' = Tail(todo)
  BY <1>2, <1>3
<1>4. CASE todo' = <<Blocked>>
  BY <1>4
<1>5. ASSUME NEW d, Head(todo).op = "command", todo' = [todo EXCEPT ![1].targets = @ \ {d}]
      PROVE  \/ \E j \in DOMAIN todo : todo'[i] = todo[j]
             \/ /\ todo'[i].op = "command" /\ todo[1].op = "command"
                /\ todo'[i].command = todo[1].command /\ todo'[i].spawnedIn = todo[1].spawnedIn
  <2>1. /\ DOMAIN todo' = DOMAIN todo /\ \A j \in DOMAIN todo : j # 1 => todo'[j] = todo[j]
        /\ todo'[1] = [Head(todo) EXCEPT !.targets = @ \ {d}]
    BY <1>2, <1>5 DEF TypeOK
  <2>2. /\ todo'[1].op = "command" /\ todo'[1].command = todo[1].command
        /\ todo'[1].spawnedIn = todo[1].spawnedIn
    BY <1>1, <1>2, <1>5, <2>1, HeadTyped DEF Effect, Blocked
  <2> QED
    BY <1>2, <1>5, <2>1, <2>2
<1>6. \/ todo' = Tail(todo) \/ todo' = <<Blocked>>
      \/ \E d \in Domains : Head(todo).op = "command" /\ todo' = [todo EXCEPT ![1].targets = @ \ {d}]
  BY DEF HolderWork, NotifyFeedback, UpdateStatus, SendSignal, CommandDomain, CommandFailed
<1> QED
  BY <1>2, <1>3, <1>4, <1>5, <1>6

\* a report never makes the holder ask the owner or command a phase; the last success in a
\* phase signals the next
LEMMA FeedbackEntries ==
    ASSUME NEW d, NEW s, NEW hasActions, HandleDesiredStateFeedbackEvent(d, s, hasActions),
           NEW i \in DOMAIN todo'
    PROVE  /\ todo'[i].op # "consent"
           /\ todo'[i].op = "command" => todo'[i].command = "CLEANUP"
           /\ todo'[i].op = "send" => todo'[i].channel # "consent"
           /\ \A c : todo'[i] = Send(c, "true") => /\ c = "DOWNLOAD" => identifying
                                                   /\ c \in {"UPDATE", "ACTIVATE"} => endsPhase(s, c)
<1> DEFINE ok(e) == /\ e.op # "consent"
                    /\ e.op = "command" => e.command = "CLEANUP"
                    /\ e.op = "send" => e.channel # "consent"
                    /\ e.op = "send" /\ e.value = "true" =>
                         /\ e.channel = "DOWNLOAD" => identifying
                         /\ e.channel \in {"UPDATE", "ACTIVATE"} => endsPhase(s, e.channel)
<1>1. /\ \A x : ok(Notify(x)) /\ ok(SetStatus(x))
      /\ ok(Send("DOWNLOAD", "false"))
      /\ identifying => ok(Send("DOWNLOAD", "true"))
      /\ ok(Send("err", "true")) /\ ok(Send("done", "true"))
      /\ \A next \in Commands : endsPhase(s, next) => ok(Send(next, "true"))
      /\ ok(Command("CLEANUP", {d}, activity))
  <2>1. \A next \in Commands : endsPhase(s, next) => next # "DOWNLOAD" /\ next # "consent"
    BY DEF endsPhase
  <2> HIDE DEF ok
  <2>2. \A e : ok(e) <=> /\ e.op # "consent"
                         /\ e.op = "command" => e.command = "CLEANUP"
                         /\ e.op = "send" => e.channel # "consent"
                         /\ e.op = "send" /\ e.value = "true" =>
                              /\ e.channel = "DOWNLOAD" => identifying
                              /\ e.channel \in {"UPDATE", "ACTIVATE"} => endsPhase(s, e.channel)
    BY DEF ok
  <2> QED
    BY <2>1, <2>2, EffectFields
<1>2. ok(todo'[i])
  <2>1. CASE todo' = <<>>
    BY <2>1
  <2>2. CASE identifying /\ todo' = IdentificationFailed
    <3>1. todo'[i] \in {SetStatus("IDENTIFICATION_FAILED"), Send("err", "true")}
      BY <2>2 DEF IdentificationFailed
    <3> HIDE DEF ok
    <3> QED
      BY <1>1, <3>1
  <2>3. CASE identifying /\ todo' = running
    <3>1. todo'[i] \in {Notify("IDENTIFIED"), Notify("RUNNING"), SetStatus("RUNNING"), Send("DOWNLOAD", "true")}
      BY <2>3 DEF running
    <3> HIDE DEF ok
    <3> QED
      BY <1>1, <2>3, <3>1
  <2>4. CASE todo' = nothingToDo
    <3>1. todo'[i] \in {Notify("IDENTIFIED"), SetStatus("COMPLETED"), Send("DOWNLOAD", "false")}
      BY <2>4 DEF nothingToDo
    <3> HIDE DEF ok
    <3> QED
      BY <1>1, <3>1
  <2>5. CASE todo' = <<Notify("RUNNING")>> \/ todo' = <<Command("CLEANUP", {d}, activity)>>
    <3>1. todo'[i] \in {Notify("RUNNING"), Command("CLEANUP", {d}, activity)}
      BY <2>5
    <3> HIDE DEF ok
    <3> QED
      BY <1>1, <3>1
  <2>6. ASSUME NEW next \in Commands, todo' = <<Send(next, "true"), Notify("RUNNING")>>, endsPhase(s, next)
        PROVE  ok(todo'[i])
    <3>1. todo'[i] \in {Send(next, "true"), Notify("RUNNING")}
      BY <2>6
    <3> HIDE DEF ok
    <3> QED
      BY <1>1, <2>6, <3>1
  <2>7. CASE \/ todo' = <<SetStatus("INCOMPLETE"), Send("err", "true")>>
             \/ todo' = <<SetStatus("COMPLETED"), Send("done", "true")>>
    <3>1. todo'[i] \in {SetStatus("INCOMPLETE"), Send("err", "true"), SetStatus("COMPLETED"), Send("done", "true")}
      BY <2>7
    <3> HIDE DEF ok
    <3> QED
      BY <1>1, <3>1
  <2> HIDE DEF ok
  <2> QED
    BY <2>1, <2>2, <2>3, <2>4, <2>5, <2>6, <2>7, FeedbackShapes
<1>3. \A c : todo'[i] = Send(c, "true") =>
        todo'[i].op = "send" /\ todo'[i].channel = c /\ todo'[i].value = "true"
  BY EffectFields
<1> QED
  BY <1>2, <1>3

-----------------------------------------------------------------------------
(* The kinds of steps *)

\* the message in hand is a report of the activity under way, and is handled
reportHandled ==
    /\ 1 \in DOMAIN inHand /\ inHand[1] \in Report /\ inHand[1].activity = activity
    /\ HandleDesiredStateFeedbackEvent(inHand[1].domain, inHand[1].status, inHand[1].hasActions)

\* a desired state that could not be sent is handled like a report
sendFailureHandled ==
    \E d \in Domains : HandleDesiredStateFeedbackEvent(d, "INCOMPLETE", FALSE)

\* no other step gives the lock holder anything to do or sends a signal
restOfSteps ==
    /\ UNCHANGED todo
    /\ \A c \in Commands : chan'[c] = "true" => chan[c] = "true"
    /\ \/ handlers' = handlers
       \/ /\ Signalled /\ pc \in Commands /\ chan[pc] = "true"
          /\ handlers' = handlers \cup {[command |-> pc, spawnedIn |-> activity]}
    /\ \/ UNCHANGED <<activity, pc>>
       \/ UNCHANGED activity /\ pc # "idle"
       \/ Start

LEMMA RestOfSteps ==
    ASSUME TypeOK,
           \/ \E ds \in SUBSET Domains : Start /\ SetupUpdateOperation(ds)
           \/ Apply \/ PhaseTimeout \/ Terminate
           \/ \E approved \in BOOLEAN : HandleOwnerConsentFeedback(approved)
           \/ \E d \in Domains : SendDesiredState(d)
           \/ UNCHANGED vars
    PROVE  restOfSteps
<1>1. /\ \A c \in Commands : c \in DOMAIN chan /\ c \in Channels /\ c # "err" /\ c # "rollback" /\ c # "consent"
      /\ \A w \in Waits : w \in DOMAIN chan
  BY DEF TypeOK, Channels, Commands, Waits
<1>2. ASSUME NEW ds \in SUBSET Domains, Start, SetupUpdateOperation(ds)
      PROVE  restOfSteps
  BY <1>1, <1>2 DEF SetupUpdateOperation, restOfSteps
<1>3. CASE Identify \/ ReturnReboot \/ ReportFinal
  BY <1>3 DEF Identify, ReturnReboot, ReportFinal, restOfSteps, opVars
<1>4. CASE DisposeUpdateOperation
  BY <1>1, <1>4 DEF DisposeUpdateOperation, restOfSteps
<1>5. CASE PhaseTimeout \/ ContextDone
  BY <1>5 DEF PhaseTimeout, ContextDone, applyUnchanged, restOfSteps, Waits, Commands
<1>6. CASE ErrorSignalled \/ RollbackSignalled
  BY <1>1, <1>6 DEF ErrorSignalled, RollbackSignalled, applyUnchanged, restOfSteps, Waits, Commands, TypeOK
<1>7. CASE Signalled
  <2>1. pc # "idle" /\ UNCHANGED <<activity, todo>>
    BY <1>7 DEF Signalled, applyUnchanged, Waits, Commands
  <2>2. \A c \in Commands : chan'[c] = "true" => chan[c] = "true"
    BY <1>1, <1>7 DEF Signalled, TypeOK
  <2>3. \/ handlers' = handlers
        \/ /\ pc \in Commands /\ chan[pc] = "true"
           /\ handlers' = handlers \cup {[command |-> pc, spawnedIn |-> activity]}
    BY <1>7 DEF Signalled
  <2> QED
    BY <1>7, <2>1, <2>2, <2>3 DEF restOfSteps
<1>8. ASSUME NEW approved \in BOOLEAN, HandleOwnerConsentFeedback(approved)
      PROVE  restOfSteps
  BY <1>1, <1>8 DEF HandleOwnerConsentFeedback, restOfSteps, TypeOK
<1>9. CASE Terminate \/ (\E d \in Domains : SendDesiredState(d)) \/ UNCHANGED vars
  BY <1>9 DEF Terminate, SendDesiredState, vars, opVars, restOfSteps
<1> QED
  BY <1>2, <1>3, <1>4, <1>5, <1>6, <1>7, <1>8, <1>9 DEF Apply, Wait

LEMMA ActivityKinds ==
    ASSUME TypeOKActivity, [NextActivity]_allVars
    PROVE  \/ restOfSteps
           \/ UNCHANGED <<activity, pc>> /\ \E h \in handlers : HandlerStep(h) /\ HandleCommandSignal(h)
           \/ UNCHANGED <<activity, pc, handlers>> /\ (OwnerConsented \/ OwnerConsentFailed)
           \/ UNCHANGED <<activity, pc, handlers>> /\ HolderWork
           \/ UNCHANGED <<activity, pc, handlers, chan>> /\ (reportHandled \/ sendFailureHandled)
<1> USE DEF TypeOKActivity
<1>1. CASE Start \/ ApplyStep \/ Timeout \/ TerminateStep
  <2>1. \/ \E ds \in SUBSET Domains : Start /\ SetupUpdateOperation(ds)
        \/ Apply \/ PhaseTimeout \/ Terminate
    BY <1>1 DEF Start, ApplyStep, Timeout, TerminateStep
  <2> QED
    BY <2>1, RestOfSteps
<1>2. ASSUME NEW h \in handlers, HandlerStep(h)
      PROVE  HandleCommandSignal(h) /\ UNCHANGED <<activity, pc>>
  BY <1>2 DEF HandlerStep, HandleCommandSignal, handlerUnchanged
<1>3. CASE HoldLockStep \/ ConsentTimeout
  BY <1>3 DEF HoldLockStep, ConsentTimeout, HoldLock, HolderWork, OwnerConsented, OwnerConsentFailed,
              handlerUnchanged, NotifyFeedback, UpdateStatus, SendSignal, holderUnchanged
<1>4. CASE Deliver
  <2>1. CASE UNCHANGED vars
    BY <2>1, RestOfSteps
  <2>2. ASSUME NEW m, m = inHand[1], m \in Answer, HandleOwnerConsentFeedback(m.approved)
        PROVE  restOfSteps
    <3>1. m.approved \in BOOLEAN
      BY <2>2 DEF Answer
    <3> QED
      BY <2>2, <3>1, RestOfSteps
  <2>3. ASSUME NEW m, m = inHand[1], m \in Report, m.activity = activity,
               AgentFeedback(m.domain, m.status, m.hasActions)
        PROVE  reportHandled /\ UNCHANGED <<activity, pc, handlers, chan>>
    <3>1. 1 \in DOMAIN inHand
      BY <1>4, HeadAndTail DEF Deliver
    <3> QED
      BY <2>3, <3>1 DEF AgentFeedback, HandleDesiredStateFeedbackEvent, reportHandled
  <2> QED
    BY <1>4, <2>1, <2>2, <2>3 DEF Deliver
<1>5. ASSUME NEW d \in Domains, DesiredState(d)
      PROVE  restOfSteps
  BY <1>5, RestOfSteps DEF DesiredState
<1>6. ASSUME NEW d \in Domains, DesiredStateFailed(d)
      PROVE  \/ restOfSteps
             \/ sendFailureHandled /\ UNCHANGED <<activity, pc, handlers, chan>>
  <2>1. CASE HandleDesiredStateFeedbackEvent(d, "INCOMPLETE", FALSE)
    BY <2>1 DEF HandleDesiredStateFeedbackEvent, sendFailureHandled
  <2> QED
    BY <1>6, <2>1 DEF DesiredStateFailed, SendDesiredStateFailed, restOfSteps, opVars
<1>7. ASSUME NEW d \in Domains, CommandStep(d) \/ CommandStepFailed(d)
      PROVE  HolderWork /\ UNCHANGED <<activity, pc, handlers>>
  BY <1>7 DEF CommandStep, CommandStepFailed, CommandDomain, CommandFailed, HolderWork, holderUnchanged
<1>8. CASE \/ TakeConsent
           \/ \E approved \in BOOLEAN : OwnerAnswers(approved)
           \/ \E d \in Domains : AgentAnswers(d) \/ TakeFeedback(d)
           \/ UNCHANGED allVars
  <2>1. UNCHANGED vars
    BY <1>8 DEF TakeConsent, OwnerAnswers, AgentAnswers, TakeFeedback, allVars
  <2> QED
    BY <2>1, RestOfSteps
<1> QED
  BY <1>1, <1>2, <1>3, <1>4, <1>5, <1>6, <1>7, <1>8 DEF NextActivity, Untimed

-----------------------------------------------------------------------------
(* Commands in order *)

\* the statuses every domain has left when c is commanded to any
Behind(c) ==
    {"IDENTIFYING", "IDENTIFICATION_FAILED"}
    \cup (IF c = "DOWNLOAD" THEN {} ELSE {"IDENTIFIED"})
    \cup (IF c = "ACTIVATE" THEN {"DOWNLOAD_SUCCESS"} ELSE {})

\* ... and have left for good
reached(c) ==
    /\ ~Some(domains, Behind(c))
    /\ ~identifying /\ ~failing
    /\ pc \notin {"idle", "identify", "DOWNLOAD"}

\* what shows that the activity has come to c
requested(c) ==
    \E d \in Domains : \E i \in DOMAIN requests[d] :
        requests[d][i].job = c /\ requests[d][i].activity = activity
answered(c) ==
    \E d \in Domains : \E i \in DOMAIN feedback[d] :
        feedback[d][i].status \in ReportsOf(c) /\ feedback[d][i].activity = activity
delivered(c) ==
    \E i \in DOMAIN inHand :
        inHand[i] \in Report /\ inHand[i].status \in ReportsOf(c) /\ inHand[i].activity = activity
commanded(c) == \E i \in DOMAIN todo : todo[i].op = "command" /\ todo[i].command = c
pursued(c) == requested(c) \/ answered(c) \/ delivered(c) \/ commanded(c)

\* ... or is about to
consulted(c) == \E i \in DOMAIN todo : todo[i].op = "consent" /\ todo[i].command = c
waitingFor(c) == \E h \in handlers : h.command = c /\ h.spawnedIn = activity
signalled(c) == chan[c] = "true" \/ \E i \in DOMAIN todo : todo[i] = Send(c, "true")

carried(c) == pursued(c) \/ consulted(c) \/ waitingFor(c) \/ (c = "ACTIVATE" /\ signalled(c))

IdleInv == pc = "idle" => todo = <<>> /\ DOMAIN domains = {}
ProgressInv == \A d \in DOMAIN domains : domains[d] \notin Progress
AgeInv ==
    /\ \A d \in Domains : \A i \in DOMAIN requests[d] : requests[d][i].activity <= activity
    /\ \A d \in Domains : \A i \in DOMAIN feedback[d] : feedback[d][i].activity <= activity
    /\ \A i \in DOMAIN answers : answers[i].activity <= activity
    /\ \A i \in DOMAIN inHand : inHand[i].activity <= activity
    /\ \A r \in asked : r.activity <= activity
CarriedInv == pc # "idle" => \A c \in Phases : carried(c) => reached(c)

\* Everything on its way from one phase to the next vouches for the barrier in front of its
\* phase: signal, goroutine, question, command, request and report.
OrderInv == IdleInv /\ ProgressInv /\ AgeInv /\ CarriedInv

LEMMA FirstTodo ==
    ASSUME TypeOK, todo # <<>>
    PROVE  1 \in DOMAIN todo /\ todo[1] = Head(todo)
  BY HeadIsFirst DEF TypeOK

LEMMA RequestedStep ==
    ASSUME TypeOKActivity, [NextActivity]_allVars, activity' = activity, NEW c \in Phases, requested(c)'
    PROVE  requested(c) \/ commanded(c)
<1>1. PICK d \in Domains : \E i \in DOMAIN requests'[d] :
        requests'[d][i].job = c /\ requests'[d][i].activity = activity
  BY DEF requested
<1>1a. PICK i \in DOMAIN requests'[d] : requests'[d][i].job = c /\ requests'[d][i].activity = activity
  BY <1>1
<1>2. CASE \E j \in DOMAIN requests[d] : requests'[d][i] = requests[d][j]
  BY <1>1a, <1>2 DEF requested
<1>3. ASSUME NEW job, requests'[d][i] = [job |-> job, activity |-> activity],
             job = "identify" \/ (todo # <<>> /\ Head(todo).op = "command" /\ job = Head(todo).command)
      PROVE  commanded(c)
  <2>1. job = c
    BY <1>1a, <1>3
  <2>2. todo # <<>> /\ Head(todo).op = "command" /\ c = Head(todo).command
    BY <1>3, <2>1 DEF Phases
  <2> QED
    BY <2>2, FirstTodo DEF commanded, TypeOKActivity
<1> QED
  BY <1>2, <1>3, RequestsStep

LEMMA AnsweredStep ==
    ASSUME TypeOKActivity, [NextActivity]_allVars, activity' = activity, NEW c \in Phases, answered(c)'
    PROVE  answered(c) \/ requested(c)
<1>1. PICK d \in Domains : \E i \in DOMAIN feedback'[d] :
        feedback'[d][i].status \in ReportsOf(c) /\ feedback'[d][i].activity = activity
  BY DEF answered
<1>1a. PICK i \in DOMAIN feedback'[d] :
         feedback'[d][i].status \in ReportsOf(c) /\ feedback'[d][i].activity = activity
  BY <1>1
<1> QED
  BY <1>1a, ReportsStep DEF answered, requested

\* the router can tell reports and answers apart
LEMMA ReportsAndAnswers == Report \cap Answer = {}
<1> SUFFICES ASSUME NEW m \in Report, m \in Answer
             PROVE  FALSE
  OBVIOUS
<1>1. "domain" \in DOMAIN m
  BY DEF Report
<1>2. "domain" \notin DOMAIN m
  BY DEF Answer
<1> QED
  BY <1>1, <1>2

LEMMA DeliveredStep ==
    ASSUME TypeOKActivity, [NextActivity]_allVars, activity' = activity, NEW c \in Phases, delivered(c)'
    PROVE  delivered(c) \/ answered(c)
<1>1. PICK i \in DOMAIN inHand' :
        inHand'[i] \in Report /\ inHand'[i].status \in ReportsOf(c) /\ inHand'[i].activity = activity
  BY DEF delivered
<1> QED
  BY <1>1, InHandStep, ReportsAndAnswers DEF delivered, answered

LEMMA CommandedStep ==
    ASSUME TypeOKActivity, [NextActivity]_allVars, NEW c \in Phases, commanded(c)'
    PROVE  \/ commanded(c)
           \/ /\ pc # "idle" /\ c \notin OwnerConsentCommands
              /\ \E h \in handlers : HandlerStep(h) /\ h.command = c
           \/ OwnerConsented /\ chan["consent"] = "true" /\ Head(todo).command = c /\ consulted(c)
<1>1. PICK i \in DOMAIN todo' : todo'[i].op = "command" /\ todo'[i].command = c
  BY DEF commanded
<1>2. TypeOK /\ c # "ROLLBACK" /\ c # "CLEANUP"
  BY DEF TypeOKActivity, Phases
<1>3. ~refusal(todo'[i])
  BY <1>1, <1>2, EffectFields DEF refusal
<1>4. CASE restOfSteps
  BY <1>1, <1>4 DEF restOfSteps, commanded
<1>5. ASSUME NEW h \in handlers, HandlerStep(h), HandleCommandSignal(h)
      PROVE  pc # "idle" /\ c \notin OwnerConsentCommands /\ h.command = c
  <2>1. pc # "idle" /\ (todo' = <<AwaitConsent(h.command, h.spawnedIn)>>
                        \/ (h.command = todo'[i].command /\ h.command \notin OwnerConsentCommands))
    BY <1>2, <1>3, <1>5, HandlerEntries
  <2>2. todo' # <<AwaitConsent(h.command, h.spawnedIn)>>
    <3>2. AwaitConsent(h.command, h.spawnedIn).op # "command"
      BY DEF AwaitConsent
    <3> QED
      BY <1>1, <3>2, SingletonEntry
  <2> QED
    BY <1>1, <2>1, <2>2
<1>6. CASE OwnerConsented \/ OwnerConsentFailed
  <2>1. OwnerConsented /\ chan["consent"] = "true" /\ Head(todo).command = c
        /\ todo # <<>> /\ Head(todo).op = "consent"
    BY <1>1, <1>2, <1>3, <1>6, ConsentEntries
  <2> QED
    BY <1>2, <2>1, FirstTodo DEF consulted
<1>7. CASE HolderWork
  <2>1. todo'[i] # Blocked
    <3>1. Blocked.op # "command"
      BY DEF Blocked
    <3> QED
      BY <1>1, <3>1
  <2> QED
    BY <1>1, <1>2, <1>7, <2>1, HolderEntries DEF commanded
<1>8. CASE reportHandled \/ sendFailureHandled
  BY <1>1, <1>2, <1>8, FeedbackEntries DEF reportHandled, sendFailureHandled
<1> QED
  BY <1>4, <1>5, <1>6, <1>7, <1>8, ActivityKinds

LEMMA ConsultedStep ==
    ASSUME TypeOKActivity, [NextActivity]_allVars, NEW c \in Phases, consulted(c)'
    PROVE  \/ consulted(c)
           \/ /\ pc # "idle" /\ c \in OwnerConsentCommands
              /\ \E h \in handlers : /\ HandlerStep(h) /\ h.command = c
                                     /\ todo' = <<AwaitConsent(c, h.spawnedIn)>>
<1>1. PICK i \in DOMAIN todo' : todo'[i].op = "consent" /\ todo'[i].command = c
  BY DEF consulted
<1>2. TypeOK
  BY DEF TypeOKActivity
<1>3. ~refusal(todo'[i]) /\ todo'[i].op # "command"
  BY <1>1, EffectFields DEF refusal
<1>4. CASE restOfSteps
  BY <1>1, <1>4 DEF restOfSteps, consulted
<1>5. ASSUME NEW h \in handlers, HandlerStep(h), HandleCommandSignal(h)
      PROVE  /\ pc # "idle" /\ c \in OwnerConsentCommands /\ h.command = c
             /\ todo' = <<AwaitConsent(c, h.spawnedIn)>>
  <2>1. /\ pc # "idle" /\ todo' = <<AwaitConsent(h.command, h.spawnedIn)>>
        /\ h.command \in OwnerConsentCommands
    BY <1>2, <1>3, <1>5, HandlerEntries
  <2>2. todo'[i] = AwaitConsent(h.command, h.spawnedIn)
    BY <2>1, SingletonEntry
  <2>3. h.command = c
    BY <1>1, <2>2, EffectFields
  <2> QED
    BY <2>1, <2>3
<1>6. CASE OwnerConsented \/ OwnerConsentFailed
  BY <1>2, <1>3, <1>6, ConsentEntries
<1>7. CASE HolderWork
  <2>1. todo'[i] # Blocked
    <3>1. Blocked.op # "consent"
      BY DEF Blocked
    <3> QED
      BY <1>1, <3>1
  <2> QED
    BY <1>1, <1>2, <1>3, <1>7, <2>1, HolderEntries DEF consulted
<1>8. CASE reportHandled \/ sendFailureHandled
  BY <1>1, <1>2, <1>8, FeedbackEntries DEF reportHandled, sendFailureHandled
<1> QED
  BY <1>4, <1>5, <1>6, <1>7, <1>8, ActivityKinds

LEMMA WaitingStep ==
    ASSUME TypeOKActivity, [NextActivity]_allVars, activity' = activity, NEW c \in Phases, waitingFor(c)'
    PROVE  \/ waitingFor(c)
           \/ Signalled /\ pc = c /\ chan[c] = "true"
<1>1. PICK h \in handlers' : h.command = c /\ h.spawnedIn = activity
  BY DEF waitingFor
<1>2. CASE h \in handlers
  BY <1>1, <1>2 DEF waitingFor
<1>3. CASE h \notin handlers
  <2>1. restOfSteps /\ Signalled /\ chan[pc] = "true"
        /\ h = [command |-> pc, spawnedIn |-> activity]
    <3>1. ASSUME NEW g \in handlers, HandleCommandSignal(g)
          PROVE  handlers' \subseteq handlers
      BY <3>1 DEF HandleCommandSignal
    <3> QED
      BY <1>3, <3>1, ActivityKinds DEF restOfSteps
  <2> QED
    BY <1>1, <2>1
<1> QED
  BY <1>2, <1>3

\* the signal of a later phase comes from a report of the phase before
LEMMA SignalledStep ==
    ASSUME TypeOKActivity, [NextActivity]_allVars, NEW c \in Phases, signalled(c)'
    PROVE  \/ signalled(c)
           \/ c = "DOWNLOAD" /\ identifying /\ pc' = pc
           \/ c = "UPDATE" /\ delivered("DOWNLOAD") /\ ~Some(domains', Downloadable)
           \/ c = "ACTIVATE" /\ delivered("UPDATE") /\ ~Some(domains', Updatable)
<1>1. TypeOK /\ c \in Commands /\ c \in Channels /\ c \notin {"err", "rollback", "consent"}
  BY DEF TypeOKActivity, Phases, Channels, Commands
<1>2. CASE restOfSteps
  BY <1>1, <1>2 DEF restOfSteps, signalled
<1>3. ASSUME NEW h \in handlers, HandlerStep(h), HandleCommandSignal(h)
      PROVE  signalled(c)
  <2>1. \A i \in DOMAIN todo' : todo'[i] # Send(c, "true")
    <3>1. \A i \in DOMAIN todo' :
            todo'[i].op \in {"command"} \/ refusal(todo'[i]) \/ todo' = <<AwaitConsent(h.command, h.spawnedIn)>>
      BY <1>1, <1>3, HandlerEntries
    <3>2. todo' = <<AwaitConsent(h.command, h.spawnedIn)>> =>
            \A i \in DOMAIN todo' : todo'[i] = AwaitConsent(h.command, h.spawnedIn)
      BY Zenon, SingletonEntry
    <3> QED
      BY <1>1, <3>1, <3>2, EffectFields DEF refusal
  <2>2. chan' = chan
    BY <1>3 DEF HandleCommandSignal
  <2> QED
    BY <2>1, <2>2 DEF signalled
<1>4. CASE OwnerConsented \/ OwnerConsentFailed
  <2>1. \A i \in DOMAIN todo' : todo'[i] # Send(c, "true")
    <3>1. \A i \in DOMAIN todo' : todo'[i].op = "command" \/ refusal(todo'[i])
      BY <1>1, <1>4, ConsentEntries
    <3> QED
      BY <1>1, <3>1, EffectFields DEF refusal
  <2>2. chan'[c] = chan[c]
    BY <1>1, <1>4 DEF OwnerConsented, OwnerConsentFailed, TypeOK
  <2> QED
    BY <2>1, <2>2 DEF signalled
<1>5. CASE HolderWork
  <2>1. \A i \in DOMAIN todo' : todo'[i] = Send(c, "true") => \E j \in DOMAIN todo : todo[j] = Send(c, "true")
    BY <1>1, <1>5, HolderEntries, EffectFields DEF Blocked
  <2>2. chan'[c] = "true" => chan[c] = "true" \/ \E j \in DOMAIN todo : todo[j] = Send(c, "true")
    <3>1. CASE SendSignal
      <4>1. /\ todo # <<>> /\ Head(todo).op = "send" /\ Head(todo).channel \in Channels
            /\ Head(todo) = Send(Head(todo).channel, Head(todo).value)
            /\ chan' = [chan EXCEPT ![Head(todo).channel] = Head(todo).value]
        BY <1>1, <3>1, HeadFields DEF SendSignal
      <4> QED
        BY <1>1, <4>1, FirstTodo DEF TypeOK
    <3>2. CASE ~SendSignal
      BY <1>5, <3>2 DEF HolderWork, NotifyFeedback, UpdateStatus, CommandDomain, CommandFailed
    <3> QED
      BY <3>1, <3>2
  <2> QED
    BY <2>1, <2>2 DEF signalled
<1>6. ASSUME UNCHANGED <<activity, pc, handlers, chan>>, reportHandled \/ sendFailureHandled, ~signalled(c)
      PROVE  \/ c = "DOWNLOAD" /\ identifying /\ pc' = pc
             \/ c = "UPDATE" /\ delivered("DOWNLOAD") /\ ~Some(domains', Downloadable)
             \/ c = "ACTIVATE" /\ delivered("UPDATE") /\ ~Some(domains', Updatable)
  <2>1. PICK i \in DOMAIN todo' : todo'[i] = Send(c, "true")
    BY <1>6 DEF signalled
  <2>2. CASE reportHandled
    <3>1. /\ c = "DOWNLOAD" => identifying
          /\ c \in {"UPDATE", "ACTIVATE"} => endsPhase(inHand[1].status, c)
      BY <2>1, <2>2, FeedbackEntries DEF reportHandled
    <3>2. "DOWNLOAD_SUCCESS" \in ReportsOf("DOWNLOAD") /\ "UPDATE_SUCCESS" \in ReportsOf("UPDATE")
      BY DEF ReportsOf
    <3> QED
      BY <1>6, <2>2, <3>1, <3>2 DEF endsPhase, reportHandled, delivered, Phases
  <2>3. CASE sendFailureHandled
    <3>1. /\ c = "DOWNLOAD" => identifying
          /\ c \in {"UPDATE", "ACTIVATE"} => endsPhase("INCOMPLETE", c)
      BY <2>1, <2>3, FeedbackEntries DEF sendFailureHandled
    <3> QED
      BY <1>6, <3>1 DEF endsPhase, Phases
  <2> QED
    BY <1>6, <2>2, <2>3
<1> QED
  BY <1>2, <1>3, <1>4, <1>5, <1>6, ActivityKinds

\* a question is put by the goroutine of its command
LEMMA AskedStep ==
    ASSUME TypeOKActivity, [NextActivity]_allVars, NEW r \in asked'
    PROVE  \/ r \in asked
           \/ /\ r.activity = activity /\ r.command \in OwnerConsentCommands
              /\ \E h \in handlers : HandlerStep(h) /\ r.command = h.command
<1>1. ASSUME NEW h \in handlers, HandlerStep(h)
      PROVE  \/ r \in asked
             \/ r.activity = activity /\ r.command = h.command /\ h.command \in OwnerConsentCommands
  BY <1>1 DEF HandlerStep
<1>2. CASE \E approved \in BOOLEAN : OwnerAnswers(approved)
  BY <1>2 DEF OwnerAnswers
<1>3. CASE \/ Start \/ ApplyStep \/ HoldLockStep \/ Deliver \/ Timeout \/ ConsentTimeout
           \/ TerminateStep \/ TakeConsent
  BY <1>3 DEF Start, ApplyStep, HoldLockStep, Deliver, Timeout, ConsentTimeout, TerminateStep, TakeConsent, envVars
<1>4. CASE \/ \E d \in Domains : \/ DesiredState(d) \/ DesiredStateFailed(d) \/ AgentAnswers(d)
                                 \/ CommandStep(d) \/ CommandStepFailed(d) \/ TakeFeedback(d)
           \/ UNCHANGED allVars
  BY <1>4 DEF DesiredState, DesiredStateFailed, AgentAnswers, CommandStep, CommandStepFailed, TakeFeedback,
              allVars, envVars
<1> QED
  BY <1>1, <1>2, <1>3, <1>4 DEF NextActivity, Untimed

\* the owner answers what was asked
LEMMA AnswersStep ==
    ASSUME TypeOKActivity, [NextActivity]_allVars, NEW i \in DOMAIN answers'
    PROVE  \/ \E j \in DOMAIN answers : answers'[i] = answers[j]
           \/ \E r \in asked, approved \in BOOLEAN :
                /\ OwnerAnswers(approved)
                /\ answers'[i] = [command |-> r.command, approved |-> approved, activity |-> r.activity]
<1>1. answers \in Seq(Answer) /\ asked \subseteq [command : Commands, activity : Nat]
  BY DEF TypeOKActivity
<1>2. CASE UNCHANGED answers
  BY <1>2
<1>3. ASSUME NEW approved \in BOOLEAN, OwnerAnswers(approved)
      PROVE  \/ \E j \in DOMAIN answers : answers'[i] = answers[j]
             \/ \E r \in asked : answers'[i] = [command |-> r.command, approved |-> approved, activity |-> r.activity]
  <2>1. PICK r \in asked :
          answers' = Append(answers, [command |-> r.command, approved |-> approved, activity |-> r.activity])
    BY <1>3 DEF OwnerAnswers
  <2> DEFINE e == [command |-> r.command, approved |-> approved, activity |-> r.activity]
  <2>2. e \in Answer
    BY <1>1 DEF Answer
  <2> HIDE DEF e
  <2>3. (\E j \in DOMAIN answers : answers'[i] = answers[j]) \/ answers'[i] = e
    BY <1>1, <2>1, <2>2, AppendEntries DEF e
  <2> QED
    BY <2>3 DEF e
<1>4. CASE TakeConsent
  <2>1. answers # <<>> /\ (answers' = Tail(answers) \/ UNCHANGED answers)
    BY <1>4 DEF TakeConsent
  <2> QED
    BY <1>1, <2>1, HeadIsFirst
<1>5. CASE \/ Start \/ ApplyStep \/ HoldLockStep \/ Deliver \/ Timeout \/ ConsentTimeout
           \/ TerminateStep \/ \E h \in handlers : HandlerStep(h)
  BY <1>2, <1>5 DEF Start, ApplyStep, HoldLockStep, Deliver, Timeout, ConsentTimeout, TerminateStep, HandlerStep,
                    envVars
<1>6. CASE \/ \E d \in Domains : \/ DesiredState(d) \/ DesiredStateFailed(d) \/ AgentAnswers(d)
                                 \/ CommandStep(d) \/ CommandStepFailed(d) \/ TakeFeedback(d)
           \/ UNCHANGED allVars
  BY <1>2, <1>6 DEF DesiredState, DesiredStateFailed, AgentAnswers, CommandStep, CommandStepFailed, TakeFeedback,
                    allVars, envVars
<1> QED
  BY <1>3, <1>4, <1>5, <1>6 DEF NextActivity, Untimed

LEMMA ReachedKept ==
    ASSUME TypeOK, TypeOK', BarrierInv, LifecycleInv, ProgressInv, [Next]_vars,
           activity' = activity, pc' # "idle", NEW c \in Phases, reached(c)
    PROVE  reached(c)'
<1>1. activity \in Nat /\ LeftInv
  BY DEF TypeOK, LifecycleInv
<1>2. CASE \E ds \in SUBSET Domains : SetupUpdateOperation(ds)
  <2>1. activity' = activity + 1
    BY <1>2, Zenon DEF SetupUpdateOperation
  <2> QED
    BY <1>1, <2>1
<1>3. CASE DisposeUpdateOperation
  BY <1>3 DEF DisposeUpdateOperation
<1>4. CASE ApplyWork
  <2>1. ApplyEffects
    BY <1>4, ApplyWorkStep
  <2>2. failing' = failing /\ ~Some(domains', Behind(c)) /\ status' \in {status, "INCOMPLETE"}
    BY <2>1 DEF ApplyEffects, failing, reached, Waits
  <2>3. pc' \notin {"idle", "identify", "DOWNLOAD"}
    BY <2>1 DEF ApplyEffects, reached
  <2>4. ~identifying'
    BY <2>2 DEF identifying, IdentificationStatus, reached
  <2> QED
    BY <2>2, <2>3, <2>4 DEF reached, Behind
<1>5. CASE HolderWork
  <2>1. /\ UNCHANGED <<pc, domains>> /\ ~failing'
        /\ settled => ~identifying'
    BY <1>1, <1>5, HolderWorkStep
  <2> QED
    BY <2>1 DEF reached, settled, Behind
<1>6. CASE (\E h \in handlers : HandleCommandSignal(h)) \/ OwnerConsented \/ OwnerConsentFailed
  <2>1. UNCHANGED <<pc, status, domains>> /\ ~failing'
    BY <1>1, <1>6, CommandSignalStep
  <2> QED
    BY <2>1 DEF reached, identifying, Behind
<1>7. ASSUME NEW d \in Domains, NEW s \in FeedbackStatus, NEW hasActions \in BOOLEAN,
             HandleDesiredStateFeedbackEvent(d, s, hasActions)
      PROVE  reached(c)'
  <2>1. UNCHANGED <<pc, status>> /\ ~failing'
    BY <1>7, FeedbackStep DEF FeedbackEffects, reached
  <2>2. CASE UNCHANGED domains
    BY <2>1, <2>2 DEF reached, identifying, Behind
  <2>3. ASSUME NEW v \in DomainStatus \ Progress, domains' = [domains EXCEPT ![d] = v], v \in beyond,
               v = "DOWNLOAD_SUCCESS" => domains[d] \in Downloadable, d \in DOMAIN domains
        PROVE  reached(c)'
    <3>1. v \notin Behind(c)
      <4>1. ASSUME v = "DOWNLOAD_SUCCESS", c = "ACTIVATE"
            PROVE  FALSE
        <5>1. domains[d] \in {"IDENTIFIED", "DOWNLOADING"}
          BY <2>3, <4>1 DEF Downloadable
        <5>2. domains[d] # "DOWNLOADING"
          BY <2>3 DEF ProgressInv, Progress
        <5>3. domains[d] # "IDENTIFIED"
          BY <2>3, <4>1 DEF reached, Some, Behind
        <5> QED
          BY <5>1, <5>2, <5>3
      <4> QED
        BY <2>3, <4>1 DEF Behind, beyond
    <3>2. ~Some(domains', Behind(c))
      BY <2>3, <3>1 DEF Some, reached
    <3> QED
      BY <2>1, <3>2 DEF reached, identifying, Behind
  <2> QED
    BY <1>7, <2>2, <2>3, FeedbackDomains DEF reached
<1>8. CASE QuietEffects
  BY <1>8 DEF QuietEffects, reached, identifying, failing, Behind
<1> QED
  BY <1>2, <1>3, <1>4, <1>5, <1>6, <1>7, <1>8, StepKinds

LEMMA NewActivity ==
    ASSUME TypeOKActivity, [NextActivity]_allVars
    PROVE  \/ activity' = activity /\ (pc = "idle" => pc' = "idle")
           \/ Start /\ activity' = activity + 1
<1>1. CASE Start
  <2>1. activity' = activity + 1
    BY <1>1, Zenon DEF Start, SetupUpdateOperation
  <2> QED
    BY <1>1, <2>1
<1>2. CASE ~Start
  BY <1>2, ActivityKinds DEF restOfSteps
<1> QED
  BY <1>1, <1>2

\* what carries an activity to a phase was carried by something that had come there
LEMMA CarriedStep ==
    ASSUME TypeOKActivity, TypeOKActivity', BarrierInv, BarrierInv', LifecycleInv, OrderInv, Undisturbed,
           [NextActivity]_allVars, activity' = activity, pc' # "idle", NEW c \in Phases, carried(c)'
    PROVE  reached(c)'
<1>1. pc # "idle" /\ TypeOK /\ TypeOK' /\ activity \in Nat /\ [Next]_vars /\ ProgressInv
  <2>1. TypeOK /\ TypeOK' /\ ProgressInv
    BY DEF TypeOKActivity, OrderInv
  <2>2. activity \in Nat
    BY <2>1 DEF TypeOK
  <2>3. pc # "idle"
    BY <2>2, NewActivity
  <2> QED
    BY <2>1, <2>2, <2>3, StepOfOrchestrator
<1>2. ASSUME NEW b \in Phases, carried(b)
      PROVE  reached(b)'
  BY <1>1, <1>2, ReachedKept DEF OrderInv, CarriedInv
<1>3. ASSUME waitingFor(c)', c # "ACTIVATE"
      PROVE  reached(c)'
  <2>1. PICK h \in handlers' : h.command = c /\ h.spawnedIn = activity'
    BY <1>3 DEF waitingFor
  <2>2. c \in Gated
    BY <1>3 DEF Phases, Gated
  <2>3. past(c)' /\ ~early(c)' /\ ~identifying' /\ ~failing'
    BY <2>1, <2>2 DEF BarrierInv, HandlerInv
  <2>4. Behind(c) = Before(c)
    BY <1>3 DEF Behind, Before, Phases
  <2>5. ~Some(domains', Behind(c))
    BY <2>3, <2>4 DEF past, Before
  <2>6. pc' \notin {"idle", "identify", "DOWNLOAD"}
    BY <2>3 DEF early
  <2> QED
    BY <2>3, <2>5, <2>6 DEF reached, Behind
<1>4. CASE commanded(c)'
  <2>1. ASSUME NEW h \in handlers, HandlerStep(h), h.command = c
        PROVE  waitingFor(c)
    BY <1>1, <2>1 DEF Undisturbed, waitingFor
  <2> QED
    BY <1>2, <1>4, <2>1, CommandedStep DEF carried, pursued
<1>5. CASE consulted(c)'
  <2>1. ASSUME NEW h \in handlers, HandlerStep(h), h.command = c
        PROVE  waitingFor(c)
    BY <1>1, <2>1 DEF Undisturbed, waitingFor
  <2> QED
    BY <1>2, <1>5, <2>1, ConsultedStep DEF carried
<1>6. CASE requested(c)' \/ answered(c)' \/ delivered(c)'
  BY <1>2, <1>6, RequestedStep, AnsweredStep, DeliveredStep DEF carried, pursued
<1>7. CASE waitingFor(c)'
  <2>1. CASE c # "ACTIVATE"
    BY <1>3, <1>7, <2>1
  <2>2. CASE c = "ACTIVATE"
    BY <1>2, <1>7, <2>2, WaitingStep DEF carried, signalled
  <2> QED
    BY <2>1, <2>2
<1>8. CASE c = "ACTIVATE" /\ signalled(c)'
  <2>1. CASE signalled(c)
    BY <1>2, <1>8, <2>1 DEF carried
  <2>2. CASE delivered("UPDATE") /\ ~Some(domains', Updatable)
    <3>1. reached("UPDATE")'
      BY <1>2, <2>2 DEF carried, pursued, Phases
    <3>2. \A s \in Behind("ACTIVATE") : s \in Behind("UPDATE") \/ s \in Updatable
      BY DEF Behind, Updatable
    <3>3. ~Some(domains', Behind("ACTIVATE"))
      BY <2>2, <3>1, <3>2 DEF reached, Some, Behind
    <3> QED
      BY <1>8, <3>1, <3>3 DEF reached, Behind
  <2> QED
    BY <1>8, <2>1, <2>2, SignalledStep
<1> QED
  BY <1>4, <1>5, <1>6, <1>7, <1>8 DEF carried, pursued

\* nothing has carried a new activity anywhere
LEMMA StartCarriesNothing ==
    ASSUME TypeOKActivity, BarrierInv, AgeInv, Start, NEW c \in Phases
    PROVE  ~carried(c)' /\ ~signalled(c)'
<1>1. ~(activity + 1 <= activity)
  <2>1. activity \in Nat
    BY DEF TypeOKActivity, TypeOK
  <2> QED
    BY <2>1
<1>2. PICK ds \in SUBSET Domains : SetupUpdateOperation(ds)
  BY DEF Start
<1>3. activity' = activity + 1 /\ todo' = <<>> /\ handlers' = handlers
  BY <1>2, Zenon DEF SetupUpdateOperation
<1>4. UNCHANGED <<requests, feedback, inHand>> /\ DOMAIN todo' = {}
  BY <1>3 DEF Start
<1>5. c \in Channels
  BY DEF Phases, Channels, Commands
<1>6. chan'[c] # "true"
  BY <1>2, <1>5 DEF SetupUpdateOperation
<1>7. ~requested(c)'
  BY <1>1, <1>3, <1>4 DEF requested, AgeInv
<1>8. ~answered(c)'
  BY <1>1, <1>3, <1>4 DEF answered, AgeInv
<1>9. ~delivered(c)'
  BY <1>1, <1>3, <1>4 DEF delivered, AgeInv
<1>10. ~waitingFor(c)'
  BY <1>1, <1>3 DEF waitingFor, BarrierInv, HandlerInv
<1>11. ~commanded(c)' /\ ~consulted(c)' /\ ~signalled(c)'
  BY <1>4, <1>6 DEF commanded, consulted, signalled
<1> QED
  BY <1>7, <1>8, <1>9, <1>10, <1>11, Zenon DEF carried, pursued

LEMMA IdleStep ==
    ASSUME TypeOK, TypeOK', BarrierInv, LifecycleInv, IdleInv, ProgressInv, [Next]_vars
    PROVE  IdleInv' /\ ProgressInv'
<1>1. LeftInv
  BY DEF LifecycleInv
<1>2. ASSUME NEW ds \in SUBSET Domains, SetupUpdateOperation(ds)
      PROVE  IdleInv' /\ ProgressInv'
  <2>1. pc' # "idle" /\ domains' = [d \in ds |-> "IDENTIFYING"]
    BY <1>2 DEF SetupUpdateOperation
  <2> QED
    BY <2>1 DEF IdleInv, ProgressInv, Progress
<1>3. CASE DisposeUpdateOperation
  BY <1>3 DEF DisposeUpdateOperation, NoDomains, IdleInv, ProgressInv
<1>4. CASE ApplyWork
  <2>1. ApplyEffects
    BY <1>4, ApplyWorkStep
  <2>2. pc' # "idle" /\ UNCHANGED domains
    BY <2>1 DEF ApplyEffects, Waits, Commands
  <2> QED
    BY <2>2 DEF IdleInv, ProgressInv, Progress
<1>5. CASE HolderWork
  <2>1. UNCHANGED <<pc, domains>> /\ todo # <<>>
    BY <1>1, <1>5, HolderWorkStep DEF HolderWork, NotifyFeedback, UpdateStatus, SendSignal, CommandDomain,
                                      CommandFailed
  <2> QED
    BY <2>1 DEF IdleInv, ProgressInv, Progress
<1>6. CASE (\E h \in handlers : HandleCommandSignal(h)) \/ OwnerConsented \/ OwnerConsentFailed
  <2>1. UNCHANGED <<pc, domains>>
    BY <1>1, <1>6, CommandSignalStep
  <2>2. pc = "idle" => todo' = <<>>
    BY <1>6 DEF HandleCommandSignal, OwnerConsented, OwnerConsentFailed, awaitingConsent, IdleInv
  <2> QED
    BY <2>1, <2>2 DEF IdleInv, ProgressInv, Progress
<1>7. ASSUME NEW d \in Domains, NEW s \in FeedbackStatus, NEW hasActions \in BOOLEAN,
             HandleDesiredStateFeedbackEvent(d, s, hasActions)
      PROVE  IdleInv' /\ ProgressInv'
  <2>1. UNCHANGED pc
    BY <1>7, FeedbackStep
  <2>2. d \in DOMAIN domains
    BY <1>7, FeedbackDomains
  <2>3. pc' # "idle"
    BY <2>1, <2>2 DEF IdleInv
  <2>4. \/ UNCHANGED domains
        \/ \E v \in DomainStatus \ Progress : domains' = [domains EXCEPT ![d] = v]
    BY <1>7, FeedbackDomains
  <2> QED
    BY <2>3, <2>4 DEF IdleInv, ProgressInv, Progress
<1>8. CASE QuietEffects
  BY <1>8 DEF QuietEffects, IdleInv, ProgressInv, Progress
<1> QED
  BY <1>2, <1>3, <1>4, <1>5, <1>6, <1>7, <1>8, StepKinds

\* no message is from an activity that has not started
LEMMA AgeStep ==
    ASSUME TypeOKActivity, TypeOKActivity', AgeInv, [NextActivity]_allVars
    PROVE  AgeInv'
<1>1. activity \in Nat /\ activity' \in Nat /\ activity <= activity'
  <2>1. activity \in Nat /\ activity' \in Nat
    BY DEF TypeOKActivity, TypeOK
  <2> QED
    BY <2>1, NewActivity
<1>2. /\ requests \in [Domains -> Seq(Request)] /\ feedback \in [Domains -> Seq(Report)]
      /\ answers \in Seq(Answer)
      /\ asked \subseteq [command : Commands, activity : Nat]
  BY DEF TypeOKActivity, Request
<1>3. \A n \in Nat : n <= activity => n <= activity'
  BY <1>1
<1>3a. \A q \in Seq(Request) : \A j \in DOMAIN q : q[j].activity \in Nat
  <2>1. \A q \in Seq(Request) : \A j \in DOMAIN q : q[j] \in Request
    OBVIOUS
  <2> QED
    BY <2>1 DEF Request
<1>3b. \A q \in Seq(Report) : \A j \in DOMAIN q : q[j].activity \in Nat
  <2>1. \A q \in Seq(Report) : \A j \in DOMAIN q : q[j] \in Report
    OBVIOUS
  <2> QED
    BY <2>1 DEF Report
<1>4. ASSUME NEW d \in Domains, NEW i \in DOMAIN requests'[d]
      PROVE  requests'[d][i].activity <= activity'
  <2>1. \A j \in DOMAIN requests[d] : requests[d][j].activity \in Nat
    BY <1>2, <1>3a
  <2>2. CASE \E j \in DOMAIN requests[d] : requests'[d][i] = requests[d][j]
    BY <1>3, <2>1, <2>2 DEF AgeInv
  <2>3. CASE requests'[d][i].activity = activity
    BY <1>1, <2>3
  <2>4. \A job : [job |-> job, activity |-> activity].activity = activity
    OBVIOUS
  <2>5. \/ \E j \in DOMAIN requests[d] : requests'[d][i] = requests[d][j]
        \/ \E job : requests'[d][i] = [job |-> job, activity |-> activity]
    BY RequestsStep
  <2> QED
    BY <2>2, <2>3, <2>4, <2>5
<1>5. ASSUME NEW d \in Domains, NEW i \in DOMAIN feedback'[d]
      PROVE  feedback'[d][i].activity <= activity'
  <2>1. /\ \A j \in DOMAIN feedback[d] : feedback[d][j].activity \in Nat
        /\ \A j \in DOMAIN requests[d] : requests[d][j].activity \in Nat
    BY <1>2, <1>3a, <1>3b
  <2>2. CASE \E j \in DOMAIN feedback[d] : feedback'[d][i] = feedback[d][j]
    BY <1>3, <2>1, <2>2 DEF AgeInv
  <2>3. CASE 1 \in DOMAIN requests[d] /\ feedback'[d][i].activity = requests[d][1].activity
    BY <1>3, <2>1, <2>3 DEF AgeInv
  <2> QED
    BY <2>2, <2>3, ReportsStep
<1>6. ASSUME NEW i \in DOMAIN answers'
      PROVE  answers'[i].activity <= activity'
  <2>1. /\ \A j \in DOMAIN answers : answers[j].activity \in Nat
        /\ \A r \in asked : r.activity \in Nat
    <3>1. \A j \in DOMAIN answers : answers[j] \in Answer
      BY <1>2
    <3> QED
      BY <1>2, <3>1 DEF Answer
  <2>2. CASE \E j \in DOMAIN answers : answers'[i] = answers[j]
    BY <1>3, <2>1, <2>2 DEF AgeInv
  <2>3. CASE \E r \in asked : answers'[i].activity = r.activity
    BY <1>3, <2>1, <2>3 DEF AgeInv
  <2> QED
    BY <2>2, <2>3, AnswersStep
<1>7. ASSUME NEW i \in DOMAIN inHand'
      PROVE  inHand'[i].activity <= activity'
  <2>1. /\ \A j \in DOMAIN answers : answers[j].activity \in Nat
        /\ \A d \in Domains : \A j \in DOMAIN feedback[d] : feedback[d][j].activity \in Nat
        /\ \A j \in DOMAIN inHand : inHand[j].activity \in Nat
    <3>1. \A m \in Report \cup Answer : m.activity \in Nat
      BY DEF Report, Answer
    <3> QED
      BY <1>2, <3>1 DEF TypeOKActivity
  <2>2. CASE \E j \in DOMAIN inHand : inHand'[i] = inHand[j]
    BY <1>3, <2>1, <2>2 DEF AgeInv
  <2>3. CASE \E d \in Domains : 1 \in DOMAIN feedback[d] /\ inHand'[i] = feedback[d][1]
    BY <1>3, <2>1, <2>3 DEF AgeInv
  <2>4. CASE 1 \in DOMAIN answers /\ inHand'[i] = answers[1]
    BY <1>3, <2>1, <2>4 DEF AgeInv
  <2> QED
    BY <2>2, <2>3, <2>4, InHandStep
<1>8. ASSUME NEW r \in asked'
      PROVE  r.activity <= activity'
  <2>1. CASE r \in asked
    BY <1>2, <1>3, <2>1 DEF AgeInv
  <2>2. CASE r.activity = activity
    BY <1>1, <2>2
  <2> QED
    BY <2>1, <2>2, AskedStep
<1> QED
  BY <1>4, <1>5, <1>6, <1>7, <1>8 DEF AgeInv

LEMMA OrderStep ==
    ASSUME TypeOKActivity, TypeOKActivity', BarrierInv, BarrierInv', LifecycleInv, OrderInv, Undisturbed,
           [NextActivity]_allVars
    PROVE  OrderInv'
<1>1. TypeOK /\ TypeOK' /\ [Next]_vars /\ IdleInv /\ ProgressInv /\ AgeInv
  BY StepOfOrchestrator DEF TypeOKActivity, OrderInv
<1>2. IdleInv' /\ ProgressInv' /\ AgeInv'
  BY <1>1, IdleStep, AgeStep
<1>3. CarriedInv'
  <2>1. ASSUME activity' = activity
        PROVE  CarriedInv'
    BY <2>1, CarriedStep DEF CarriedInv
  <2>2. CASE Start
    BY <1>1, <2>2, StartCarriesNothing DEF CarriedInv
  <2> QED
    BY <2>1, <2>2, NewActivity
<1> QED
  BY <1>2, <1>3 DEF OrderInv

LEMMA InitOrder == InitActivity => OrderInv
<1> SUFFICES ASSUME InitActivity PROVE OrderInv
  OBVIOUS
<1>1. DOMAIN <<>> = {}
  OBVIOUS
<1> QED
  BY <1>1 DEF InitActivity, Init, NoDomains, OrderInv, IdleInv, ProgressInv, AgeInv, CarriedInv

LEMMA OrderCommands == TypeOKActivity /\ OrderInv => CommandsInOrder
<1> SUFFICES ASSUME TypeOKActivity, OrderInv, commanding, NEW c \in Phases, Head(todo).command = c
             PROVE  ~Some(domains, Behind(c))
  BY DEF CommandsInOrder, Phases, Behind
<1>1. 1 \in DOMAIN todo /\ todo[1] = Head(todo) /\ todo # <<>>
  BY FirstTodo DEF commanding, TypeOKActivity
<1>2. commanded(c)
  BY <1>1 DEF commanded, commanding
<1>3. pc # "idle"
  BY <1>1 DEF OrderInv, IdleInv
<1> QED
  BY <1>2, <1>3 DEF OrderInv, CarriedInv, carried, pursued, reached

\* Among agents and an owner that follow the protocol, whatever is lost, late, delivered
\* twice or times out: as long as no goroutine of an earlier activity interferes, everything
\* on its way to a phase was sent when every domain had left the one before.
THEOREM OrderInvariant == SpecActivity /\ []Undisturbed => []OrderInv
<1>1. SpecActivity => [](TypeOKActivity /\ BarrierInv /\ LifecycleInv)
  BY ActivityTypeCorrect, ActivityIsOrchestrator, BarrierInvariant, LifecycleInvariant, PTL
<1>2. TypeOKActivity /\ TypeOKActivity' /\ BarrierInv /\ BarrierInv' /\ LifecycleInv /\ OrderInv
        /\ Undisturbed /\ [NextActivity]_allVars => OrderInv'
  BY OrderStep
<1> QED
  BY <1>1, <1>2, InitOrder, PTL DEF SpecActivity

\* ... and no domain is commanded to a phase while another is still in one before.
THEOREM CommandsInOrderHolds == SpecActivity /\ []Undisturbed => []CommandsInOrder
  BY OrderInvariant, ActivityTypeCorrect, OrderCommands, PTL

-----------------------------------------------------------------------------
(* The first activity *)

\* Until a second desired state is applied, nothing interferes, whatever is lost, late,
\* delivered twice or times out.
THEOREM FirstActivityUndisturbed == SpecActivity => [](activity <= 1 => Undisturbed)
  BY ActivityIsOrchestrator, FirstOperationUndisturbed, PTL

\* In the first activity the phases are commanded in order ...
THEOREM FirstActivityInOrder == SpecActivity /\ [](activity <= 1) => []CommandsInOrder
  BY FirstActivityUndisturbed, CommandsInOrderHolds, PTL

=============================================================================
