------------------------- MODULE OwnerConsentProofs -------------------------
(***************************************************************************)
(* Theorems about UpdateActivity: commands are issued with the owner's     *)
(* consent, although the answer of the owner names no command.             *)
(***************************************************************************)
EXTENDS UpdateActivityProofs

-----------------------------------------------------------------------------
(* Commands with the owner's consent *)

\* the phases before c, and those after
Earlier(c) ==
    CASE c = "UPDATE"   -> {"DOWNLOAD"}
      [] c = "ACTIVATE" -> {"DOWNLOAD", "UPDATE"}
      [] OTHER          -> {}
later(c) == {b \in Phases : c \in Earlier(b)}

\* Apply may still take the signal of c
ahead(c) ==
    pc \in {"identify", "DOWNLOAD"}
           \cup (IF c \in {"UPDATE", "ACTIVATE"} THEN {"UPDATE"} ELSE {})
           \cup (IF c = "ACTIVATE" THEN {"ACTIVATE"} ELSE {})

\* the question about c and its answers, in the activity under way
isAsked(c) == \E r \in asked : r.command = c /\ r.activity = activity
inAnswers(c) == \E i \in DOMAIN answers : answers[i].command = c /\ answers[i].activity = activity
inHands(c) ==
    \E i \in DOMAIN inHand :
        inHand[i] \in Answer /\ inHand[i].command = c /\ inHand[i].activity = activity
onItsWay(c) == isAsked(c) \/ inAnswers(c) \/ inHands(c)
broughtUp(c) == isAsked(c) \/ c \in granted \/ c \in refused
latest(c) == broughtUp(c) /\ \A b \in later(c) : ~broughtUp(b)
replied == chan["consent"] \in {"true", "false"}
saysSo(m) == m.command \in IF m.approved THEN granted ELSE refused

\* an answer reaches the orchestrator once
Once == MaxDuplicates = 0

\* c was commanded, by consent if it takes that, and no answer about it is left
done(c) ==
    /\ ~ahead(c) /\ ~waitingFor(c)
    /\ c \notin refused
    /\ c \in OwnerConsentCommands =>
         /\ c \in granted
         /\ Once => ~onItsWay(c) /\ (replied => \E b \in later(c) : broughtUp(b))
doneBefore(c) == \A b \in Earlier(c) : done(b)

touched(c) == pursued(c) \/ consulted(c) \/ broughtUp(c)

FreshInv ==
    \A c \in Phases : /\ ahead(c) \/ waitingFor(c) => ~touched(c)
                      /\ ahead(c) => ~waitingFor(c)
DoneInv ==
    \A c \in Phases : /\ pursued(c) => done(c)
                      /\ touched(c) \/ waitingFor(c) \/ signalled(c) => doneBefore(c)
ConsultInv ==
    /\ \A c \in Phases : consulted(c) => latest(c)
    /\ replied => \E c \in IF chan["consent"] = "true" THEN granted ELSE refused :
                      latest(c) /\ (Once => ~onItsWay(c))
AnswerInv ==
    /\ granted \cap refused = {}
    /\ \A c \in Commands : broughtUp(c) => c \in OwnerConsentCommands
    /\ \A c \in Commands : isAsked(c) => c \notin granted \cup refused
    /\ \A i \in DOMAIN answers : answers[i].activity = activity => saysSo(answers[i])
    /\ \A i \in DOMAIN inHand : inHand[i] \in Answer /\ inHand[i].activity = activity => saysSo(inHand[i])
UniqueInv ==
    Once => /\ \A i, j \in DOMAIN answers :
                 i # j /\ answers[i].activity = activity /\ answers[j].activity = activity
                   => answers[i].command # answers[j].command
            /\ \A c \in Phases : inHands(c) => ~inAnswers(c)
PassedInv == \A b \in Phases : broughtUp(b) => \A c \in Earlier(b) : ~commanded(c)
SendInv == \A i \in DOMAIN todo : todo[i].op = "send" => todo[i].channel # "consent"

\* The questions of an activity are asked and answered one by one, in the order of the phases,
\* and each before anything of its phase begins: the answer in the channel is to the last.
ConsentInv ==
    /\ SendInv
    /\ pc # "idle" => FreshInv /\ DoneInv /\ ConsultInv /\ AnswerInv /\ UniqueInv /\ PassedInv

-----------------------------------------------------------------------------
(* How questions and answers travel *)

LEMMA SendStep ==
    ASSUME TypeOKActivity, SendInv, [NextActivity]_allVars
    PROVE  SendInv'
<1> SUFFICES ASSUME NEW i \in DOMAIN todo', todo'[i].op = "send"
             PROVE  todo'[i].channel # "consent"
  BY DEF SendInv
<1>1. TypeOK
  BY DEF TypeOKActivity
<1>2. refusal(todo'[i]) => todo'[i].channel # "consent"
  <2>1. /\ SetStatus("INCOMPLETE").op # "send"
        /\ Send("err", "true").channel # "consent" /\ Send("rollback", "true").channel # "consent"
    BY EffectFields
  <2> QED
    BY <2>1 DEF refusal
<1>3. CASE restOfSteps
  BY <1>3 DEF restOfSteps, SendInv
<1>4. ASSUME NEW h \in handlers, HandlerStep(h), HandleCommandSignal(h)
      PROVE  todo'[i].channel # "consent"
  <2>1. todo' # <<AwaitConsent(h.command, h.spawnedIn)>>
    <3>1. AwaitConsent(h.command, h.spawnedIn).op # "send"
      BY DEF AwaitConsent
    <3> QED
      BY <3>1, SingletonEntry
  <2> QED
    BY <1>1, <1>2, <1>4, <2>1, HandlerEntries
<1>5. CASE OwnerConsented \/ OwnerConsentFailed
  BY <1>1, <1>2, <1>5, ConsentEntries
<1>6. CASE HolderWork
  <2>1. todo'[i] # Blocked
    <3>1. Blocked.op # "send"
      BY DEF Blocked
    <3> QED
      BY <3>1
  <2> QED
    BY <1>1, <1>6, <2>1, HolderEntries DEF SendInv
<1>7. CASE reportHandled \/ sendFailureHandled
  BY <1>7, FeedbackEntries DEF reportHandled, sendFailureHandled
<1> QED
  BY <1>3, <1>4, <1>5, <1>6, <1>7, ActivityKinds

\* the router passes an answer on
consentDelivered ==
    /\ 1 \in DOMAIN inHand /\ inHand[1] \in Answer /\ inHand[1].activity = activity
    /\ chan'["consent"] = IF inHand[1].approved THEN "true" ELSE "false"
    /\ inHand' = <<>>
    /\ UNCHANGED <<activity, pc, todo, handlers, asked, answers, granted, refused>>

LEMMA ChannelStep ==
    ASSUME TypeOKActivity, SendInv, [NextActivity]_allVars, activity' = activity, pc' # "idle"
    PROVE  \/ chan'["consent"] \in {chan["consent"], "empty"}
           \/ consentDelivered
<1>1. TypeOK /\ activity \in Nat /\ "consent" \in Channels /\ "consent" \in DOMAIN chan /\ "consent" \notin Waits
  BY DEF TypeOKActivity, TypeOK, Channels, Waits, Commands
<1>2. CASE Start
  <2>1. activity' = activity + 1
    BY <1>2, Zenon DEF Start, SetupUpdateOperation
  <2> QED
    BY <1>1, <2>1
<1>3. CASE Apply \/ PhaseTimeout
  <2>1. CASE Identify \/ ReturnReboot \/ ReportFinal
    BY <2>1 DEF Identify, ReturnReboot, ReportFinal, opVars
  <2>2. CASE DisposeUpdateOperation
    BY <2>2 DEF DisposeUpdateOperation
  <2>3. CASE ErrorSignalled \/ RollbackSignalled \/ Signalled
    BY <1>1, <2>3 DEF ErrorSignalled, RollbackSignalled, Signalled, TypeOK
  <2>4. CASE ContextDone \/ PhaseTimeout
    BY <2>4 DEF ContextDone, PhaseTimeout
  <2> QED
    BY <1>3, <2>1, <2>2, <2>3, <2>4 DEF Apply, Wait
<1>4. CASE HoldLock \/ OwnerConsentFailed
  <2>1. CASE OwnerConsented
    BY <1>1, <2>1 DEF OwnerConsented, TypeOK
  <2>2. CASE SendSignal
    <3>1. Head(todo).channel # "consent"
      BY <1>1, <2>2, FirstTodo DEF SendSignal, SendInv
    <3> QED
      BY <1>1, <2>2, <3>1 DEF SendSignal, TypeOK
  <2> QED
    BY <1>4, <2>1, <2>2 DEF HoldLock, NotifyFeedback, UpdateStatus, OwnerConsentFailed
<1>5. CASE Deliver
  <2>1. CASE UNCHANGED vars
    BY <2>1 DEF vars, opVars
  <2>2. ASSUME NEW m, m = inHand[1], AgentFeedback(m.domain, m.status, m.hasActions)
        PROVE  UNCHANGED chan
    BY <2>2 DEF AgentFeedback, HandleDesiredStateFeedbackEvent
  <2>3. ASSUME NEW m, m = inHand[1], m \in Answer, m.activity = activity, HandleOwnerConsentFeedback(m.approved)
        PROVE  consentDelivered
    <3>1. 1 \in DOMAIN inHand
      BY <1>5, HeadAndTail DEF Deliver, TypeOKActivity
    <3>2. chan'["consent"] = IF m.approved THEN "true" ELSE "false"
      BY <1>1, <2>3 DEF HandleOwnerConsentFeedback, TypeOK
    <3> QED
      BY <1>5, <2>3, <3>1, <3>2 DEF Deliver, HandleOwnerConsentFeedback, consentDelivered
  <2> QED
    BY <1>5, <2>1, <2>2, <2>3 DEF Deliver
<1>6. ASSUME NEW h \in handlers, HandleCommandSignal(h)
      PROVE  UNCHANGED chan
  BY <1>6 DEF HandleCommandSignal
<1>7. ASSUME NEW d \in Domains,
             SendDesiredState(d) \/ SendDesiredStateFailed(d) \/ CommandDomain(d) \/ CommandFailed(d)
      PROVE  UNCHANGED chan
  BY <1>7 DEF SendDesiredState, SendDesiredStateFailed, CommandDomain, CommandFailed, opVars,
              HandleDesiredStateFeedbackEvent
<1>8. CASE Terminate \/ UNCHANGED vars
  BY <1>8 DEF Terminate, vars, opVars
<1>9. CASE ApplyStep \/ HoldLockStep \/ Timeout \/ ConsentTimeout \/ TerminateStep
  BY <1>3, <1>4, <1>8, <1>9 DEF ApplyStep, HoldLockStep, Timeout, ConsentTimeout, TerminateStep
<1>10. CASE \/ \E h \in handlers : HandlerStep(h)
            \/ \E d \in Domains : DesiredState(d) \/ DesiredStateFailed(d) \/ CommandStep(d) \/ CommandStepFailed(d)
  BY <1>6, <1>7, <1>10 DEF HandlerStep, DesiredState, DesiredStateFailed, CommandStep, CommandStepFailed
<1>11. CASE \/ TakeConsent
            \/ \E approved \in BOOLEAN : OwnerAnswers(approved)
            \/ \E d \in Domains : AgentAnswers(d) \/ TakeFeedback(d)
            \/ UNCHANGED allVars
  <2>1. UNCHANGED vars
    BY <1>11 DEF TakeConsent, OwnerAnswers, AgentAnswers, TakeFeedback, allVars
  <2> QED
    BY <1>8, <2>1
<1> QED
  BY <1>2, <1>5, <1>9, <1>10, <1>11 DEF NextActivity, Untimed

\* the owner answers a question, once; nobody else changes what was asked and answered
LEMMA HistoryStep ==
    ASSUME TypeOKActivity, [NextActivity]_allVars, activity' = activity
    PROVE  \/ /\ UNCHANGED <<granted, refused>> /\ asked \subseteq asked'
              /\ UNCHANGED answers \/ TakeConsent
           \/ \E r \in asked, approved \in BOOLEAN :
                /\ UNCHANGED <<vars, inHand>>
                /\ asked' = asked \ {r}
                /\ answers' = Append(answers, [command |-> r.command, approved |-> approved,
                                               activity |-> r.activity])
                /\ granted' = IF approved /\ r.activity = activity THEN granted \cup {r.command} ELSE granted
                /\ refused' = IF ~approved /\ r.activity = activity THEN refused \cup {r.command} ELSE refused
<1>1. ASSUME NEW approved \in BOOLEAN, OwnerAnswers(approved)
      PROVE  \E r \in asked :
                /\ UNCHANGED <<vars, inHand>>
                /\ asked' = asked \ {r}
                /\ answers' = Append(answers, [command |-> r.command, approved |-> approved,
                                               activity |-> r.activity])
                /\ granted' = IF approved /\ r.activity = activity THEN granted \cup {r.command} ELSE granted
                /\ refused' = IF ~approved /\ r.activity = activity THEN refused \cup {r.command} ELSE refused
  BY <1>1 DEF OwnerAnswers
<1>2. ASSUME NEW h \in handlers, HandlerStep(h)
      PROVE  UNCHANGED <<granted, refused, answers>> /\ asked \subseteq asked'
  BY <1>2 DEF HandlerStep
<1>3. CASE Start
  <2>1. activity \in Nat /\ activity' = activity + 1
    <3>1. activity' = activity + 1
      BY <1>3, Zenon DEF Start, SetupUpdateOperation
    <3> QED
      BY <3>1 DEF TypeOKActivity, TypeOK
  <2> QED
    BY <2>1
<1>4. CASE \/ ApplyStep \/ HoldLockStep \/ Deliver \/ Timeout \/ ConsentTimeout \/ TerminateStep \/ TakeConsent
  BY <1>4 DEF ApplyStep, HoldLockStep, Deliver, Timeout, ConsentTimeout, TerminateStep, TakeConsent, envVars
<1>5. CASE \/ \E d \in Domains : \/ DesiredState(d) \/ DesiredStateFailed(d) \/ AgentAnswers(d)
                                 \/ CommandStep(d) \/ CommandStepFailed(d) \/ TakeFeedback(d)
           \/ UNCHANGED allVars
  BY <1>5 DEF DesiredState, DesiredStateFailed, AgentAnswers, CommandStep, CommandStepFailed, TakeFeedback,
              allVars, envVars
<1> QED
  BY <1>1, <1>2, <1>3, <1>4, <1>5 DEF NextActivity, Untimed

\* a goroutine takes the lock to ask the owner about c
asking(c) ==
    c \in OwnerConsentCommands /\ \E h \in handlers : HandlerStep(h) /\ h.command = c

LEMMA OnItsWayStep ==
    ASSUME TypeOKActivity, [NextActivity]_allVars, activity' = activity, NEW c, onItsWay(c)'
    PROVE  onItsWay(c) \/ asking(c)
<1>1. CASE isAsked(c)'
  BY <1>1, AskedStep DEF isAsked, asking, onItsWay
<1>2. CASE inAnswers(c)'
  <2>1. PICK i \in DOMAIN answers' : answers'[i].command = c /\ answers'[i].activity = activity
    BY <1>2 DEF inAnswers
  <2>2. CASE \E j \in DOMAIN answers : answers'[i] = answers[j]
    BY <2>1, <2>2 DEF onItsWay, inAnswers
  <2>3. CASE \E r \in asked, approved \in BOOLEAN :
               answers'[i] = [command |-> r.command, approved |-> approved, activity |-> r.activity]
    BY <2>1, <2>3 DEF onItsWay, isAsked
  <2> QED
    BY <2>2, <2>3, AnswersStep
<1>3. CASE inHands(c)'
  <2>1. PICK i \in DOMAIN inHand' :
          inHand'[i] \in Answer /\ inHand'[i].command = c /\ inHand'[i].activity = activity
    BY <1>3 DEF inHands
  <2> QED
    BY <2>1, InHandStep, ReportsAndAnswers DEF onItsWay, inHands, inAnswers
<1> QED
  BY <1>1, <1>2, <1>3 DEF onItsWay

LEMMA BroughtUpStep ==
    ASSUME TypeOKActivity, [NextActivity]_allVars, activity' = activity, NEW c
    PROVE  /\ broughtUp(c)' => broughtUp(c) \/ asking(c)
           /\ broughtUp(c) => broughtUp(c)'
           /\ c \in granted => c \in granted'
           /\ c \in refused => c \in refused'
           /\ c \in granted' => c \in granted \/ isAsked(c)
           /\ c \in refused' => c \in refused \/ isAsked(c)
<1>1. isAsked(c)' => isAsked(c) \/ asking(c)
  BY AskedStep DEF isAsked, asking
<1>2. CASE UNCHANGED <<granted, refused>> /\ asked \subseteq asked'
  BY <1>1, <1>2 DEF broughtUp, isAsked
<1>3. ASSUME NEW r \in asked, NEW approved \in BOOLEAN,
             asked' = asked \ {r},
             granted' = IF approved /\ r.activity = activity THEN granted \cup {r.command} ELSE granted,
             refused' = IF ~approved /\ r.activity = activity THEN refused \cup {r.command} ELSE refused
      PROVE  /\ broughtUp(c)' => broughtUp(c) \/ asking(c)
             /\ broughtUp(c) => broughtUp(c)'
             /\ c \in granted => c \in granted'
             /\ c \in refused => c \in refused'
             /\ c \in granted' => c \in granted \/ isAsked(c)
             /\ c \in refused' => c \in refused \/ isAsked(c)
  <2>1. /\ c \in granted' => c \in granted \/ isAsked(c)
        /\ c \in refused' => c \in refused \/ isAsked(c)
        /\ c \in granted => c \in granted'
        /\ c \in refused => c \in refused'
    BY <1>3 DEF isAsked
  <2>2. isAsked(c) => isAsked(c)' \/ c \in granted' \/ c \in refused'
    BY <1>3 DEF isAsked
  <2> QED
    BY <1>1, <2>1, <2>2 DEF broughtUp
<1> QED
  BY <1>2, <1>3, HistoryStep

\* a goroutine of the activity has done its work once it has the lock
LEMMA HandlerTaken ==
    ASSUME TypeOKActivity, TypeOKActivity', Undisturbed, pc # "idle", NEW h \in handlers, HandlerStep(h)
    PROVE  /\ waitingFor(h.command) /\ ~waitingFor(h.command)'
           /\ todo = <<>>
           /\ UNCHANGED <<activity, pc, chan, answers, inHand, granted, refused>>
<1>1. HandleCommandSignal(h)
  BY DEF HandlerStep
<1>2. UNCHANGED <<activity, pc, chan>> /\ handlers' = handlers \ {h} /\ todo = <<>>
  BY <1>1 DEF HandleCommandSignal, handlerUnchanged
<1>3. h.spawnedIn = activity
  BY DEF Undisturbed
<1>4. handlers \subseteq [command : Commands, spawnedIn : Nat]
  BY DEF TypeOKActivity, TypeOK
<1>5. \A g \in handlers : g.command = h.command /\ g.spawnedIn = activity => g = h
  BY <1>3, <1>4
<1>6. ~waitingFor(h.command)'
  BY <1>2, <1>5 DEF waitingFor
<1> QED
  BY <1>2, <1>3, <1>6 DEF waitingFor, HandlerStep

LEMMA AskingStep ==
    ASSUME TypeOKActivity, TypeOKActivity', Undisturbed, pc # "idle", NEW c, asking(c)
    PROVE  /\ c \in OwnerConsentCommands /\ waitingFor(c) /\ ~waitingFor(c)'
           /\ todo = <<>>
           /\ \A i \in DOMAIN todo' : refusal(todo'[i]) \/ \E a : todo'[i] = AwaitConsent(c, a)
           /\ UNCHANGED <<activity, pc, chan, answers, inHand, granted, refused>>
<1>1. PICK h \in handlers : HandlerStep(h) /\ h.command = c /\ c \in OwnerConsentCommands
  BY DEF asking
<1>2. HandleCommandSignal(h) /\ TypeOK
  BY <1>1 DEF HandlerStep, TypeOKActivity
<1>3. ASSUME NEW i \in DOMAIN todo'
      PROVE  refusal(todo'[i]) \/ \E a : todo'[i] = AwaitConsent(c, a)
  <2>1. CASE todo' = <<AwaitConsent(h.command, h.spawnedIn)>>
    <3>1. todo'[i] = AwaitConsent(c, h.spawnedIn)
      BY <1>1, <1>3, <2>1, SingletonEntry
    <3> QED
      BY <3>1
  <2> QED
    BY <1>1, <1>2, <1>3, <2>1, HandlerEntries
<1> QED
  BY <1>1, <1>3, HandlerTaken

\* Apply never goes back
LEMMA AheadStep ==
    ASSUME TypeOKActivity, TypeOKActivity', BarrierInv, LifecycleInv, [NextActivity]_allVars,
           activity' = activity, pc' # "idle", NEW c \in Phases
    PROVE  /\ ahead(c)' => ahead(c)
           /\ Signalled /\ pc = c => ~ahead(c)'
<1>1. TypeOK /\ TypeOK' /\ LeftInv /\ [Next]_vars
  BY StepOfOrchestrator DEF TypeOKActivity, LifecycleInv
<1>2. CASE ApplyWork
  <2>1. ApplyEffects
    BY <1>1, <1>2, ApplyWorkStep
  <2>2. ahead(c)' => ahead(c)
    BY <2>1 DEF ApplyEffects, ahead, Waits, Commands
  <2>3. Signalled /\ pc = c => ~ahead(c)'
    BY DEF Signalled, After, ahead, Phases
  <2> QED
    BY <2>2, <2>3
<1>3. CASE UNCHANGED pc
  <2>1. ahead(c)' = ahead(c)
    BY <1>3 DEF ahead
  <2>2. ~(Signalled /\ pc = c)
    BY <1>3 DEF Signalled, After, Phases
  <2> QED
    BY <2>1, <2>2
<1>4. CASE \E ds \in SUBSET Domains : SetupUpdateOperation(ds)
  <2>1. activity' = activity + 1 /\ activity \in Nat
    <3>1. activity' = activity + 1
      BY <1>4, Zenon DEF SetupUpdateOperation
    <3> QED
      BY <1>1, <3>1 DEF TypeOK
  <2> QED
    BY <2>1
<1>5. CASE DisposeUpdateOperation
  BY <1>5 DEF DisposeUpdateOperation
<1>6. CASE HolderWork
  BY <1>1, <1>3, <1>6, HolderWorkStep
<1>7. CASE (\E h \in handlers : HandleCommandSignal(h)) \/ OwnerConsented \/ OwnerConsentFailed
  BY <1>1, <1>3, <1>7, CommandSignalStep
<1>8. ASSUME NEW d \in Domains, NEW s \in FeedbackStatus, NEW hasActions \in BOOLEAN,
             HandleDesiredStateFeedbackEvent(d, s, hasActions)
      PROVE  UNCHANGED pc
  BY <1>8 DEF HandleDesiredStateFeedbackEvent
<1>9. CASE QuietEffects
  BY <1>3, <1>9 DEF QuietEffects
<1> QED
  BY <1>1, <1>2, <1>3, <1>4, <1>5, <1>6, <1>7, <1>8, <1>9, StepKinds

-----------------------------------------------------------------------------
(* Questions in order *)

LEMMA PhasesOrdered ==
    /\ \A b, c \in Phases : b = c \/ b \in Earlier(c) \/ b \in later(c)
    /\ \A c \in Phases : /\ Earlier(c) \subseteq Phases /\ c \notin Earlier(c) /\ c \notin later(c)
                         /\ \A b \in Earlier(c) : Earlier(b) \subseteq Earlier(c)
  BY DEF Phases, Earlier, later

\* an activity that goes on, undisturbed
Undisrupted ==
    /\ TypeOKActivity /\ BarrierInv /\ LifecycleInv /\ ConsentInv /\ Undisturbed
    /\ pc # "idle"
goingOn == Undisrupted /\ TypeOKActivity' /\ [NextActivity]_allVars /\ activity' = activity /\ pc' # "idle"

LEMMA ConsentFacts ==
    ASSUME Undisrupted
    PROVE  /\ SendInv /\ FreshInv /\ DoneInv /\ ConsultInv /\ AnswerInv /\ UniqueInv /\ PassedInv
           /\ Phases \subseteq Commands /\ OwnerConsentCommands \subseteq Phases
           /\ \A c \in Commands : broughtUp(c) => c \in OwnerConsentCommands /\ c \in Phases
<1>1. SendInv /\ FreshInv /\ DoneInv /\ ConsultInv /\ AnswerInv /\ UniqueInv /\ PassedInv
  BY DEF Undisrupted, ConsentInv
<1>2. Phases \subseteq Commands /\ OwnerConsentCommands \subseteq Phases
  BY ConstantsAssumption DEF Phases, Commands
<1> QED
  BY <1>1, <1>2, Zenon DEF AnswerInv

LEMMA AskingFacts ==
    ASSUME goingOn, NEW c, asking(c)
    PROVE  /\ c \in OwnerConsentCommands /\ c \in Phases
           /\ waitingFor(c) /\ ~waitingFor(c)' /\ ~ahead(c) /\ ~touched(c)
           /\ todo = <<>>
           /\ \A i \in DOMAIN todo' : refusal(todo'[i]) \/ \E a : todo'[i] = AwaitConsent(c, a)
           /\ UNCHANGED <<chan, answers, inHand, granted, refused>>
<1>1. Undisrupted /\ TypeOKActivity /\ TypeOKActivity' /\ Undisturbed /\ pc # "idle"
  BY DEF goingOn, Undisrupted
<1>2. c \in Phases /\ waitingFor(c)
  BY <1>1, AskingStep, ConsentFacts
<1> QED
  BY <1>1, <1>2, AskingStep, ConsentFacts DEF FreshInv

\* what is done stays done
LEMMA DoneKept ==
    ASSUME goingOn, NEW c \in Phases, done(c), doneBefore(c)
    PROVE  done(c)'
<1>1. /\ Undisrupted /\ TypeOKActivity /\ TypeOKActivity' /\ BarrierInv /\ LifecycleInv /\ SendInv
      /\ [NextActivity]_allVars /\ activity' = activity /\ pc' # "idle" /\ c \in Commands
  BY ConsentFacts DEF goingOn, Undisrupted
<1>2. ~ahead(c)'
  BY <1>1, AheadStep DEF done
<1>3. ~waitingFor(c)'
  <2>1. pc = c => ahead(c)
    BY DEF ahead, Phases
  <2> QED
    BY <1>1, <2>1, WaitingStep DEF done
<1>4. isAsked(c) => c \in OwnerConsentCommands /\ c \notin granted
  BY <1>1, ConsentFacts DEF AnswerInv, broughtUp
<1>5. c \notin refused' /\ (c \in OwnerConsentCommands => c \in granted')
  BY <1>1, <1>4, BroughtUpStep DEF done
<1>6. ASSUME Once, c \in OwnerConsentCommands
      PROVE  ~onItsWay(c)'
  BY <1>1, <1>6, OnItsWayStep, AskingFacts DEF done
<1>7. ASSUME Once, c \in OwnerConsentCommands, replied'
      PROVE  \E b \in later(c) : broughtUp(b)'
  <2>1. CASE replied
    <3>1. PICK b \in later(c) : broughtUp(b)
      BY <1>7, <2>1 DEF done
    <3> QED
      BY <1>1, <3>1, BroughtUpStep
  <2>2. CASE consentDelivered
    <3> DEFINE x == inHand[1].command
    <3>1. /\ 1 \in DOMAIN inHand /\ inHand[1] \in Answer /\ inHand[1].activity = activity
          /\ UNCHANGED <<activity, asked, granted, refused>>
      BY <2>2 DEF consentDelivered
    <3>2. x \in Commands /\ broughtUp(x)
      BY <1>1, <3>1, ConsentFacts DEF AnswerInv, saysSo, broughtUp, Answer
    <3>3. x \in Phases /\ x \in OwnerConsentCommands /\ onItsWay(x)
      BY <1>1, <3>1, <3>2, ConsentFacts DEF onItsWay, inHands
    <3>4. x # c
      BY <1>7, <3>3 DEF done
    <3>5. x \notin Earlier(c)
      BY <1>7, <3>3 DEF doneBefore, done
    <3>6. x \in later(c)
      BY <3>3, <3>4, <3>5, PhasesOrdered
    <3> QED
      BY <1>1, <3>2, <3>6, BroughtUpStep
  <2>3. replied \/ consentDelivered
    BY <1>1, <1>7, ChannelStep DEF replied
  <2> QED
    BY <2>1, <2>2, <2>3
<1> QED
  BY <1>2, <1>3, <1>5, <1>6, <1>7 DEF done, later, Earlier

LEMMA BeforeKept ==
    ASSUME goingOn, NEW c \in Phases, doneBefore(c)
    PROVE  doneBefore(c)'
<1>1. ASSUME NEW b \in Earlier(c)
      PROVE  done(b)'
  <2>1. b \in Phases /\ done(b) /\ doneBefore(b)
    BY PhasesOrdered DEF doneBefore
  <2> QED
    BY <2>1, DoneKept
<1> QED
  BY <1>1 DEF doneBefore, Earlier

\* what shows that a phase has begun follows from what shows that the phases before are done
LEMMA OriginStep ==
    ASSUME goingOn, NEW c \in Phases, touched(c)' \/ waitingFor(c)' \/ signalled(c)'
    PROVE  doneBefore(c)
<1>1. /\ Undisrupted /\ TypeOKActivity /\ TypeOKActivity' /\ Undisturbed /\ pc # "idle" /\ DoneInv
      /\ [NextActivity]_allVars /\ activity' = activity /\ c \in Commands
  BY ConsentFacts DEF goingOn, Undisrupted
<1>2. ASSUME touched(c) \/ waitingFor(c) \/ signalled(c)
      PROVE  doneBefore(c)
  BY <1>1, <1>2 DEF DoneInv
<1>3. ASSUME NEW h \in handlers, HandlerStep(h), h.command = c
      PROVE  waitingFor(c)
  BY <1>1, <1>3, HandlerTaken
<1>4. CASE requested(c)' \/ answered(c)' \/ delivered(c)'
  BY <1>1, <1>2, <1>4, RequestedStep, AnsweredStep, DeliveredStep DEF touched, pursued
<1>5. CASE commanded(c)'
  BY <1>1, <1>2, <1>3, <1>5, CommandedStep DEF touched, pursued
<1>6. CASE consulted(c)'
  BY <1>1, <1>2, <1>3, <1>6, ConsultedStep DEF touched
<1>7. CASE broughtUp(c)'
  BY <1>1, <1>2, <1>7, BroughtUpStep, AskingFacts DEF touched
<1>8. CASE waitingFor(c)'
  BY <1>1, <1>2, <1>8, WaitingStep DEF signalled
<1>9. CASE signalled(c)'
  <2>1. CASE signalled(c)
    BY <1>2, <2>1
  <2>2. CASE c = "DOWNLOAD"
    BY <2>2 DEF doneBefore, Earlier
  <2>3. ASSUME c = "UPDATE", delivered("DOWNLOAD")
        PROVE  doneBefore(c)
    <3>1. done("DOWNLOAD")
      BY <1>1, <2>3 DEF DoneInv, pursued, Phases
    <3> QED
      BY <2>3, <3>1 DEF doneBefore, Earlier
  <2>4. ASSUME c = "ACTIVATE", delivered("UPDATE")
        PROVE  doneBefore(c)
    <3>1. done("UPDATE") /\ doneBefore("UPDATE")
      BY <1>1, <2>4 DEF DoneInv, touched, pursued, Phases
    <3> QED
      BY <2>4, <3>1 DEF doneBefore, Earlier
  <2> QED
    BY <1>1, <1>9, <2>1, <2>2, <2>3, <2>4, SignalledStep
<1> QED
  BY <1>4, <1>5, <1>6, <1>7, <1>8, <1>9 DEF touched, pursued

LEMMA FreshStep == goingOn => FreshInv'
<1> SUFFICES ASSUME goingOn, NEW c \in Phases
             PROVE  /\ ahead(c)' \/ waitingFor(c)' => ~touched(c)'
                    /\ ahead(c)' => ~waitingFor(c)'
  BY DEF FreshInv
<1>1. /\ Undisrupted /\ TypeOKActivity /\ TypeOKActivity' /\ Undisturbed /\ pc # "idle" /\ FreshInv
      /\ BarrierInv /\ LifecycleInv
      /\ [NextActivity]_allVars /\ activity' = activity /\ pc' # "idle"
  BY ConsentFacts DEF goingOn, Undisrupted
<1>2. ASSUME ahead(c)' \/ waitingFor(c)'
      PROVE  ~touched(c)
  <2>1. Signalled /\ pc = c => ahead(c)
    BY DEF ahead, Phases
  <2> QED
    BY <1>1, <1>2, <2>1, AheadStep, WaitingStep DEF FreshInv
<1>3. ahead(c)' => ~waitingFor(c)'
  BY <1>1, AheadStep, WaitingStep DEF FreshInv
<1>4. ASSUME NEW h \in handlers, HandlerStep(h), h.command = c
      PROVE  ~ahead(c)' /\ ~waitingFor(c)'
  <2>1. waitingFor(c) /\ ~waitingFor(c)'
    BY <1>1, <1>4, HandlerTaken
  <2> QED
    BY <1>1, <2>1, AheadStep DEF FreshInv
<1>5. ASSUME ahead(c)' \/ waitingFor(c)', touched(c)'
      PROVE  FALSE
  <2>1. ~touched(c) /\ \A h \in handlers : ~(HandlerStep(h) /\ h.command = c)
    BY <1>2, <1>4, <1>5
  <2>2. ~commanded(c)'
    BY <1>1, <2>1, CommandedStep DEF touched, pursued
  <2>3. ~requested(c)' /\ ~answered(c)' /\ ~delivered(c)'
    BY <1>1, <2>1, RequestedStep, AnsweredStep, DeliveredStep DEF touched, pursued
  <2>4. ~consulted(c)'
    BY <1>1, <2>1, ConsultedStep DEF touched
  <2>5. ~broughtUp(c)'
    BY <1>1, <2>1, BroughtUpStep DEF touched, asking
  <2> QED
    BY <1>5, <2>2, <2>3, <2>4, <2>5 DEF touched, pursued
<1> QED
  BY <1>3, <1>5

\* the answer in the channel is to the question the owner was asked last
LEMMA LatestAnswer ==
    ASSUME Undisrupted, NEW c \in Phases, consulted(c), chan["consent"] = "true"
    PROVE  c \in granted /\ (Once => ~onItsWay(c))
<1>1. latest(c) /\ replied
  BY ConsentFacts DEF ConsultInv, replied
<1>2. PICK x \in granted : latest(x) /\ (Once => ~onItsWay(x))
  BY <1>1, ConsentFacts DEF ConsultInv
<1>3. x \in Phases
  BY <1>2, ConsentFacts DEF latest, Undisrupted, TypeOKActivity
<1>4. x = c
  BY <1>1, <1>2, <1>3, PhasesOrdered DEF latest, later
<1> QED
  BY <1>2, <1>4

LEMMA DoneStep == goingOn => DoneInv'
<1> SUFFICES ASSUME goingOn, NEW c \in Phases
             PROVE  /\ pursued(c)' => done(c)'
                    /\ touched(c)' \/ waitingFor(c)' \/ signalled(c)' => doneBefore(c)'
  BY DEF DoneInv
<1>1. /\ Undisrupted /\ TypeOKActivity /\ TypeOKActivity' /\ Undisturbed /\ pc # "idle" /\ FreshInv /\ DoneInv
      /\ AnswerInv /\ BarrierInv /\ LifecycleInv /\ SendInv
      /\ [NextActivity]_allVars /\ activity' = activity /\ pc' # "idle" /\ c \in Commands
  BY ConsentFacts DEF goingOn, Undisrupted
<1>2. touched(c)' \/ waitingFor(c)' \/ signalled(c)' => doneBefore(c)'
  BY OriginStep, BeforeKept
<1>3. ASSUME pursued(c)
      PROVE  done(c)'
  <2>1. done(c) /\ doneBefore(c)
    BY <1>1, <1>3 DEF DoneInv, touched
  <2> QED
    BY <2>1, DoneKept
<1>4. ASSUME c \notin OwnerConsentCommands, NEW h \in handlers, HandlerStep(h), h.command = c
      PROVE  done(c)'
  <2>1. waitingFor(c) /\ ~waitingFor(c)'
    BY <1>1, <1>4, HandlerTaken
  <2>2. ~ahead(c)'
    BY <1>1, <2>1, AheadStep DEF FreshInv
  <2>3. ~broughtUp(c)
    BY <1>1, <1>4 DEF AnswerInv
  <2>4. c \notin refused'
    BY <1>1, <2>3, BroughtUpStep DEF broughtUp
  <2> QED
    BY <1>4, <2>1, <2>2, <2>4 DEF done
<1>5. ASSUME OwnerConsented, chan["consent"] = "true", consulted(c)
      PROVE  done(c)'
  <2>1. c \in granted /\ (Once => ~onItsWay(c)) /\ touched(c)
    BY <1>1, <1>5, LatestAnswer DEF touched
  <2>2. ~ahead(c) /\ ~waitingFor(c)
    BY <1>1, <2>1 DEF FreshInv
  <2>3. ~ahead(c)' /\ ~waitingFor(c)'
    <3>1. pc = c => ahead(c)
      BY DEF ahead, Phases
    <3> QED
      BY <1>1, <2>2, <3>1, AheadStep, WaitingStep
  <2>4. c \in granted' /\ c \notin refused'
    BY <1>1, <2>1, BroughtUpStep DEF AnswerInv
  <2>5. Once => ~onItsWay(c)'
    BY <1>1, <2>1, <2>2, OnItsWayStep, AskingFacts
  <2>6. ~replied'
    <3>1. "consent" \in DOMAIN chan /\ chan' = [chan EXCEPT !["consent"] = "empty"]
      BY <1>1, <1>5 DEF OwnerConsented, TypeOKActivity, TypeOK, Channels
    <3> QED
      BY <3>1 DEF replied
  <2> QED
    BY <2>3, <2>4, <2>5, <2>6 DEF done
<1>6. ASSUME pursued(c)', ~pursued(c)
      PROVE  done(c)'
  <2>1. commanded(c)'
    BY <1>1, <1>6, RequestedStep, AnsweredStep, DeliveredStep DEF pursued
  <2> QED
    BY <1>1, <1>4, <1>5, <1>6, <2>1, CommandedStep DEF pursued
<1> QED
  BY <1>2, <1>3, <1>6

\* several commands are not consented to
Single == \E c : OwnerConsentCommands \subseteq {c}

LEMMA OneQuestion ==
    ASSUME goingOn, NEW b, asking(b), NEW c \in Phases, consulted(c)'
    PROVE  b = c
<1>1. PICK i \in DOMAIN todo' : todo'[i].op = "consent" /\ todo'[i].command = c
  BY DEF consulted
<1>2. ~refusal(todo'[i])
  BY <1>1, EffectFields DEF refusal
<1>3. PICK a : todo'[i] = AwaitConsent(b, a)
  BY <1>2, AskingFacts
<1> QED
  BY <1>1, <1>3, EffectFields

\* nothing is asked while an answer waits, or while one is in hand
LEMMA NothingAsked ==
    ASSUME goingOn, Once \/ Single, NEW x \in Phases, broughtUp(x), NEW b \in Phases,
           b = x \/ b \in later(x), waitingFor(b) \/ (b # x /\ broughtUp(b)), b \in OwnerConsentCommands
    PROVE  Once /\ b # x /\ done(x) /\ x \in OwnerConsentCommands
<1>1. Undisrupted /\ FreshInv /\ DoneInv /\ x \in OwnerConsentCommands
  BY ConsentFacts DEF goingOn
<1>2. b # x
  BY <1>1 DEF FreshInv, touched
<1>3. Once
  BY <1>1, <1>2 DEF Single
<1>4. done(x)
  <2>1. doneBefore(b)
    BY <1>1 DEF DoneInv, touched
  <2> QED
    BY <1>2, <2>1 DEF doneBefore, later
<1> QED
  BY <1>1, <1>2, <1>3, <1>4

LEMMA ConsultStep == goingOn /\ (Once \/ Single) => ConsultInv'
<1> SUFFICES ASSUME goingOn, Once \/ Single
             PROVE  ConsultInv'
  OBVIOUS
<1>1. /\ Undisrupted /\ TypeOKActivity /\ TypeOKActivity' /\ Undisturbed /\ pc # "idle"
      /\ FreshInv /\ DoneInv /\ ConsultInv /\ AnswerInv /\ UniqueInv /\ SendInv
      /\ [NextActivity]_allVars /\ activity' = activity /\ pc' # "idle"
  BY ConsentFacts DEF goingOn, Undisrupted
<1>2. ASSUME NEW c \in Phases, consulted(c)'
      PROVE  latest(c)'
  <2>1. ASSUME NEW b \in later(c)
        PROVE  ~asking(b)
    <3>1. b # c
      BY PhasesOrdered
    <3> QED
      BY <1>2, <3>1, OneQuestion
  <2>2. CASE consulted(c)
    <3>1. latest(c)
      BY <1>1, <2>2 DEF ConsultInv
    <3>2. broughtUp(c)' /\ \A b \in later(c) : ~broughtUp(b)'
      BY <1>1, <2>1, <3>1, BroughtUpStep DEF latest
    <3> QED
      BY <3>2 DEF latest, later
  <2>3. ASSUME NEW h \in handlers, HandlerStep(h), h.command = c, todo' = <<AwaitConsent(c, h.spawnedIn)>>
        PROVE  latest(c)'
    <3>1. todo' # <<>> /\ Head(todo').op = "consent"
      <4>1. AwaitConsent(c, h.spawnedIn).op = "consent"
        BY DEF AwaitConsent
      <4>2. todo' # <<>> /\ Head(todo') = AwaitConsent(c, h.spawnedIn)
        BY <2>3
      <4> QED
        BY <4>1, <4>2
    <3>2. [command |-> c, activity |-> activity] \in asked'
      BY <2>3, <3>1 DEF HandlerStep
    <3>3. isAsked(c)'
      <4>1. [command |-> c, activity |-> activity].command = c
            /\ [command |-> c, activity |-> activity].activity = activity'
        BY <1>1
      <4> QED
        BY <3>2, <4>1 DEF isAsked
    <3>4. waitingFor(c)
      BY <1>1, <2>3, HandlerTaken
    <3>5. ASSUME NEW b \in later(c)
          PROVE  ~broughtUp(b)'
      <4>1. b \in Phases /\ c \in Earlier(b)
        BY DEF later
      <4>2. ~broughtUp(b)
        BY <1>1, <3>4, <4>1 DEF DoneInv, touched, doneBefore, done
      <4> QED
        BY <1>1, <2>1, <4>2, BroughtUpStep
    <3> QED
      BY <3>3, <3>5 DEF latest, broughtUp, later
  <2> QED
    BY <1>1, <1>2, <2>2, <2>3, ConsultedStep
<1>3. ASSUME replied'
      PROVE  \E x \in IF chan'["consent"] = "true" THEN granted' ELSE refused' :
                 latest(x)' /\ (Once => ~onItsWay(x)')
  <2>1. CASE replied /\ chan'["consent"] = chan["consent"]
    <3>1. PICK x \in IF chan["consent"] = "true" THEN granted ELSE refused :
            latest(x) /\ (Once => ~onItsWay(x))
      BY <1>1, <2>1 DEF ConsultInv
    <3>2. x \in Phases /\ broughtUp(x)
      BY <1>1, <3>1, ConsentFacts DEF latest, TypeOKActivity
    <3>3. ASSUME NEW b \in Phases, b = x \/ b \in later(x)
          PROVE  ~asking(b)
      <4>1. ASSUME asking(b)
            PROVE  FALSE
        <5>1. waitingFor(b) /\ b \in OwnerConsentCommands
          BY <4>1, AskingFacts
        <5>2. Once /\ done(x) /\ x \in OwnerConsentCommands
          BY <3>2, <3>3, <5>1, NothingAsked
        <5> QED
          BY <2>1, <3>1, <5>2 DEF done, latest
      <4> QED
        BY <4>1
    <3>4. broughtUp(x)' /\ \A b \in later(x) : ~broughtUp(b)'
      <4>1. \A b \in later(x) : b \in Phases
        BY DEF later
      <4> QED
        BY <1>1, <3>1, <3>3, <4>1, BroughtUpStep DEF latest
    <3>5. Once => ~onItsWay(x)'
      BY <1>1, <3>1, <3>2, <3>3, OnItsWayStep
    <3>6. x \in IF chan'["consent"] = "true" THEN granted' ELSE refused'
      BY <1>1, <2>1, <3>1, BroughtUpStep
    <3>7. latest(x)'
      BY <3>4 DEF latest, later
    <3> QED
      BY <3>5, <3>6, <3>7
  <2>2. CASE consentDelivered
    <3>1. /\ 1 \in DOMAIN inHand /\ inHand[1] \in Answer /\ inHand[1].activity = activity
          /\ chan'["consent"] = IF inHand[1].approved THEN "true" ELSE "false"
          /\ inHand' = <<>>
          /\ UNCHANGED <<activity, asked, answers, granted, refused>>
      BY <2>2 DEF consentDelivered
    <3>0. PICK x : x = inHand[1].command
      OBVIOUS
    <3>2. x \in IF inHand[1].approved THEN granted ELSE refused
      BY <1>1, <3>0, <3>1 DEF AnswerInv, saysSo
    <3>3. x \in Commands /\ broughtUp(x) /\ inHands(x)
      BY <3>0, <3>1, <3>2 DEF Answer, broughtUp, inHands
    <3>4. x \in Phases /\ onItsWay(x)
      BY <1>1, <3>3, ConsentFacts DEF onItsWay
    <3>5. ASSUME NEW b \in later(x)
          PROVE  ~broughtUp(b)
      <4>1. ASSUME broughtUp(b)
            PROVE  FALSE
        <5>1. b \in Phases /\ b # x
          BY <3>4, PhasesOrdered DEF later
        <5>2. b \in OwnerConsentCommands
          BY <1>1, <4>1, <5>1, ConsentFacts
        <5>3. Once /\ done(x) /\ x \in OwnerConsentCommands
          BY <3>3, <3>4, <4>1, <5>1, <5>2, NothingAsked
        <5> QED
          BY <3>4, <5>3 DEF done
      <4> QED
        BY <4>1
    <3>6. broughtUp(x)' /\ \A b \in later(x) : ~broughtUp(b)'
      BY <3>1, <3>3, <3>5 DEF broughtUp, isAsked
    <3>7. Once => ~onItsWay(x)'
      <4>1. ~isAsked(x)
        BY <1>1, <3>2, <3>3 DEF AnswerInv
      <4>2. Once => ~inAnswers(x)
        BY <1>1, <3>3, <3>4 DEF UniqueInv
      <4>3. ~inHands(x)'
        BY <3>1 DEF inHands
      <4> QED
        BY <3>1, <4>1, <4>2, <4>3 DEF onItsWay, isAsked, inAnswers
    <3>8. latest(x)'
      BY <3>6 DEF latest, later
    <3>9. x \in IF chan'["consent"] = "true" THEN granted' ELSE refused'
      BY <3>1, <3>2
    <3> QED
      BY <3>7, <3>8, <3>9
  <2> QED
    BY <1>1, <1>3, <2>1, <2>2, ChannelStep DEF replied
<1>4. (replied => \E c \in IF chan["consent"] = "true" THEN granted ELSE refused :
                      latest(c) /\ (Once => ~onItsWay(c)))'
  BY <1>3
<1> QED
  BY <1>2, <1>4 DEF ConsultInv

LEMMA AnswerStep == goingOn => AnswerInv'
<1> SUFFICES ASSUME goingOn
             PROVE  AnswerInv'
  OBVIOUS
<1>1. /\ Undisrupted /\ TypeOKActivity /\ TypeOKActivity' /\ AnswerInv /\ FreshInv
      /\ [NextActivity]_allVars /\ activity' = activity
  BY ConsentFacts DEF goingOn, Undisrupted
<1>2. granted \subseteq Commands /\ asked \subseteq [command : Commands, activity : Nat] /\ answers \in Seq(Answer)
  BY <1>1 DEF TypeOKActivity
<1> DEFINE stillSays(m) == m.command \in IF m.approved THEN granted' ELSE refused'
<1>3. ASSUME NEW m, m.activity = activity, saysSo(m)
      PROVE  stillSays(m)
  BY <1>1, <1>3, BroughtUpStep DEF saysSo
<1>4. ASSUME NEW c \in Commands
      PROVE  broughtUp(c)' => c \in OwnerConsentCommands
  BY <1>1, AskingFacts, BroughtUpStep DEF AnswerInv
<1>5. ASSUME NEW i \in DOMAIN inHand', inHand'[i] \in Answer, inHand'[i].activity = activity
      PROVE  stillSays(inHand'[i])
  BY <1>1, <1>3, <1>5, InHandStep, ReportsAndAnswers DEF AnswerInv
<1>6. CASE /\ UNCHANGED <<granted, refused>> /\ asked \subseteq asked'
           /\ UNCHANGED answers \/ TakeConsent
  <2>1. ASSUME NEW c \in Commands, isAsked(c)'
        PROVE  c \notin granted' \cup refused'
    <3>1. isAsked(c) \/ asking(c)
      BY <1>1, <2>1, AskedStep DEF isAsked, asking
    <3>2. asking(c) => ~broughtUp(c)
      BY AskingFacts DEF touched
    <3> QED
      BY <1>1, <1>6, <3>1, <3>2 DEF AnswerInv, broughtUp
  <2>2. ASSUME NEW i \in DOMAIN answers', answers'[i].activity = activity
        PROVE  stillSays(answers'[i])
    <3>1. \E j \in DOMAIN answers : answers'[i] = answers[j]
      <4>1. CASE UNCHANGED answers
        BY <4>1
      <4>2. CASE TakeConsent
        <5>1. answers' = answers \/ answers' = Tail(answers)
          BY <4>2 DEF TakeConsent
        <5>2. answers # <<>>
          BY <4>2 DEF TakeConsent
        <5> QED
          BY <1>2, <5>1, <5>2, HeadIsFirst
      <4> QED
        BY <1>6, <4>1, <4>2
    <3> QED
      BY <1>1, <1>3, <2>2, <3>1 DEF AnswerInv
  <2>3. granted' \cap refused' = {}
    BY <1>1, <1>6 DEF AnswerInv
  <2> HIDE DEF stillSays
  <2> QED
    BY <1>1, <1>4, <1>5, <2>1, <2>2, <2>3 DEF AnswerInv, saysSo, stillSays
<1>7. ASSUME NEW r \in asked, NEW approved \in BOOLEAN,
             UNCHANGED <<vars, inHand>>, asked' = asked \ {r},
             answers' = Append(answers, [command |-> r.command, approved |-> approved, activity |-> r.activity]),
             granted' = IF approved /\ r.activity = activity THEN granted \cup {r.command} ELSE granted,
             refused' = IF ~approved /\ r.activity = activity THEN refused \cup {r.command} ELSE refused
      PROVE  AnswerInv'
  <2>1. r.activity = activity => r.command \notin granted \cup refused
    BY <1>1, <1>2 DEF AnswerInv, isAsked
  <2>2. granted' \cap refused' = {}
    BY <1>1, <1>7, <2>1 DEF AnswerInv
  <2>3. ASSUME NEW c \in Commands, isAsked(c)'
        PROVE  c \notin granted' \cup refused'
    <3>1. PICK q \in asked : q # r /\ q.command = c /\ q.activity = activity
      BY <1>1, <1>7, <2>3 DEF isAsked
    <3>2. ~(r.command = c /\ r.activity = activity)
      BY <1>2, <3>1
    <3>3. c \notin granted \cup refused
      BY <1>1, <3>1 DEF AnswerInv, isAsked
    <3> QED
      BY <1>7, <3>2, <3>3
  <2>4. ASSUME NEW i \in DOMAIN answers', answers'[i].activity = activity
        PROVE  stillSays(answers'[i])
    <3> DEFINE e == [command |-> r.command, approved |-> approved, activity |-> r.activity]
    <3>1. e \in Answer /\ e.command = r.command /\ e.approved = approved /\ e.activity = r.activity
      BY <1>2 DEF Answer
    <3> HIDE DEF e
    <3>2. (\E j \in DOMAIN answers : answers'[i] = answers[j]) \/ answers'[i] = e
      BY <1>2, <1>7, <3>1, AppendEntries DEF e
    <3>3. CASE answers'[i] = e
      <4>1. r.activity = activity
        BY <2>4, <3>1, <3>3
      <4>2. r.command \in IF approved THEN granted' ELSE refused'
        BY <1>7, <4>1
      <4> QED
        BY <3>1, <3>3, <4>2
    <3> QED
      BY <1>1, <1>3, <2>4, <3>2, <3>3 DEF AnswerInv
  <2> HIDE DEF stillSays
  <2> QED
    BY <1>1, <1>4, <1>5, <2>2, <2>3, <2>4 DEF AnswerInv, saysSo, stillSays
<1> QED
  BY <1>1, <1>6, <1>7, HistoryStep

\* no command of a phase is under way once the owner was asked about a later one
LEMMA PassedStep == goingOn => PassedInv'
<1> SUFFICES ASSUME goingOn, NEW b \in Phases, broughtUp(b)', NEW c \in Earlier(b), commanded(c)'
             PROVE  FALSE
  BY DEF PassedInv, Earlier
<1>1. /\ Undisrupted /\ TypeOKActivity /\ TypeOKActivity' /\ Undisturbed /\ pc # "idle"
      /\ DoneInv /\ ConsultInv /\ PassedInv
      /\ [NextActivity]_allVars /\ activity' = activity /\ b \in Commands /\ c \in Phases /\ b \in later(c)
  BY ConsentFacts, PhasesOrdered DEF goingOn, Undisrupted, later
<1>2. ASSUME asking(b)
      PROVE  FALSE
  <2>1. PICK i \in DOMAIN todo' : todo'[i].op = "command" /\ todo'[i].command = c
    BY DEF commanded
  <2>2. ~refusal(todo'[i])
    BY <1>1, <2>1, EffectFields DEF refusal, Phases
  <2>3. PICK a : todo'[i] = AwaitConsent(b, a)
    BY <1>2, <2>2, AskingFacts
  <2> QED
    BY <2>1, <2>3, EffectFields
<1>3. broughtUp(b)
  BY <1>1, <1>2, BroughtUpStep
<1>4. done(c) /\ ~consulted(c) /\ ~commanded(c)
  BY <1>1, <1>3 DEF DoneInv, touched, doneBefore, ConsultInv, latest, PassedInv
<1>5. ASSUME NEW h \in handlers, HandlerStep(h), h.command = c
      PROVE  FALSE
  BY <1>1, <1>4, <1>5, HandlerTaken DEF done
<1> QED
  BY <1>1, <1>4, <1>5, CommandedStep

\* an answer is in one place only, unless the broker delivers it again
LEMMA UniqueStep == goingOn => UniqueInv'
<1> SUFFICES ASSUME goingOn, Once
             PROVE  /\ \A i, j \in DOMAIN answers' :
                         i # j /\ answers'[i].activity = activity' /\ answers'[j].activity = activity'
                           => answers'[i].command # answers'[j].command
                    /\ \A c \in Phases : inHands(c)' => ~inAnswers(c)'
  BY DEF UniqueInv, Once
<1>1. /\ Undisrupted /\ TypeOKActivity /\ TypeOKActivity' /\ AnswerInv /\ UniqueInv
      /\ [NextActivity]_allVars /\ activity' = activity
  BY ConsentFacts DEF goingOn, Undisrupted
<1>2. /\ asked \subseteq [command : Commands, activity : Nat] /\ answers \in Seq(Answer)
      /\ \A i, j \in DOMAIN answers :
           i # j /\ answers[i].activity = activity /\ answers[j].activity = activity
             => answers[i].command # answers[j].command
      /\ \A c \in Phases : inHands(c) => ~inAnswers(c)
  BY <1>1 DEF TypeOKActivity, UniqueInv
<1>3. CASE TakeConsent
  <2>1. duplicates \in 0..0
    BY <1>1 DEF TypeOKActivity, Once
  <2>2. /\ answers # <<>> /\ answers' = Tail(answers)
        /\ inHand' \in {<<Head(answers)>>, <<>>}
    BY <1>3, <2>1 DEF TakeConsent, KeepCopy, Once
  <2>3. /\ Head(answers) = answers[1] /\ 1 \in DOMAIN answers
        /\ \A i \in DOMAIN answers' :
             i \in Nat \ {0} /\ i + 1 \in DOMAIN answers /\ answers'[i] = answers[i + 1]
    BY <1>2, <2>2, HeadIsFirst
  <2>4. ASSUME NEW i \in DOMAIN answers', NEW j \in DOMAIN answers', i # j,
               answers'[i].activity = activity, answers'[j].activity = activity
        PROVE  answers'[i].command # answers'[j].command
    <3>1. i + 1 # j + 1
      BY <2>3, <2>4
    <3> QED
      BY <1>2, <2>3, <2>4, <3>1
  <2>5. ASSUME NEW c \in Phases, inHands(c)', inAnswers(c)'
        PROVE  FALSE
    <3>1. PICK i \in DOMAIN inHand' : inHand'[i].command = c /\ inHand'[i].activity = activity
      BY <1>1, <2>5 DEF inHands
    <3>2. inHand'[i] = answers[1]
      <4>1. inHand' = <<answers[1]>>
        BY <2>2, <2>3
      <4> QED
        BY <4>1, SingletonEntry
    <3>3. PICK j \in DOMAIN answers' : answers'[j].command = c /\ answers'[j].activity = activity
      BY <1>1, <2>5 DEF inAnswers
    <3>4. j + 1 \in DOMAIN answers /\ j + 1 # 1 /\ answers'[j] = answers[j + 1]
      BY <2>3
    <3> QED
      BY <1>2, <2>3, <3>1, <3>2, <3>3, <3>4
  <2> QED
    BY <1>1, <2>4, <2>5
<1>4. ASSUME ~TakeConsent, NEW c \in Phases, inHands(c)'
      PROVE  inHands(c)
  <2>1. PICK i \in DOMAIN inHand' :
          inHand'[i] \in Answer /\ inHand'[i].command = c /\ inHand'[i].activity = activity
    BY <1>1, <1>4 DEF inHands
  <2>2. i \in DOMAIN inHand /\ inHand'[i] = inHand[i]
    BY <1>1, <1>4, <2>1, InHandStep, ReportsAndAnswers
  <2> QED
    BY <2>1, <2>2 DEF inHands
<1>5. CASE ~TakeConsent /\ UNCHANGED answers
  BY <1>1, <1>2, <1>4, <1>5 DEF inAnswers
<1>6. ASSUME ~TakeConsent, NEW r \in asked, NEW approved \in BOOLEAN,
             answers' = Append(answers, [command |-> r.command, approved |-> approved, activity |-> r.activity])
      PROVE  /\ \A i, j \in DOMAIN answers' :
                  i # j /\ answers'[i].activity = activity' /\ answers'[j].activity = activity'
                    => answers'[i].command # answers'[j].command
             /\ \A c \in Phases : inHands(c)' => ~inAnswers(c)'
  <2> DEFINE e == [command |-> r.command, approved |-> approved, activity |-> r.activity]
  <2>1. e \in Answer /\ e.command = r.command /\ e.activity = r.activity
    BY <1>2 DEF Answer
  <2> HIDE DEF e
  <2>2. \A i \in DOMAIN answers' :
          (i \in DOMAIN answers /\ answers'[i] = answers[i]) \/ (i = Len(answers) + 1 /\ answers'[i] = e)
    BY <1>2, <1>6, <2>1, AppendEntries DEF e
  <2>3. ASSUME e.activity = activity
        PROVE  /\ \A i \in DOMAIN answers : answers[i].activity = activity => answers[i].command # e.command
               /\ ~inHands(e.command)
    <3>1. e.command \in Commands /\ e.command \notin granted \cup refused
      BY <1>1, <1>2, <2>1, <2>3 DEF AnswerInv, isAsked
    <3>2. \A m : saysSo(m) => m.command # e.command
      BY <3>1 DEF saysSo
    <3> QED
      BY <1>1, <3>2, Zenon DEF AnswerInv, inHands
  <2>4. ASSUME NEW i \in DOMAIN answers', NEW j \in DOMAIN answers', i # j,
               answers'[i].activity = activity, answers'[j].activity = activity
        PROVE  answers'[i].command # answers'[j].command
    BY <1>2, <2>2, <2>3, <2>4
  <2>5. ASSUME NEW c \in Phases, inHands(c)', inAnswers(c)'
        PROVE  FALSE
    <3>1. inHands(c) /\ ~inAnswers(c)
      BY <1>2, <1>4, <1>6, <2>5
    <3>2. PICK i \in DOMAIN answers' : answers'[i].command = c /\ answers'[i].activity = activity
      BY <1>1, <2>5 DEF inAnswers
    <3> QED
      BY <2>2, <2>3, <3>1, <3>2 DEF inAnswers
  <2> QED
    BY <1>1, <2>4, <2>5
<1> QED
  BY <1>1, <1>3, <1>5, <1>6, HistoryStep

\* nothing was asked in an activity that begins
LEMMA StartConsent ==
    ASSUME TypeOKActivity, TypeOKActivity', BarrierInv, AgeInv, Start
    PROVE  FreshInv' /\ DoneInv' /\ ConsultInv' /\ AnswerInv' /\ UniqueInv' /\ PassedInv'
<1>1. ~(activity + 1 <= activity)
  <2>1. activity \in Nat
    BY DEF TypeOKActivity, TypeOK
  <2> QED
    BY <2>1
<1>2. PICK ds \in SUBSET Domains : SetupUpdateOperation(ds)
  BY DEF Start
<1>3. activity' = activity + 1
  BY <1>2, Zenon DEF SetupUpdateOperation
<1>4. granted' = {} /\ refused' = {} /\ UNCHANGED <<asked, answers, inHand>>
  BY DEF Start
<1>5. chan'["consent"] \in {"empty", "nil"}
  BY <1>2 DEF SetupUpdateOperation, Channels
<1>6. /\ \A r \in asked : r.activity # activity'
      /\ \A i \in DOMAIN answers : answers[i].activity # activity'
      /\ \A i \in DOMAIN inHand : inHand[i].activity # activity'
  BY <1>1, <1>3 DEF AgeInv
<1>7. \A c : ~broughtUp(c)'
  BY <1>4, <1>6 DEF broughtUp, isAsked
<1>8. \A c \in Phases : /\ ~touched(c)' /\ ~waitingFor(c)' /\ ~signalled(c)'
                        /\ ~pursued(c)' /\ ~consulted(c)'
  BY <1>7, StartCarriesNothing, Zenon DEF carried, touched
<1>9. FreshInv' /\ DoneInv' /\ PassedInv'
  BY <1>7, <1>8, Zenon DEF FreshInv, DoneInv, PassedInv
<1>10. ConsultInv'
  BY <1>5, <1>8 DEF ConsultInv, replied
<1>11. AnswerInv'
  BY <1>4, <1>6, <1>7 DEF AnswerInv, broughtUp
<1>12. UniqueInv'
  BY <1>4, <1>6 DEF UniqueInv, inHands
<1> QED
  BY <1>9, <1>10, <1>11, <1>12

LEMMA ConsentStep ==
    ASSUME TypeOKActivity, TypeOKActivity', BarrierInv, LifecycleInv, OrderInv, ConsentInv, Undisturbed,
           [NextActivity]_allVars, Once \/ Single
    PROVE  ConsentInv'
<1>1. SendInv /\ SendInv' /\ AgeInv
  BY SendStep DEF ConsentInv, OrderInv
<1>2. CASE activity' = activity /\ pc' # "idle" /\ pc # "idle"
  <2>1. goingOn
    BY <1>2 DEF goingOn, Undisrupted
  <2> QED
    BY <1>1, <2>1, FreshStep, DoneStep, ConsultStep, AnswerStep, UniqueStep, PassedStep DEF ConsentInv
<1>3. CASE Start
  BY <1>1, <1>3, StartConsent DEF ConsentInv
<1>4. CASE pc' = "idle"
  BY <1>1, <1>4 DEF ConsentInv
<1> QED
  BY <1>2, <1>3, <1>4, NewActivity

LEMMA InitConsent == InitActivity => ConsentInv
<1> SUFFICES ASSUME InitActivity PROVE ConsentInv
  OBVIOUS
<1>1. DOMAIN <<>> = {}
  OBVIOUS
<1> QED
  BY <1>1 DEF InitActivity, Init, ConsentInv, SendInv

LEMMA ConsentCommands == TypeOKActivity /\ OrderInv /\ ConsentInv => ConsentBeforeCommand /\ NoProgressAfterRefusal
<1> SUFFICES ASSUME TypeOKActivity, OrderInv, ConsentInv, commanding
             PROVE  ConsentBeforeCommand /\ NoProgressAfterRefusal
  BY DEF ConsentBeforeCommand, NoProgressAfterRefusal
<1>1. 1 \in DOMAIN todo /\ todo[1] = Head(todo) /\ todo # <<>> /\ Head(todo).op = "command"
  BY FirstTodo DEF commanding, TypeOKActivity
<1>2. pc # "idle" /\ TypeOK
  BY <1>1 DEF OrderInv, IdleInv, TypeOKActivity
<1>3. Head(todo).command \in AllCommands
  BY <1>1, <1>2, HeadFields
<1>4. ASSUME NEW c \in Phases, Head(todo).command = c
      PROVE  (c \in OwnerConsentCommands => c \in granted) /\ refused = {}
  <2>1. DoneInv /\ AnswerInv /\ PassedInv /\ refused \subseteq Commands
    BY <1>2 DEF ConsentInv, TypeOKActivity
  <2>2. commanded(c)
    BY <1>1, <1>4 DEF commanded
  <2>3. done(c) /\ doneBefore(c)
    BY <2>1, <2>2 DEF DoneInv, touched, pursued
  <2>4. ASSUME NEW b \in refused
        PROVE  FALSE
    <3>1. b \in Phases /\ broughtUp(b)
      BY <2>1, ConstantsAssumption DEF AnswerInv, broughtUp, Phases
    <3>2. b # c /\ b \notin Earlier(c)
      BY <2>3 DEF done, doneBefore
    <3>3. c \in Earlier(b)
      BY <3>1, <3>2, PhasesOrdered DEF later
    <3> QED
      BY <2>1, <2>2, <3>1, <3>3 DEF PassedInv
  <2> QED
    BY <2>3, <2>4 DEF done
<1>5. OwnerConsentCommands \subseteq Phases
  BY ConstantsAssumption DEF Phases
<1>6. Head(todo).command \in Phases \cup {"ROLLBACK", "CLEANUP"}
  BY <1>3 DEF AllCommands, Commands, Phases
<1> QED
  BY <1>4, <1>5, <1>6 DEF ConsentBeforeCommand, NoProgressAfterRefusal

\* The answer of the owner does not name the command it is about (update_orchestrator.go:90-117).
\* As long as no goroutine of an earlier activity interferes, and either no message is delivered
\* twice or at most one command needs consent, it is taken for the command it was given for.
THEOREM ConsentInvariant ==
    ASSUME Once \/ Single
    PROVE  SpecActivity /\ []Undisturbed => []ConsentInv
<1>1. SpecActivity => [](TypeOKActivity /\ BarrierInv /\ LifecycleInv)
  BY ActivityTypeCorrect, ActivityIsOrchestrator, BarrierInvariant, LifecycleInvariant, PTL
<1>2. TypeOKActivity /\ TypeOKActivity' /\ BarrierInv /\ LifecycleInv /\ OrderInv /\ ConsentInv
        /\ Undisturbed /\ [NextActivity]_allVars => ConsentInv'
  BY ConsentStep
<1> QED
  BY <1>1, <1>2, InitConsent, OrderInvariant, PTL DEF SpecActivity

\* ... so that a command that needs consent is issued only if the owner approved that command
THEOREM ConsentBeforeCommandHolds ==
    ASSUME Once \/ Single
    PROVE  SpecActivity /\ []Undisturbed => []ConsentBeforeCommand
  BY ConsentInvariant, ActivityTypeCorrect, OrderInvariant, ConsentCommands, PTL

\* ... and no domain is sent further once the owner refused.
THEOREM NoProgressAfterRefusalHolds ==
    ASSUME Once \/ Single
    PROVE  SpecActivity /\ []Undisturbed => []NoProgressAfterRefusal
  BY ConsentInvariant, ActivityTypeCorrect, OrderInvariant, ConsentCommands, PTL

\* In the first activity commands are issued with the owner's consent.
THEOREM FirstActivityConsented ==
    ASSUME Once \/ Single
    PROVE  SpecActivity /\ [](activity <= 1) => [](ConsentBeforeCommand /\ NoProgressAfterRefusal)
  BY FirstActivityUndisturbed, ConsentBeforeCommandHolds, NoProgressAfterRefusalHolds, PTL

=============================================================================
