----------------------------- MODULE ThingsClient -----------------------------
(***************************************************************************)
(* The update manager as a feature of a digital twin: the things client    *)
(* applies the edge configuration on the router goroutine, the connect     *)
(* handler that activates a feature runs on a goroutine of the Ditto       *)
(* client, operations of the feature and answers of the owner are handled  *)
(* on goroutines of their own, and getOwnerConsent of the orchestrator     *)
(* asks through whatever feature is current.                               *)
(*                                                                         *)
(* The k-th Ditto client and the k-th feature belong together.  A          *)
(* configuration is the thing it names.                                    *)
(***************************************************************************)
EXTENDS Naturals, Sequences

CONSTANTS
    Things,          \* the edge configurations
    MaxResponses,    \* bound: connections to the broker and changes of the edge configuration
    MaxActivities,   \* bound: update activities
    MaxConsents,     \* bound: requests for consent, over all activities
    MaxMessages,     \* bound: operations the backend calls and messages delivered twice (QoS 1)
    MayStop,         \* the process may be terminated
    MaxFaults        \* bound: how often sending, subscribing or making a client fails

ASSUME ThingsAssumption ==
    /\ {MaxResponses, MaxActivities, MaxConsents, MaxMessages, MaxFaults} \subseteq Nat
    /\ MayStop \in BOOLEAN

VARIABLES
    device,           \* the configuration the edge has
    responses,        \* edge/thing/response messages for the router
    route,            \* the Ditto client that is subscribed to the commands, or 0
    counters,         \* how often the bounded things have happened
    edgeConfig,       \* client.edgeConfig; {} is nil
    localCfg,         \* of the handleEdgeResponse under way
    err,              \* its err, which its connect handler assigns as well
    router,           \* where handleEdgeResponse is, "idle" if there is none
    dittoClient,      \* client.dittoClient, by number; 0 is nil
    umFeature,        \* client.umFeature, by number; 0 is nil
    features,         \* the features there have been
    connectHandlers,  \* goroutines of connect handlers, and the feature each has read
    inbox,            \* messages of backend and owner, each sent at some time before it is delivered
    handling,         \* goroutines that wait in messagesHandler of a feature
    taken,            \* history: the operations handed to the update agent
    forwarded,        \* goroutines that hand an answer to the orchestrator
    accepted,         \* history: accepted[r]: how many answers to r were accepted
    consent,          \* the activity, and getOwnerConsent: pc, request, verdict
    ownerConsented,   \* the channel of the operation: the request answered, or 0
    via,              \* history: the feature the consent handler is set on, 0 if on none
    rejected,         \* history: the answer to the request in progress was turned down by
                      \* the feature the consent handler is set on and which is current
    stop,             \* where Stop is
    revived,          \* history: a connect handler activated a feature given up already
    faults            \* how often something was not sent, subscribed to or made

edgeVars == <<device, responses>>
configVars == <<edgeConfig, localCfg, err, router, dittoClient, connectHandlers>>
messageVars == <<inbox, handling, taken, forwarded, accepted>>
consentVars == <<consent, ownerConsented, via, rejected>>
thingsVars == <<edgeVars, route, counters, configVars, umFeature, features, messageVars, consentVars,
                stop, revived, faults>>

Feature == [thing : Things, active : BOOLEAN, consentHandler : BOOLEAN, consentCorrelationID : Nat]
Message == [kind : {"operation"}, id : Nat, activity : {0}, thing : Things]
           \cup [kind : {"consent"}, id : 1..MaxConsents, activity : Nat, thing : Things]
Answer == [request : 1..MaxConsents, activity : Nat]
Consent == [pc : {"none", "ready", "started", "waiting", "stopping", "ending"},
            activity : Nat, request : 0..MaxConsents, granted : BOOLEAN]

current == features[umFeature]

TypeOKThings ==
    /\ device \in Things
    /\ responses \in Seq(Things)
    /\ route \in 0..Len(features)
    /\ counters \in [{"connect", "change", "message"} -> Nat]
    /\ edgeConfig \in {{}} \cup {{t} : t \in Things}
    /\ localCfg \in Things
    /\ err \in BOOLEAN
    /\ router \in {"idle", "deactivate", "disconnect", "create", "feature", "connect", "applied"}
    /\ umFeature = Len(features)
    /\ dittoClient \in 0..(umFeature + 1)
    /\ features \in Seq(Feature)
    /\ connectHandlers \subseteq [client : Nat \ {0}, feature : 0..umFeature]
    /\ inbox \subseteq Message
    /\ handling \subseteq [feature : 1..umFeature, message : Message]
    /\ taken \subseteq Message
    /\ forwarded \subseteq Answer
    /\ accepted \in [1..MaxConsents -> Nat]
    /\ consent \in Consent
    /\ ownerConsented \in 0..MaxConsents
    /\ via \in 0..umFeature
    /\ rejected \in BOOLEAN
    /\ stop \in {"no", "deactivated", "disconnected"}
    /\ revived \in BOOLEAN
    /\ faults \in 0..MaxFaults

InitThings ==
    /\ device \in Things
    /\ responses = <<>>
    /\ route = 0
    /\ counters = [c \in {"connect", "change", "message"} |-> 0]
    /\ edgeConfig = {}
    /\ localCfg = device
    /\ err = FALSE
    /\ router = "idle"
    /\ dittoClient = 0
    /\ umFeature = 0
    /\ features = <<>>
    /\ connectHandlers = {}
    /\ inbox = {}
    /\ handling = {}
    /\ taken = {}
    /\ forwarded = {}
    /\ accepted = [r \in 1..MaxConsents |-> 0]
    /\ consent = [pc |-> "none", activity |-> 0, request |-> 0, granted |-> FALSE]
    /\ ownerConsented = 0
    /\ via = 0
    /\ rejected = FALSE
    /\ stop = "no"
    /\ revived = FALSE
    /\ faults = 0

\* the features, but for one field of the k-th
withActive(k, v)         == [features EXCEPT ![k].active = v]
withConsentHandler(k, v) == [features EXCEPT ![k].consentHandler = v]
withCorrelationID(k, r)  == [features EXCEPT ![k].consentCorrelationID = r]

\* the activity as it is, but elsewhere in getOwnerConsent
asking(p) == [consent EXCEPT !.pc = p]

count(c, max) ==
    /\ counters[c] < max
    /\ counters' = [counters EXCEPT ![c] = @ + 1]

\* something cannot be sent, subscribed to or made, as after the disconnection of Stop
fault ==
    \/ faults < MaxFaults /\ faults' = faults + 1
    \/ stop = "disconnected" /\ UNCHANGED faults

-----------------------------------------------------------------------------
(* The connection to the broker, and the edge configuration *)

\* onConnect: the session is a new one, without the subscriptions of the last;
\* the edge is asked for its configuration
OnConnect ==
    /\ stop = "no"
    /\ counters["change"] + counters["connect"] < MaxResponses
    /\ count("connect", MaxResponses)
    /\ route' = 0
    /\ \/ responses' = Append(responses, device) /\ UNCHANGED faults
       \/ fault /\ UNCHANGED responses
    /\ UNCHANGED <<device, configVars, umFeature, features, messageVars, consentVars, stop, revived>>

\* the edge gets another configuration, and says so
ConfigurationChanges(t) ==
    /\ t # device
    /\ counters["change"] + counters["connect"] < MaxResponses
    /\ count("change", MaxResponses)
    /\ device' = t
    /\ responses' = IF counters["connect"] = 0 THEN responses ELSE Append(responses, t)
    /\ UNCHANGED <<route, configVars, umFeature, features, messageVars, consentVars, stop, revived, faults>>

routerUnchanged == UNCHANGED <<counters, device, messageVars, consentVars, revived>>

\* (mutant) only the first configuration is applied
HandleEdgeResponseOnce ==
    /\ router = "idle"
    /\ responses # <<>>
    /\ responses' = Tail(responses)
    /\ localCfg' = Head(responses)
    /\ router' = IF edgeConfig = {} THEN "create" ELSE "idle"
    /\ UNCHANGED <<route, edgeConfig, err, dittoClient, connectHandlers, umFeature, features, stop, faults>>
    /\ routerUnchanged

\* handleEdgeResponse: nothing to do for the configuration that is applied ...
HandleEdgeResponse ==
    /\ router = "idle"
    /\ responses # <<>>
    /\ responses' = Tail(responses)
    /\ localCfg' = Head(responses)
    /\ router' = CASE edgeConfig = {Head(responses)} -> "idle"
                   [] edgeConfig = {}                -> "create"
                   [] OTHER                          -> "deactivate"
    /\ UNCHANGED <<route, edgeConfig, err, dittoClient, connectHandlers, umFeature, features, stop, faults>>
    /\ routerUnchanged

\* ... else the last one is given up ...
DeactivateFeature ==
    /\ router = "deactivate"
    /\ features' = withActive(umFeature, FALSE)
    /\ router' = "disconnect"
    /\ UNCHANGED <<responses, route, edgeConfig, localCfg, err, dittoClient, connectHandlers, umFeature, stop, faults>>
    /\ routerUnchanged

\* (if a Ditto client could not be made there is none: a nil dereference, and the end)
DisconnectDitto ==
    /\ router = "disconnect"
    /\ dittoClient # 0
    /\ route' = 0
    /\ router' = "create"
    /\ UNCHANGED <<responses, edgeConfig, localCfg, err, dittoClient, connectHandlers, umFeature, features, stop, faults>>
    /\ routerUnchanged

\* ... and a Ditto client, a feature and their connection are made, in this order
NewDittoClient ==
    /\ router = "create"
    /\ \/ /\ dittoClient' = umFeature + 1
          /\ router' = "feature"
          /\ UNCHANGED faults
       \/ /\ fault
          /\ dittoClient' = 0
          /\ router' = "idle"
    /\ UNCHANGED <<responses, route, edgeConfig, localCfg, err, connectHandlers, umFeature, features, stop>>
    /\ routerUnchanged

\* (mutant) umFeature is assigned to a variable of its own
NewUpdateManagerFeatureUnset ==
    /\ router = "feature"
    /\ features' = Append(features, [thing |-> localCfg, active |-> FALSE, consentHandler |-> FALSE,
                                     consentCorrelationID |-> 0])
    /\ umFeature' = umFeature
    /\ router' = "connect"
    /\ UNCHANGED <<responses, route, edgeConfig, localCfg, err, dittoClient, connectHandlers, stop, faults>>
    /\ routerUnchanged

NewUpdateManagerFeature ==
    /\ router = "feature"
    /\ features' = Append(features, [thing |-> localCfg, active |-> FALSE, consentHandler |-> FALSE,
                                     consentCorrelationID |-> 0])
    /\ umFeature' = umFeature + 1
    /\ router' = "connect"
    /\ UNCHANGED <<responses, route, edgeConfig, localCfg, err, dittoClient, connectHandlers, stop, faults>>
    /\ routerUnchanged

ConnectDitto ==
    /\ router = "connect"
    /\ \/ /\ stop # "disconnected"
          /\ route' = dittoClient
          /\ connectHandlers' = connectHandlers \cup {[client |-> dittoClient, feature |-> 0]}
          /\ err' = FALSE
          /\ UNCHANGED faults
       \/ /\ fault
          /\ route' \in {route, dittoClient}
          /\ err' = TRUE
          /\ UNCHANGED connectHandlers
    /\ router' = "applied"
    /\ UNCHANGED <<responses, edgeConfig, localCfg, dittoClient, umFeature, features, stop>>
    /\ routerUnchanged

\* the configuration counts as applied unless err says otherwise
EdgeConfigApplied ==
    /\ router = "applied"
    /\ edgeConfig' = IF err THEN edgeConfig ELSE {localCfg}
    /\ err' = FALSE
    /\ router' = "idle"
    /\ UNCHANGED <<responses, route, localCfg, dittoClient, connectHandlers, umFeature, features, stop, faults>>
    /\ routerUnchanged

-----------------------------------------------------------------------------
(* The connect handler *)

handlerUnchanged == UNCHANGED <<edgeVars, route, counters, edgeConfig, localCfg, router, dittoClient,
                                umFeature, messageVars, consentVars, stop>>

\* the feature that is current when it runs, which need not be its own
ReadFeature(h) ==
    /\ h \in connectHandlers
    /\ h.feature = 0
    /\ connectHandlers' = (connectHandlers \ {h}) \cup {[client |-> h.client, feature |-> umFeature]}
    /\ UNCHANGED <<err, features, revived, faults>>
    /\ handlerUnchanged

\* assigns err of the handleEdgeResponse that made the handler, if that is still under way
sharesErr(h) == router = "applied" /\ h.client = dittoClient

Activate(h) ==
    /\ h \in connectHandlers
    /\ h.feature # 0
    /\ connectHandlers' = connectHandlers \ {h}
    /\ revived' = (revived \/ h.feature < umFeature \/ router \in {"disconnect", "create", "feature"})
    /\ \/ /\ features' = withActive(h.feature, TRUE)
          /\ err' = IF sharesErr(h) THEN FALSE ELSE err
          /\ UNCHANGED faults
       \/ /\ fault
          /\ ~features[h.feature].active
          /\ err' = IF sharesErr(h) THEN TRUE ELSE err
          /\ UNCHANGED features
    /\ handlerUnchanged

-----------------------------------------------------------------------------
(* Messages for the feature *)

environmentUnchanged == UNCHANGED <<edgeVars, route, configVars, umFeature, features, consentVars, stop, revived, faults>>

\* the backend calls apply or refresh of a thing
CallOperation(t) ==
    /\ count("message", MaxMessages)
    /\ inbox' = inbox \cup {[kind |-> "operation", id |-> counters'["message"], activity |-> 0, thing |-> t]}
    /\ UNCHANGED <<handling, taken, forwarded, accepted>>
    /\ environmentUnchanged

\* the Ditto client that is subscribed starts messagesHandler of its feature,
\* which Activate has registered and Deactivate takes back
Deliver(m) ==
    /\ m \in inbox
    /\ route # 0
    /\ \/ inbox' = inbox \ {m} /\ UNCHANGED counters
       \/ count("message", MaxMessages) /\ UNCHANGED inbox
    /\ handling' = IF features[route].active
                   THEN handling \cup {[feature |-> route, message |-> m]}
                   ELSE handling
    /\ UNCHANGED <<taken, forwarded, accepted>>
    /\ environmentUnchanged

\* (mutant) the thing a message is for is not looked at
isForAny(h) == features[h.feature].active

isFor(h) == features[h.feature].active /\ h.message.thing = features[h.feature].thing

handledUnchanged == UNCHANGED <<edgeVars, route, counters, configVars, umFeature, inbox,
                                consent, ownerConsented, via, stop, revived, faults>>

\* messagesHandler for a message of another thing, or of a feature deactivated meanwhile
SkipMessage(h) ==
    /\ h \in handling
    /\ ~isFor(h)
    /\ handling' = handling \ {h}
    /\ UNCHANGED <<features, taken, forwarded, accepted, rejected>>
    /\ handledUnchanged

\* processApply, processRefresh: a payload that makes no sense is replied to as such
ProcessOperation(h) ==
    /\ h \in handling
    /\ h.message.kind = "operation"
    /\ isFor(h)
    /\ handling' = handling \ {h}
    /\ taken' \in {taken, taken \cup {h.message}}
    /\ UNCHANGED <<features, forwarded, accepted, rejected>>
    /\ handledUnchanged

\* (mutant) the correlation id stays valid
ProcessConsentAgain(h) ==
    /\ h \in handling
    /\ h.message.kind = "consent"
    /\ isFor(h)
    /\ handling' = handling \ {h}
    /\ LET m == h.message
           f == features[h.feature]
       IN  \/ /\ f.consentHandler
              /\ m.id = f.consentCorrelationID
              /\ features' = features
              /\ forwarded' = forwarded \cup {[request |-> m.id, activity |-> m.activity]}
              /\ accepted' = [accepted EXCEPT ![m.id] = @ + 1]
              /\ UNCHANGED rejected
           \/ /\ ~f.consentHandler \/ m.id # f.consentCorrelationID
              /\ rejected' = \/ rejected
                             \/ /\ consent.pc = "waiting"
                                /\ via = umFeature
                                /\ m.id = consent.request
                                /\ accepted[m.id] = 0
              /\ UNCHANGED <<features, forwarded, accepted>>
    /\ UNCHANGED taken
    /\ handledUnchanged

\* processConsent: only the answer to the last request of this feature, and once
ProcessConsent(h) ==
    /\ h \in handling
    /\ h.message.kind = "consent"
    /\ isFor(h)
    /\ handling' = handling \ {h}
    /\ LET m == h.message
           f == features[h.feature]
       IN  \/ /\ f.consentHandler
              /\ m.id = f.consentCorrelationID
              /\ features' = withCorrelationID(h.feature, 0)
              /\ forwarded' = forwarded \cup {[request |-> m.id, activity |-> m.activity]}
              /\ accepted' = [accepted EXCEPT ![m.id] = @ + 1]
              /\ UNCHANGED rejected
           \/ /\ ~f.consentHandler \/ m.id # f.consentCorrelationID
              /\ rejected' = \/ rejected
                             \/ /\ consent.pc = "waiting"
                                /\ via = umFeature
                                /\ m.id = consent.request
                                /\ accepted[m.id] = 0
              /\ UNCHANGED <<features, forwarded, accepted>>
    /\ UNCHANGED taken
    /\ handledUnchanged

-----------------------------------------------------------------------------
(* An update activity, as far as it asks the owner *)

askUnchanged == UNCHANGED <<edgeVars, route, counters, configVars, umFeature, handling, taken,
                            accepted, stop, revived>>

\* desired states come through a feature; one activity at a time
BeginActivity ==
    /\ consent.pc = "none"
    /\ consent.activity < MaxActivities
    /\ umFeature # 0
    /\ consent' = [pc |-> "ready", activity |-> consent.activity + 1, request |-> consent.request, granted |-> FALSE]
    /\ ownerConsented' = 0
    /\ UNCHANGED <<features, inbox, forwarded, via, rejected, faults>>
    /\ askUnchanged

EndActivity ==
    /\ consent.pc \in {"ready", "ending"}
    /\ consent' = asking("none")
    /\ ownerConsented' = 0
    /\ UNCHANGED <<features, inbox, forwarded, via, rejected, faults>>
    /\ askUnchanged

\* getOwnerConsent: Start of the consent client ...
SetConsentHandler ==
    /\ consent.pc = "ready"
    /\ consent.request < MaxConsents
    /\ consent' = [pc |-> "started", activity |-> consent.activity, request |-> consent.request + 1, granted |-> FALSE]
    /\ features' = withConsentHandler(umFeature, TRUE)
    /\ via' = umFeature
    /\ UNCHANGED <<ownerConsented, inbox, forwarded, rejected, faults>>
    /\ askUnchanged

request == [kind |-> "consent", id |-> consent.request, activity |-> consent.activity, thing |-> current.thing]

\* (mutant) the correlation id is not remembered
SendConsentUncorrelated ==
    /\ consent.pc = "started"
    /\ \/ /\ ~current.active
          /\ consent' = asking("waiting")
          /\ UNCHANGED <<features, inbox, faults>>
       \/ /\ current.active
          /\ features' = features
          /\ \/ /\ inbox' = inbox \cup {request}
                /\ consent' = asking("waiting")
                /\ UNCHANGED faults
             \/ /\ fault
                /\ inbox' \in {inbox, inbox \cup {request}}
                /\ consent' = asking("stopping")
    /\ UNCHANGED <<ownerConsented, forwarded, via, rejected>>
    /\ askUnchanged

\* ... SendConsent, which says nothing if the feature is not active; the owner answers
\* it sooner or later, and what arrives is handled at any time from now on ...
SendConsent ==
    /\ consent.pc = "started"
    /\ \/ /\ ~current.active
          /\ consent' = asking("waiting")
          /\ UNCHANGED <<features, inbox, faults>>
       \/ /\ current.active
          /\ features' = withCorrelationID(umFeature, consent.request)
          /\ \/ /\ inbox' = inbox \cup {request}
                /\ consent' = asking("waiting")
                /\ UNCHANGED faults
             \/ /\ fault
                /\ inbox' \in {inbox, inbox \cup {request}}
                /\ consent' = asking("stopping")
    /\ UNCHANGED <<ownerConsented, forwarded, via, rejected>>
    /\ askUnchanged

\* (mutant) the activity an answer is for is not looked at
HandleOwnerConsentFeedbackOfAny(a) ==
    /\ a \in forwarded
    /\ forwarded' = forwarded \ {a}
    /\ \/ /\ consent.pc # "none"
          /\ ownerConsented = 0
          /\ ownerConsented' = a.request
       \/ /\ consent.pc = "none"
          /\ UNCHANGED ownerConsented
    /\ UNCHANGED <<features, inbox, consent, via, rejected, faults>>
    /\ askUnchanged

\* HandleOwnerConsentFeedback, on a goroutine of its own; it waits while the channel is full
HandleOwnerConsentFeedback(a) ==
    /\ a \in forwarded
    /\ forwarded' = forwarded \ {a}
    /\ \/ /\ consent.pc # "none" /\ consent.activity = a.activity
          /\ ownerConsented = 0
          /\ ownerConsented' = a.request
       \/ /\ consent.pc = "none" \/ consent.activity # a.activity
          /\ UNCHANGED ownerConsented
    /\ UNCHANGED <<features, inbox, consent, via, rejected, faults>>
    /\ askUnchanged

\* ... the answer, granted or not, or no answer in time ...
OwnerConsented ==
    /\ consent.pc = "waiting"
    /\ ownerConsented # 0
    /\ ownerConsented' = 0
    /\ \E granted \in BOOLEAN :
         consent' = [pc |-> "stopping", activity |-> consent.activity, request |-> consent.request, granted |-> granted]
    /\ UNCHANGED <<features, inbox, forwarded, via, rejected, faults>>
    /\ askUnchanged

ConsentTimeout ==
    /\ consent.pc = "waiting"
    /\ consent' = asking("stopping")
    /\ UNCHANGED <<features, ownerConsented, inbox, forwarded, via, rejected, faults>>
    /\ askUnchanged

\* ... and Stop of the consent client, on the feature that is current by now
ResetConsentHandler ==
    /\ consent.pc = "stopping"
    /\ features' = withConsentHandler(umFeature, FALSE)
    /\ consent' = [pc |-> IF consent.granted THEN "ready" ELSE "ending",
                   activity |-> consent.activity, request |-> consent.request, granted |-> FALSE]
    /\ via' = 0
    /\ UNCHANGED <<ownerConsented, inbox, forwarded, rejected, faults>>
    /\ askUnchanged

-----------------------------------------------------------------------------
(* Stop *)

stopUnchanged == UNCHANGED <<edgeVars, counters, configVars, umFeature, messageVars, consentVars, revived, faults>>

\* responses that have arrived are handled in spite of unsubscribing
Deactivate ==
    /\ MayStop
    /\ stop = "no"
    /\ features' = IF umFeature = 0 THEN features ELSE withActive(umFeature, FALSE)
    /\ stop' = "deactivated"
    /\ UNCHANGED route
    /\ stopUnchanged

Disconnect ==
    /\ stop = "deactivated"
    /\ route' = 0
    /\ stop' = "disconnected"
    /\ UNCHANGED features
    /\ stopUnchanged

-----------------------------------------------------------------------------
ApplyConfiguration ==
    \/ HandleEdgeResponse
    \/ DeactivateFeature
    \/ DisconnectDitto
    \/ NewDittoClient
    \/ NewUpdateManagerFeature
    \/ ConnectDitto
    \/ EdgeConfigApplied

GetOwnerConsent ==
    \/ SetConsentHandler
    \/ SendConsent
    \/ OwnerConsented
    \/ ConsentTimeout
    \/ ResetConsentHandler

NextThings ==
    \/ OnConnect
    \/ \E t \in Things : ConfigurationChanges(t) \/ CallOperation(t)
    \/ ApplyConfiguration
    \/ \E h \in connectHandlers : ReadFeature(h) \/ Activate(h)
    \/ \E m \in inbox : Deliver(m)
    \/ \E h \in handling : SkipMessage(h) \/ ProcessOperation(h) \/ ProcessConsent(h)
    \/ \E a \in forwarded : HandleOwnerConsentFeedback(a)
    \/ BeginActivity
    \/ EndActivity
    \/ GetOwnerConsent
    \/ Deactivate
    \/ Disconnect

SpecThings == InitThings /\ [][NextThings]_thingsVars

-----------------------------------------------------------------------------
(* Properties *)

\* The orchestrator takes no answer for one to its request that the owner gave to
\* another, however late it comes or how often: correlation id (processConsent),
\* consent handler and activity id (HandleOwnerConsentFeedback) together see to it.
AnswerOfRequest ==
    consent.pc = "waiting" /\ ownerConsented # 0 => ownerConsented = consent.request

\* Each request for consent has at most one answer accepted.
OneAnswerPerRequest == \A r \in DOMAIN accepted : accepted[r] <= 1

\* While the feature the consent handler is set on stays the current one, the first
\* answer to the request in progress is not turned down, whatever late answers, copies
\* and requests went before (processConsent).  (A new configuration's feature has no
\* consent handler: there the answer is refused, and the consent times out.)
OwnerIsHeard == ~rejected

\* An operation is handed on only while the thing it was called on is the configured
\* one; the calls of a thing given up are dropped, although their messages and the
\* goroutines that handle them are under way.  (Not so once a late connect handler has
\* activated the feature of the former thing.)
OperationsOfTheThing ==
    [][~revived' => \A m \in taken' \ taken : m.thing = current.thing]_thingsVars

\* Once every response and every connect handler is done with, the configuration the
\* edge has last is that of the current feature, which is active, in whichever order
\* router and connect handlers ran, and subscribed, in the first connection at least: a
\* later one does not renew its subscription.  (Unless something could not be sent, or
\* the process stops.)
ConfigurationApplied ==
    /\ router = "idle"
    /\ responses = <<>>
    /\ connectHandlers = {}
    /\ counters["connect"] > 0
    /\ faults = 0
    /\ stop = "no"
    => /\ umFeature # 0
       /\ current.thing = device
       /\ current.active
       /\ route = umFeature \/ counters["connect"] > 1

=============================================================================
