-------------------------- MODULE ThingsClientProofs --------------------------
(***************************************************************************)
(* Theorems about ThingsClient: an answer of the owner counts once and for *)
(* the request it is to, the right one is heard, and the configuration of  *)
(* the edge is applied, for all configurations, activities, requests,      *)
(* duplicated messages and faults.                                         *)
(***************************************************************************)
EXTENDS ThingsClient, TLAPS

correlation(i) == features[i].consentCorrelationID

\* the answers of the owner that a feature may still be handed
answers == {m \in inbox \cup {h.message : h \in handling} : m.kind = "consent"}

\* clients and features are made in step; from the first on there is a current feature
RouterInv ==
    /\ router = "deactivate" \/ edgeConfig # {} \/ consent.pc # "none" => umFeature # 0
    /\ consent.pc = "started" => consent.request # 0
    /\ router = "feature" => dittoClient = umFeature + 1
    /\ router \in {"connect", "applied"} => dittoClient = umFeature /\ umFeature # 0

\* the owner's answer to the last request of the activity has been taken for good
answered == consent.pc = "ready" \/ (consent.pc = "stopping" /\ consent.granted)

\* requests that have been sent have been begun; a new one has no answer
AcceptedInv ==
    /\ consent.granted => consent.pc = "stopping"
    /\ \A r \in 1..MaxConsents :
         /\ accepted[r] \in {0, 1}
         /\ r > consent.request \/ (r = consent.request /\ consent.pc = "started") => accepted[r] = 0

\* a correlation id is that of one feature, and is one of a request without an answer
CorrelationInv ==
    \A i \in DOMAIN features :
        correlation(i) # 0 =>
            /\ correlation(i) <= consent.request
            /\ consent.pc = "started" => correlation(i) < consent.request
            /\ accepted[correlation(i)] = 0
            /\ \A j \in DOMAIN features : correlation(j) = correlation(i) => j = i

\* of the activity under way, only the last request is without an answer
AnswersInv ==
    \A m \in answers :
        /\ m.id \in 1..consent.request
        /\ m.activity <= consent.activity
        /\ m.activity = consent.activity /\ (m.id < consent.request \/ answered) => accepted[m.id] = 1

\* an answer that was accepted is forwarded once, while its request is the last one
ForwardedInv ==
    \A a \in forwarded :
        /\ a.request \in 1..consent.request
        /\ a.activity <= consent.activity
        /\ accepted[a.request] = 1
        /\ a.request # ownerConsented
        /\ \A b \in forwarded : b.request = a.request => b = a
        /\ a.activity = consent.activity =>
              ~answered /\ consent.pc # "started" /\ (consent.pc = "waiting" => a.request = consent.request)

ChannelInv ==
    ownerConsented # 0 =>
        /\ ownerConsented \in 1..consent.request
        /\ accepted[ownerConsented] = 1
        /\ ~answered /\ consent.pc # "started"
        /\ consent.pc = "waiting" => ownerConsented = consent.request

ConsentInv == AcceptedInv /\ CorrelationInv /\ AnswersInv /\ ForwardedInv /\ ChannelInv

-----------------------------------------------------------------------------
(* Types *)

TypeInv == TypeOKThings /\ RouterInv

\* what an assignment to a field of the k-th feature leaves alone
LEMMA FeatureAssigned ==
    ASSUME features \in Seq(Feature), NEW k \in 1..Len(features)
    PROVE  /\ \A v \in BOOLEAN :
                /\ withActive(k, v) \in Seq(Feature) /\ Len(withActive(k, v)) = Len(features) /\ DOMAIN withActive(k, v) = DOMAIN features
                /\ \A i \in 1..Len(features) : withActive(k, v)[i].consentCorrelationID = correlation(i)
           /\ \A v \in BOOLEAN :
                /\ withConsentHandler(k, v) \in Seq(Feature) /\ Len(withConsentHandler(k, v)) = Len(features) /\ DOMAIN withConsentHandler(k, v) = DOMAIN features
                /\ \A i \in 1..Len(features) : withConsentHandler(k, v)[i].consentCorrelationID = correlation(i)
           /\ \A r \in Nat :
                /\ withCorrelationID(k, r) \in Seq(Feature) /\ Len(withCorrelationID(k, r)) = Len(features) /\ DOMAIN withCorrelationID(k, r) = DOMAIN features
                /\ \A i \in 1..Len(features) :
                     withCorrelationID(k, r)[i].consentCorrelationID = IF i = k THEN r ELSE correlation(i)
<1>1. features[k] \in Feature /\ DOMAIN features = 1..Len(features)
  OBVIOUS
<1>2. \A f \in Feature : /\ [features EXCEPT ![k] = f] \in Seq(Feature)
                         /\ Len([features EXCEPT ![k] = f]) = Len(features)
                         /\ DOMAIN [features EXCEPT ![k] = f] = DOMAIN features
  OBVIOUS
<1>3. ASSUME NEW v \in BOOLEAN
      PROVE  /\ withActive(k, v) \in Seq(Feature) /\ Len(withActive(k, v)) = Len(features) /\ DOMAIN withActive(k, v) = DOMAIN features
             /\ \A i \in 1..Len(features) : withActive(k, v)[i].consentCorrelationID = correlation(i)
  <2>1. [features[k] EXCEPT !.active = v] \in Feature
    BY <1>1 DEF Feature
  <2> QED
    BY <1>1, <1>2, <2>1 DEF correlation, Feature, withActive
<1>4. ASSUME NEW v \in BOOLEAN
      PROVE  /\ withConsentHandler(k, v) \in Seq(Feature) /\ Len(withConsentHandler(k, v)) = Len(features) /\ DOMAIN withConsentHandler(k, v) = DOMAIN features
             /\ \A i \in 1..Len(features) : withConsentHandler(k, v)[i].consentCorrelationID = correlation(i)
  <2>1. [features[k] EXCEPT !.consentHandler = v] \in Feature
    BY <1>1 DEF Feature
  <2> QED
    BY <1>1, <1>2, <2>1 DEF correlation, Feature, withConsentHandler
<1>5. ASSUME NEW r \in Nat
      PROVE  /\ withCorrelationID(k, r) \in Seq(Feature) /\ Len(withCorrelationID(k, r)) = Len(features) /\ DOMAIN withCorrelationID(k, r) = DOMAIN features
             /\ \A i \in 1..Len(features) :
                  withCorrelationID(k, r)[i].consentCorrelationID = IF i = k THEN r ELSE correlation(i)
  <2>1. [features[k] EXCEPT !.consentCorrelationID = r] \in Feature
    BY <1>1 DEF Feature
  <2> QED
    BY <1>1, <1>2, <2>1 DEF correlation, Feature, withCorrelationID
<1> QED
  BY <1>3, <1>4, <1>5

LEMMA Asking ==
    ASSUME consent \in Consent, NEW p \in {"none", "ready", "started", "waiting", "stopping", "ending"}
    PROVE  /\ asking(p) \in Consent /\ asking(p).pc = p /\ asking(p).activity = consent.activity
           /\ asking(p).request = consent.request /\ asking(p).granted = consent.granted
  BY DEF asking, Consent

\* every step is one of these
LEMMA Steps ==
    ASSUME [NextThings]_thingsVars
    PROVE  \/ OnConnect
           \/ \E t \in Things : ConfigurationChanges(t)
           \/ \E t \in Things : CallOperation(t)
           \/ HandleEdgeResponse \/ DeactivateFeature \/ DisconnectDitto \/ NewDittoClient
           \/ NewUpdateManagerFeature \/ ConnectDitto \/ EdgeConfigApplied
           \/ \E h \in connectHandlers : ReadFeature(h)
           \/ \E h \in connectHandlers : Activate(h)
           \/ \E m \in inbox : Deliver(m)
           \/ \E h \in handling : SkipMessage(h)
           \/ \E h \in handling : ProcessOperation(h)
           \/ \E h \in handling : ProcessConsent(h)
           \/ \E a \in forwarded : HandleOwnerConsentFeedback(a)
           \/ BeginActivity \/ EndActivity
           \/ SetConsentHandler \/ SendConsent \/ OwnerConsented \/ ConsentTimeout \/ ResetConsentHandler
           \/ Deactivate \/ Disconnect
           \/ UNCHANGED thingsVars
  BY Zenon DEF NextThings, ApplyConfiguration, GetOwnerConsent

LEMMA Counted ==
    ASSUME counters \in [{"connect", "change", "message"} -> Nat]
    PROVE  \A c \in {"connect", "change", "message"} : \A max :
             count(c, max) => counters' \in [{"connect", "change", "message"} -> Nat] /\ counters'[c] \in Nat
  BY DEF count

LEMMA Faulted ==
    ASSUME faults \in 0..MaxFaults
    PROVE  fault => faults' \in 0..MaxFaults
  BY ThingsAssumption DEF fault

\* TypeOKThings in parts, by what actions assign together
EdgeTypes ==
    /\ device \in Things
    /\ responses \in Seq(Things)
    /\ counters \in [{"connect", "change", "message"} -> Nat]
    /\ edgeConfig \in {{}} \cup {{t} : t \in Things}
    /\ localCfg \in Things
    /\ err \in BOOLEAN
    /\ rejected \in BOOLEAN
    /\ stop \in {"no", "deactivated", "disconnected"}
    /\ revived \in BOOLEAN
    /\ faults \in 0..MaxFaults

ClientTypes ==
    /\ route \in 0..Len(features)
    /\ router \in {"idle", "deactivate", "disconnect", "create", "feature", "connect", "applied"}
    /\ umFeature = Len(features)
    /\ dittoClient \in 0..(umFeature + 1)
    /\ features \in Seq(Feature)
    /\ connectHandlers \subseteq [client : Nat \ {0}, feature : 0..umFeature]
    /\ via \in 0..umFeature
    /\ RouterInv

MessageTypes ==
    /\ inbox \subseteq Message
    /\ handling \subseteq [feature : 1..umFeature, message : Message]
    /\ taken \subseteq Message
    /\ forwarded \subseteq Answer
    /\ accepted \in [1..MaxConsents -> Nat]

ConsentTypes ==
    /\ consent \in Consent
    /\ ownerConsented \in 0..MaxConsents

LEMMA TypeParts ==
    /\ TypeInv <=> EdgeTypes /\ ClientTypes /\ MessageTypes /\ ConsentTypes
    /\ TypeInv' <=> EdgeTypes' /\ ClientTypes' /\ MessageTypes' /\ ConsentTypes'
  BY DEF TypeInv, TypeOKThings, EdgeTypes, ClientTypes, MessageTypes, ConsentTypes, Consent

LEMMA EdgeTypesKept ==
    ASSUME TypeInv, [NextThings]_thingsVars
    PROVE  EdgeTypes'
<1>0. EdgeTypes
  BY TypeParts
<1> USE <1>0 DEF EdgeTypes, edgeVars, configVars, messageVars, consentVars
<1>1. CASE OnConnect
  <2>1. counters' \in [{"connect", "change", "message"} -> Nat] /\ faults' \in 0..MaxFaults
    BY <1>1, Counted, Faulted DEF OnConnect
  <2>2. responses' \in Seq(Things)
    <3>1. responses' = responses \/ responses' = Append(responses, device)
      BY <1>1 DEF OnConnect
    <3> QED
      BY <3>1, SMTT(60)
  <2> QED
    BY <1>1, <2>1, <2>2 DEF OnConnect
<1>2. ASSUME NEW t \in Things, ConfigurationChanges(t)
      PROVE  EdgeTypes'
  BY <1>2, Counted DEF ConfigurationChanges
<1>3. CASE HandleEdgeResponse
  BY <1>3 DEF HandleEdgeResponse, routerUnchanged
<1>4. CASE NewDittoClient
  BY <1>4, Faulted DEF NewDittoClient, routerUnchanged
<1>5. CASE ConnectDitto
  BY <1>5, Faulted DEF ConnectDitto, routerUnchanged
<1>6. CASE EdgeConfigApplied
  BY <1>6 DEF EdgeConfigApplied, routerUnchanged
<1>7. ASSUME NEW h \in connectHandlers, Activate(h)
      PROVE  EdgeTypes'
  BY <1>7, Faulted DEF Activate, handlerUnchanged, sharesErr
<1>8. ASSUME NEW t \in Things, CallOperation(t)
      PROVE  EdgeTypes'
  BY <1>8, Counted DEF CallOperation, environmentUnchanged
<1>9. ASSUME NEW m \in inbox, Deliver(m)
      PROVE  EdgeTypes'
  BY <1>9, Counted DEF Deliver, environmentUnchanged
<1>10. ASSUME NEW h \in handling, ProcessConsent(h)
      PROVE  EdgeTypes'
  BY <1>10 DEF ProcessConsent, handledUnchanged
<1>11. CASE SendConsent
  BY <1>11, Faulted DEF SendConsent, askUnchanged
<1>12. CASE Deactivate
  BY <1>12 DEF Deactivate, stopUnchanged
<1>13. CASE Disconnect
  BY <1>13 DEF Disconnect, stopUnchanged
<1>14. CASE \/ DeactivateFeature
            \/ DisconnectDitto
            \/ NewUpdateManagerFeature
            \/ \E h \in connectHandlers : ReadFeature(h)
            \/ \E h \in handling : SkipMessage(h)
            \/ \E h \in handling : ProcessOperation(h)
            \/ \E a \in forwarded : HandleOwnerConsentFeedback(a)
            \/ BeginActivity
            \/ EndActivity
            \/ SetConsentHandler
            \/ OwnerConsented
            \/ ConsentTimeout
            \/ ResetConsentHandler
            \/ UNCHANGED thingsVars
  <2>1. UNCHANGED <<device, responses, counters, edgeConfig, localCfg, err, rejected, stop, revived, faults>>
    BY <1>14 DEF DeactivateFeature, DisconnectDitto, NewUpdateManagerFeature, ReadFeature, SkipMessage, ProcessOperation, HandleOwnerConsentFeedback, BeginActivity, EndActivity, SetConsentHandler, OwnerConsented, ConsentTimeout, ResetConsentHandler, routerUnchanged, handlerUnchanged, handledUnchanged, askUnchanged, thingsVars
  <2> QED
    BY <2>1
<1> HIDE DEF EdgeTypes
<1> QED
  BY <1>1, <1>2, <1>3, <1>4, <1>5, <1>6, <1>7, <1>8, <1>9, <1>10, <1>11, <1>12, <1>13, <1>14, Steps

LEMMA FeaturesKept ==
    ASSUME TypeInv, [NextThings]_thingsVars
    PROVE  features' \in Seq(Feature) /\ umFeature' = Len(features') /\ umFeature' >= umFeature
<1>1. features \in Seq(Feature) /\ umFeature = Len(features) /\ localCfg \in Things /\ consent \in Consent
  BY DEF TypeInv, TypeOKThings
<1>a. umFeature \in Nat /\ (umFeature # 0 => umFeature \in 1..Len(features)) /\ consent.request \in Nat
  BY <1>1 DEF Consent
<1>b. consent.pc # "none" \/ router = "deactivate" => umFeature # 0
  BY DEF TypeInv, RouterInv
<1>c. /\ \A h \in connectHandlers : h.feature \in 0..Len(features)
      /\ \A h \in handling : h.feature \in 1..Len(features)
  BY <1>1 DEF TypeInv, TypeOKThings
<1>2. CASE NewUpdateManagerFeature
  BY <1>1, <1>a, <1>2 DEF NewUpdateManagerFeature, Feature
<1>7. ASSUME UNCHANGED umFeature, NEW fs \in Seq(Feature), features' = fs, Len(fs) = Len(features)
      PROVE  features' \in Seq(Feature) /\ umFeature' = Len(features') /\ umFeature' >= umFeature
  BY <1>1, <1>a, <1>7
<1>3. CASE DeactivateFeature \/ Deactivate
  <2>1. UNCHANGED umFeature
    BY <1>3 DEF DeactivateFeature, Deactivate, routerUnchanged, stopUnchanged
  <2>2. UNCHANGED features \/ (umFeature # 0 /\ features' = withActive(umFeature, FALSE))
    BY <1>3, <1>b DEF DeactivateFeature, Deactivate
  <2>3. umFeature # 0 => /\ withActive(umFeature, FALSE) \in Seq(Feature)
                         /\ Len(withActive(umFeature, FALSE)) = Len(features)
    BY <1>1, <1>a, FeatureAssigned
  <2> QED
    BY <1>1, <1>7, <2>1, <2>2, <2>3, Zenon
<1>4. ASSUME NEW h \in connectHandlers, Activate(h)
      PROVE  features' \in Seq(Feature) /\ umFeature' = Len(features') /\ umFeature' >= umFeature
  <2>1. UNCHANGED umFeature /\ (UNCHANGED features \/ features' = withActive(h.feature, TRUE))
    BY <1>4, Zenon DEF Activate, handlerUnchanged
  <2>2. h.feature \in 1..Len(features)
    BY <1>1, <1>c, <1>4 DEF Activate
  <2>3. withActive(h.feature, TRUE) \in Seq(Feature) /\ Len(withActive(h.feature, TRUE)) = Len(features)
    BY <1>1, <2>2, FeatureAssigned
  <2> QED
    BY <1>1, <1>7, <2>1, <2>3, Zenon
<1>5. ASSUME NEW h \in handling, ProcessConsent(h)
      PROVE  features' \in Seq(Feature) /\ umFeature' = Len(features') /\ umFeature' >= umFeature
  <2>1. UNCHANGED umFeature /\ (UNCHANGED features \/ features' = withCorrelationID(h.feature, 0))
    BY <1>5, Zenon DEF ProcessConsent, handledUnchanged
  <2>2. h.feature \in 1..Len(features) /\ 0 \in Nat
    BY <1>c
  <2>3. withCorrelationID(h.feature, 0) \in Seq(Feature) /\ Len(withCorrelationID(h.feature, 0)) = Len(features)
    BY <1>1, <2>2, FeatureAssigned, Zenon
  <2> QED
    BY <1>1, <1>7, <2>1, <2>3, Zenon
<1>6. CASE SetConsentHandler \/ SendConsent \/ ResetConsentHandler
  <2>1. UNCHANGED umFeature
    BY <1>6, Zenon DEF SetConsentHandler, SendConsent, ResetConsentHandler, askUnchanged
  <2>2. \/ UNCHANGED features
        \/ features' = withConsentHandler(umFeature, TRUE)
        \/ features' = withConsentHandler(umFeature, FALSE)
        \/ features' = withCorrelationID(umFeature, consent.request)
    BY <1>6, Zenon DEF SetConsentHandler, SendConsent, ResetConsentHandler
  <2>3. umFeature \in 1..Len(features)
    BY <1>a, <1>b, <1>6 DEF SetConsentHandler, SendConsent, ResetConsentHandler
  <2>4. \A v \in BOOLEAN : /\ withConsentHandler(umFeature, v) \in Seq(Feature)
                           /\ Len(withConsentHandler(umFeature, v)) = Len(features)
    BY <1>1, <2>3, FeatureAssigned
  <2>5. /\ withCorrelationID(umFeature, consent.request) \in Seq(Feature)
        /\ Len(withCorrelationID(umFeature, consent.request)) = Len(features)
    BY <1>1, <1>a, <2>3, FeatureAssigned
  <2>6. TRUE \in BOOLEAN /\ FALSE \in BOOLEAN
    OBVIOUS
  <2> QED
    BY <1>1, <1>7, <2>1, <2>2, <2>4, <2>5, <2>6, Zenon
<1>8. ASSUME UNCHANGED <<features, umFeature>>
      PROVE  features' \in Seq(Feature) /\ umFeature' = Len(features') /\ umFeature' >= umFeature
  BY <1>1, <1>a, <1>8
<1>9. CASE \/ OnConnect \/ (\E t \in Things : ConfigurationChanges(t)) \/ (\E t \in Things : CallOperation(t))
           \/ HandleEdgeResponse \/ DisconnectDitto \/ NewDittoClient \/ ConnectDitto \/ EdgeConfigApplied
           \/ (\E h \in connectHandlers : ReadFeature(h)) \/ (\E m \in inbox : Deliver(m))
           \/ \E h \in handling : SkipMessage(h) \/ ProcessOperation(h)
  <2>1. UNCHANGED <<features, umFeature>>
    BY <1>9, Zenon
       DEF OnConnect, ConfigurationChanges, CallOperation, HandleEdgeResponse, DisconnectDitto, NewDittoClient,
           ConnectDitto, EdgeConfigApplied, ReadFeature, Deliver, SkipMessage, ProcessOperation,
           routerUnchanged, handlerUnchanged, environmentUnchanged, handledUnchanged
  <2> QED
    BY <1>8, <2>1
<1>10. CASE \/ \E a \in forwarded : HandleOwnerConsentFeedback(a)
            \/ BeginActivity \/ EndActivity \/ OwnerConsented \/ ConsentTimeout
            \/ Disconnect \/ UNCHANGED thingsVars
  <2>1. UNCHANGED <<features, umFeature>>
    BY <1>10, Zenon
       DEF HandleOwnerConsentFeedback, BeginActivity, EndActivity, OwnerConsented, ConsentTimeout, Disconnect,
           askUnchanged, stopUnchanged, thingsVars
  <2> QED
    BY <1>8, <2>1
<1> QED
  BY <1>2, <1>3, <1>4, <1>5, <1>6, <1>9, <1>10, Steps

LEMMA ClientTypesKept ==
    ASSUME TypeInv, [NextThings]_thingsVars
    PROVE  ClientTypes'
<1>0. ClientTypes /\ ConsentTypes
  BY TypeParts
<1> USE <1>0 DEF ClientTypes, edgeVars, configVars, messageVars, consentVars
<1> USE FeaturesKept DEF RouterInv
<1>1. CASE OnConnect
  BY <1>1 DEF OnConnect, ConsentTypes, Consent
<1>2. CASE HandleEdgeResponse
  BY <1>2 DEF HandleEdgeResponse, routerUnchanged, ConsentTypes, Consent
<1>3. CASE DeactivateFeature
  BY <1>3 DEF DeactivateFeature, routerUnchanged, ConsentTypes, Consent
<1>4. CASE DisconnectDitto
  BY <1>4 DEF DisconnectDitto, routerUnchanged, ConsentTypes, Consent
<1>5. CASE NewDittoClient
  BY <1>5 DEF NewDittoClient, routerUnchanged, ConsentTypes, Consent
<1>6. CASE NewUpdateManagerFeature
  BY <1>6 DEF NewUpdateManagerFeature, routerUnchanged, ConsentTypes, Consent
<1>7. CASE ConnectDitto
  BY <1>7 DEF ConnectDitto, routerUnchanged, ConsentTypes, Consent
<1>8. CASE EdgeConfigApplied
  BY <1>8 DEF EdgeConfigApplied, routerUnchanged, ConsentTypes, Consent
<1>9. ASSUME NEW h \in connectHandlers, ReadFeature(h)
      PROVE  ClientTypes'
  BY <1>9 DEF ReadFeature, handlerUnchanged, ConsentTypes, Consent
<1>10. ASSUME NEW h \in connectHandlers, Activate(h)
      PROVE  ClientTypes'
  BY <1>10 DEF Activate, handlerUnchanged, ConsentTypes, Consent
<1>11. ASSUME NEW h \in handling, ProcessConsent(h)
      PROVE  ClientTypes'
  BY <1>11 DEF ProcessConsent, handledUnchanged, ConsentTypes, Consent
<1>12. CASE BeginActivity
  BY <1>12 DEF BeginActivity, askUnchanged, ConsentTypes, Consent
<1>13. CASE EndActivity
  BY <1>13, Asking DEF EndActivity, askUnchanged, ConsentTypes, Consent
<1>14. CASE SetConsentHandler
  <2>1. consent.pc # "none" /\ consent'.request = consent.request + 1 /\ via' = umFeature /\ UNCHANGED <<route, router, umFeature, dittoClient, connectHandlers, edgeConfig>>
    BY <1>14 DEF SetConsentHandler, askUnchanged
  <2> QED
    BY <2>1 DEF ConsentTypes, Consent
<1>15. CASE SendConsent
  BY <1>15, Asking DEF SendConsent, askUnchanged, ConsentTypes, Consent
<1>16. CASE OwnerConsented
  BY <1>16 DEF OwnerConsented, askUnchanged, ConsentTypes, Consent
<1>17. CASE ConsentTimeout
  BY <1>17, Asking DEF ConsentTimeout, askUnchanged, ConsentTypes, Consent
<1>18. CASE ResetConsentHandler
  <2>1. consent.pc # "none" /\ consent'.pc # "started" /\ via' = 0 /\ UNCHANGED <<route, router, umFeature, dittoClient, connectHandlers, edgeConfig>>
    BY <1>18 DEF ResetConsentHandler, askUnchanged
  <2> QED
    BY <2>1 DEF ConsentTypes, Consent
<1>19. CASE Deactivate
  BY <1>19 DEF Deactivate, stopUnchanged, ConsentTypes, Consent
<1>20. CASE Disconnect
  BY <1>20 DEF Disconnect, stopUnchanged, ConsentTypes, Consent
<1>21. CASE \/ \E t \in Things : ConfigurationChanges(t)
            \/ \E t \in Things : CallOperation(t)
            \/ \E m \in inbox : Deliver(m)
            \/ \E h \in handling : SkipMessage(h)
            \/ \E h \in handling : ProcessOperation(h)
            \/ \E a \in forwarded : HandleOwnerConsentFeedback(a)
            \/ UNCHANGED thingsVars
  <2>1. UNCHANGED <<route, router, umFeature, dittoClient, features, connectHandlers, via, edgeConfig, consent>>
    BY <1>21 DEF ConfigurationChanges, CallOperation, Deliver, SkipMessage, ProcessOperation, HandleOwnerConsentFeedback, environmentUnchanged, handledUnchanged, askUnchanged, thingsVars
  <2> QED
    BY <2>1
<1> HIDE DEF ClientTypes
<1> QED
  BY <1>1, <1>2, <1>3, <1>4, <1>5, <1>6, <1>7, <1>8, <1>9, <1>10, <1>11, <1>12, <1>13, <1>14, <1>15, <1>16, <1>17, <1>18, <1>19, <1>20, <1>21, Steps

LEMMA MessageTypesKept ==
    ASSUME TypeInv, [NextThings]_thingsVars
    PROVE  MessageTypes'
<1>0. MessageTypes
  BY TypeParts
<1> USE <1>0 DEF MessageTypes, edgeVars, configVars, messageVars, consentVars
<1>1. CASE NewUpdateManagerFeature
  <2>1. UNCHANGED <<inbox, handling, taken, forwarded, accepted>>
    BY <1>1 DEF NewUpdateManagerFeature, routerUnchanged
  <2>2. umFeature \in Nat /\ umFeature' \in Nat /\ umFeature' >= umFeature
    BY FeaturesKept, TypeParts DEF ClientTypes
  <2> QED
    BY <2>1, <2>2
<1>2. ASSUME NEW t \in Things, CallOperation(t)
      PROVE  MessageTypes'
  <2>1. counters'["message"] \in Nat
    BY <1>2, TypeParts, Counted DEF CallOperation, EdgeTypes
  <2>2. [kind |-> "operation", id |-> counters'["message"], activity |-> 0, thing |-> t] \in Message
    BY <2>1 DEF Message
  <2> QED
    BY <1>2, <2>2 DEF CallOperation, environmentUnchanged
<1>3. ASSUME NEW m \in inbox, Deliver(m)
      PROVE  MessageTypes'
  <2>1. route \in 0..umFeature /\ umFeature \in Nat
    BY FeaturesKept, TypeParts DEF ClientTypes
  <2>2. [feature |-> route, message |-> m] \in [feature : 1..umFeature, message : Message]
    BY <1>3, <2>1 DEF Deliver
  <2>3. handling' \subseteq handling \cup {[feature |-> route, message |-> m]} /\ inbox' \subseteq inbox
    BY <1>3 DEF Deliver
  <2>4. UNCHANGED <<umFeature, taken, forwarded, accepted>>
    BY <1>3 DEF Deliver, environmentUnchanged
  <2> QED
    BY <2>2, <2>3, <2>4
<1>4. ASSUME NEW h \in handling, SkipMessage(h)
      PROVE  MessageTypes'
  BY <1>4 DEF SkipMessage, handledUnchanged
<1>5. ASSUME NEW h \in handling, ProcessOperation(h)
      PROVE  MessageTypes'
  BY <1>5 DEF ProcessOperation, handledUnchanged
<1>6. ASSUME NEW h \in handling, ProcessConsent(h)
      PROVE  MessageTypes'
  <2>1. h.message.id \in 1..MaxConsents /\ h.message.activity \in Nat
    BY <1>6 DEF ProcessConsent, Message
  <2>2. [request |-> h.message.id, activity |-> h.message.activity] \in Answer
    BY <2>1 DEF Answer
  <2>3. /\ forwarded' \subseteq forwarded \cup {[request |-> h.message.id, activity |-> h.message.activity]}
        /\ handling' \subseteq handling /\ UNCHANGED <<umFeature, inbox, taken>>
        /\ UNCHANGED accepted \/ accepted' = [accepted EXCEPT ![h.message.id] = @ + 1]
    BY <1>6 DEF ProcessConsent, handledUnchanged
  <2>4. accepted' \in [1..MaxConsents -> Nat]
    BY <2>1, <2>3
  <2> QED
    BY <2>2, <2>3, <2>4
<1>7. ASSUME NEW a \in forwarded, HandleOwnerConsentFeedback(a)
      PROVE  MessageTypes'
  BY <1>7 DEF HandleOwnerConsentFeedback, askUnchanged
<1>8. CASE SendConsent
  <2>1. umFeature \in 1..Len(features) /\ features \in Seq(Feature)
    BY <1>8, TypeParts DEF SendConsent, ClientTypes, RouterInv
  <2>2. features[umFeature] \in Feature
    BY <2>1
  <2>3. consent.request \in 1..MaxConsents /\ consent.activity \in Nat
    BY <1>8, TypeParts, ThingsAssumption, SMTT(60) DEF SendConsent, ConsentTypes, Consent, ClientTypes, RouterInv
  <2>4. request \in Message
    BY <2>2, <2>3 DEF request, current, Message, Feature
  <2>5. inbox' \subseteq inbox \cup {request} /\ UNCHANGED <<handling, taken, forwarded, accepted, umFeature>>
    BY <1>8 DEF SendConsent, askUnchanged
  <2> QED
    BY <2>4, <2>5
<1>9. CASE \/ OnConnect
           \/ \E t \in Things : ConfigurationChanges(t)
           \/ HandleEdgeResponse
           \/ DeactivateFeature
           \/ DisconnectDitto
           \/ NewDittoClient
           \/ ConnectDitto
           \/ EdgeConfigApplied
           \/ \E h \in connectHandlers : ReadFeature(h)
           \/ \E h \in connectHandlers : Activate(h)
           \/ BeginActivity
           \/ EndActivity
           \/ SetConsentHandler
           \/ OwnerConsented
           \/ ConsentTimeout
           \/ ResetConsentHandler
           \/ Deactivate
           \/ Disconnect
           \/ UNCHANGED thingsVars
  <2>1. UNCHANGED <<inbox, handling, taken, forwarded, accepted, umFeature>>
    BY <1>9 DEF OnConnect, ConfigurationChanges, HandleEdgeResponse, DeactivateFeature, DisconnectDitto, NewDittoClient, ConnectDitto, EdgeConfigApplied, ReadFeature, Activate, BeginActivity, EndActivity, SetConsentHandler, OwnerConsented, ConsentTimeout, ResetConsentHandler, Deactivate, Disconnect, routerUnchanged, handlerUnchanged, askUnchanged, stopUnchanged, thingsVars
  <2> QED
    BY <2>1
<1> HIDE DEF MessageTypes
<1> QED
  BY <1>1, <1>2, <1>3, <1>4, <1>5, <1>6, <1>7, <1>8, <1>9, Steps

LEMMA ConsentTypesKept ==
    ASSUME TypeInv, [NextThings]_thingsVars
    PROVE  ConsentTypes'
<1>0. ConsentTypes
  BY TypeParts
<1> USE <1>0 DEF ConsentTypes, edgeVars, configVars, messageVars, consentVars
<1>1. ASSUME NEW a \in forwarded, HandleOwnerConsentFeedback(a)
      PROVE  ConsentTypes'
  <2>1. a.request \in 0..MaxConsents
    BY <1>1, TypeParts, ThingsAssumption DEF MessageTypes, Answer
  <2> QED
    BY <1>1, <2>1 DEF HandleOwnerConsentFeedback, askUnchanged
<1>2. CASE BeginActivity
  BY <1>2, ThingsAssumption DEF BeginActivity, askUnchanged, Consent
<1>3. CASE EndActivity
  BY <1>3, Asking, ThingsAssumption DEF EndActivity, askUnchanged, Consent
<1>4. CASE SetConsentHandler
  BY <1>4, ThingsAssumption DEF SetConsentHandler, askUnchanged, Consent
<1>5. CASE SendConsent
  BY <1>5, Asking, ThingsAssumption DEF SendConsent, askUnchanged, Consent
<1>6. CASE OwnerConsented
  BY <1>6, ThingsAssumption DEF OwnerConsented, askUnchanged, Consent
<1>7. CASE ConsentTimeout
  BY <1>7, Asking, ThingsAssumption DEF ConsentTimeout, askUnchanged, Consent
<1>8. CASE ResetConsentHandler
  BY <1>8, ThingsAssumption DEF ResetConsentHandler, askUnchanged, Consent
<1>9. CASE \/ OnConnect
           \/ \E t \in Things : ConfigurationChanges(t)
           \/ HandleEdgeResponse
           \/ DeactivateFeature
           \/ DisconnectDitto
           \/ NewDittoClient
           \/ NewUpdateManagerFeature
           \/ ConnectDitto
           \/ EdgeConfigApplied
           \/ \E h \in connectHandlers : ReadFeature(h)
           \/ \E h \in connectHandlers : Activate(h)
           \/ \E t \in Things : CallOperation(t)
           \/ \E m \in inbox : Deliver(m)
           \/ \E h \in handling : SkipMessage(h)
           \/ \E h \in handling : ProcessOperation(h)
           \/ \E h \in handling : ProcessConsent(h)
           \/ Deactivate
           \/ Disconnect
           \/ UNCHANGED thingsVars
  <2>1. UNCHANGED <<consent, ownerConsented>>
    BY <1>9 DEF OnConnect, ConfigurationChanges, HandleEdgeResponse, DeactivateFeature, DisconnectDitto, NewDittoClient, NewUpdateManagerFeature, ConnectDitto, EdgeConfigApplied, ReadFeature, Activate, CallOperation, Deliver, SkipMessage, ProcessOperation, ProcessConsent, Deactivate, Disconnect, routerUnchanged, handlerUnchanged, environmentUnchanged, handledUnchanged, stopUnchanged, thingsVars
  <2> QED
    BY <2>1
<1> HIDE DEF ConsentTypes
<1> QED
  BY <1>1, <1>2, <1>3, <1>4, <1>5, <1>6, <1>7, <1>8, <1>9, Steps

LEMMA TypesKept ==
    ASSUME TypeInv, [NextThings]_thingsVars
    PROVE  TypeInv'
  BY TypeParts, EdgeTypesKept, ClientTypesKept, MessageTypesKept, ConsentTypesKept

LEMMA InitTypes == InitThings => TypeInv
<1> SUFFICES ASSUME InitThings PROVE TypeInv
  OBVIOUS
<1> USE DEF InitThings
<1>1. EdgeTypes
  <2>1. responses \in Seq(Things) /\ edgeConfig \in {{}} \cup {{t} : t \in Things}
    OBVIOUS
  <2>2. counters \in [{"connect", "change", "message"} -> Nat]
    OBVIOUS
  <2>3. faults \in 0..MaxFaults
    <3>1. MaxFaults \in Nat
      BY ThingsAssumption
    <3> QED
      BY <3>1
  <2>4. device \in Things /\ localCfg \in Things /\ err \in BOOLEAN /\ rejected \in BOOLEAN /\ revived \in BOOLEAN
    OBVIOUS
  <2>5. stop \in {"no", "deactivated", "disconnected"}
    OBVIOUS
  <2> HIDE DEF InitThings
  <2> QED
    BY <2>1, <2>2, <2>3, <2>4, <2>5 DEF EdgeTypes
<1>2. ClientTypes
  <2>1. Len(features) = 0 /\ features \in Seq(Feature)
    OBVIOUS
  <2> QED
    BY <2>1 DEF ClientTypes, RouterInv
<1>3. MessageTypes
  BY DEF MessageTypes
<1>4. ConsentTypes
  BY ThingsAssumption DEF ConsentTypes, Consent
<1> QED
  BY <1>1, <1>2, <1>3, <1>4, TypeParts

\* The variables keep their types, and the features, clients and handlers their numbers:
\* what a goroutine of the Ditto client, of the router or of an update activity reads at
\* umFeature and dittoClient is there, whenever it runs.
THEOREM ThingsTypeCorrect == SpecThings => []TypeOKThings
<1>1. TypeInv => TypeOKThings
  BY DEF TypeInv
<1> QED
  BY <1>1, InitTypes, TypesKept, PTL DEF SpecThings

-----------------------------------------------------------------------------
(* Answers *)

\* what the inductive invariant is about, typed
LEMMA ConsentFacts ==
    ASSUME TypeInv
    PROVE  /\ consent.pc \in {"none", "ready", "started", "waiting", "stopping", "ending"}
           /\ consent.activity \in Nat
           /\ consent.request \in 0..MaxConsents /\ consent.request \in Nat
           /\ consent.granted \in BOOLEAN
           /\ ownerConsented \in 0..MaxConsents /\ ownerConsented \in Nat
           /\ accepted \in [1..MaxConsents -> Nat]
           /\ MaxConsents \in Nat
           /\ \A m \in answers : m.id \in 1..MaxConsents /\ m.activity \in Nat
           /\ \A a \in forwarded : a.request \in 1..MaxConsents /\ a.activity \in Nat
           /\ features \in Seq(Feature) /\ umFeature = Len(features)
           /\ \A i \in DOMAIN features : correlation(i) \in Nat
<1>1. consent \in Consent /\ ownerConsented \in 0..MaxConsents
  BY TypeParts DEF ConsentTypes
<1>2. /\ inbox \subseteq Message /\ forwarded \subseteq Answer /\ accepted \in [1..MaxConsents -> Nat]
      /\ handling \subseteq [feature : 1..umFeature, message : Message]
  BY TypeParts DEF MessageTypes
<1>3. features \in Seq(Feature) /\ umFeature = Len(features)
  BY TypeParts DEF ClientTypes
<1>4. \A m \in answers : m.id \in 1..MaxConsents /\ m.activity \in Nat
  <2>1. \A m \in answers : m \in Message /\ m.kind = "consent"
    BY <1>2 DEF answers
  <2> QED
    BY <2>1 DEF Message
<1>5. \A i \in DOMAIN features : correlation(i) \in Nat
  <2>1. \A i \in DOMAIN features : features[i] \in Feature
    BY <1>3
  <2> QED
    BY <2>1 DEF correlation, Feature
<1> QED
  BY <1>1, <1>2, <1>3, <1>4, <1>5, ThingsAssumption, SMTT(60) DEF Consent, Answer

\* steps that take no part in the answers
quiet ==
    /\ UNCHANGED <<consent, accepted, forwarded, ownerConsented>>
    /\ answers' \subseteq answers
    /\ \A i \in DOMAIN features' : correlation(i)' = 0 \/ (i \in DOMAIN features /\ correlation(i)' = correlation(i))

LEMMA QuietSteps ==
    ASSUME ConsentInv, quiet
    PROVE  ConsentInv'
<1> USE DEF quiet
<1>1. AcceptedInv'
  BY DEF ConsentInv, AcceptedInv
<1>2. CorrelationInv'
  <2> USE DEF ConsentInv, CorrelationInv
  <2>1. \A i \in DOMAIN features' : correlation(i)' # 0 =>
          i \in DOMAIN features /\ correlation(i)' = correlation(i)
    OBVIOUS
  <2> QED
    BY <2>1
<1>3. AnswersInv'
  BY DEF ConsentInv, AnswersInv, answered
<1>4. ForwardedInv'
  BY DEF ConsentInv, ForwardedInv, answered
<1>5. ChannelInv'
  BY DEF ConsentInv, ChannelInv, answered
<1> QED
  BY <1>1, <1>2, <1>3, <1>4, <1>5 DEF ConsentInv

LEMMA SameFeatures ==
    ASSUME UNCHANGED features
    PROVE  \A i \in DOMAIN features' : i \in DOMAIN features /\ correlation(i)' = correlation(i)
  BY DEF correlation

\* of messages, none is an answer that was not there before
LEMMA SameAnswers ==
    ASSUME \A m \in inbox' : m \in inbox \/ m.kind = "operation",
           \A h \in handling' : h \in handling \/ h.message \in inbox
    PROVE  answers' \subseteq answers
  BY DEF answers

LEMMA QuietActions ==
    ASSUME TypeInv,
           \/ OnConnect \/ (\E t \in Things : ConfigurationChanges(t)) \/ (\E t \in Things : CallOperation(t))
           \/ HandleEdgeResponse \/ DeactivateFeature \/ DisconnectDitto \/ NewDittoClient
           \/ NewUpdateManagerFeature \/ ConnectDitto \/ EdgeConfigApplied
           \/ (\E h \in connectHandlers : ReadFeature(h))
           \/ (\E h \in connectHandlers : Activate(h))
           \/ (\E m \in inbox : Deliver(m))
           \/ (\E h \in handling : SkipMessage(h))
           \/ (\E h \in handling : ProcessOperation(h))
           \/ Deactivate \/ Disconnect
           \/ UNCHANGED thingsVars
    PROVE  quiet
<1>0. /\ features \in Seq(Feature) /\ umFeature = Len(features) /\ DOMAIN features = 1..Len(features)
      /\ localCfg \in Things
      /\ router = "deactivate" => umFeature # 0
      /\ \A h \in connectHandlers : h.feature \in 0..Len(features)
  BY TypeParts DEF ClientTypes, EdgeTypes, RouterInv
<1> USE DEF edgeVars, configVars, messageVars, consentVars, routerUnchanged, handlerUnchanged,
            environmentUnchanged, handledUnchanged, stopUnchanged
\* most touch neither features nor messages
<1>1. ASSUME UNCHANGED <<consent, accepted, forwarded, ownerConsented, features, inbox, handling>>
      PROVE  quiet
  BY <1>1, SameFeatures, SameAnswers DEF quiet
<1>2. CASE OnConnect \/ (\E t \in Things : ConfigurationChanges(t)) \/ HandleEdgeResponse \/ DisconnectDitto
           \/ NewDittoClient \/ ConnectDitto \/ EdgeConfigApplied
  <2>1. UNCHANGED <<consent, accepted, forwarded, ownerConsented, features, inbox, handling>>
    BY <1>2, Zenon
       DEF OnConnect, ConfigurationChanges, HandleEdgeResponse, DisconnectDitto, NewDittoClient, ConnectDitto,
           EdgeConfigApplied
  <2> QED
    BY <1>1, <2>1
<1>3. CASE (\E h \in connectHandlers : ReadFeature(h)) \/ Disconnect \/ UNCHANGED thingsVars
  <2>1. UNCHANGED <<consent, accepted, forwarded, ownerConsented, features, inbox, handling>>
    BY <1>3, Zenon DEF ReadFeature, Disconnect, thingsVars
  <2> QED
    BY <1>1, <2>1
<1>4. ASSUME NEW t \in Things, CallOperation(t)
      PROVE  quiet
  <2>1. UNCHANGED <<consent, accepted, forwarded, ownerConsented, features, handling>>
    BY <1>4, Zenon DEF CallOperation
  <2>2. \A m \in inbox' : m \in inbox \/ m.kind = "operation"
    BY <1>4 DEF CallOperation
  <2> QED
    BY <2>1, <2>2, SameFeatures, SameAnswers DEF quiet
<1>5. ASSUME NEW m \in inbox, Deliver(m)
      PROVE  quiet
  <2>1. UNCHANGED <<consent, accepted, forwarded, ownerConsented, features>>
    BY <1>5, Zenon DEF Deliver
  <2>2. inbox' \subseteq inbox /\ \A h \in handling' : h \in handling \/ h.message \in inbox
    BY <1>5 DEF Deliver
  <2> QED
    BY <2>1, <2>2, SameFeatures, SameAnswers DEF quiet
<1>6. ASSUME NEW h \in handling, SkipMessage(h) \/ ProcessOperation(h)
      PROVE  quiet
  <2>1. UNCHANGED <<consent, accepted, forwarded, ownerConsented, features, inbox>>
    BY <1>6, Zenon DEF SkipMessage, ProcessOperation
  <2>2. handling' \subseteq handling
    BY <1>6 DEF SkipMessage, ProcessOperation
  <2> QED
    BY <2>1, <2>2, SameFeatures, SameAnswers DEF quiet
\* a feature is made without a correlation id, and activated and deactivated with what it has
<1>7. CASE NewUpdateManagerFeature
  <2>1. UNCHANGED <<consent, accepted, forwarded, ownerConsented, inbox, handling>>
    BY <1>7, Zenon DEF NewUpdateManagerFeature
  <2> DEFINE f == [thing |-> localCfg, active |-> FALSE, consentHandler |-> FALSE, consentCorrelationID |-> 0]
  <2>2. features' = Append(features, f) /\ f.consentCorrelationID = 0
    BY <1>7 DEF NewUpdateManagerFeature
  <2>3. \A i \in DOMAIN features' : \/ i \in DOMAIN features /\ features'[i] = features[i]
                                    \/ features'[i] = f
    BY <1>0, <2>2
  <2> QED
    BY <2>1, <2>2, <2>3, SameAnswers DEF quiet, correlation
<1>8. ASSUME NEW k \in 1..Len(features), NEW v \in BOOLEAN, features' = withActive(k, v),
             UNCHANGED <<consent, accepted, forwarded, ownerConsented, inbox, handling>>
      PROVE  quiet
  <2>1. DOMAIN features' = DOMAIN features
    <3>1. withActive(k, v) \in Seq(Feature) /\ Len(withActive(k, v)) = Len(features)
      BY <1>0, <1>8, FeatureAssigned, Zenon
    <3> QED
      BY <1>0, <1>8, <3>1
  <2>2. \A i \in 1..Len(features) : features'[i].consentCorrelationID = correlation(i)
    BY <1>0, <1>8, FeatureAssigned, ZenonT(60)
  <2> QED
    BY <1>0, <1>8, <2>1, <2>2, SameAnswers DEF quiet, correlation
<1>9. CASE DeactivateFeature \/ Deactivate
  <2>1. UNCHANGED <<consent, accepted, forwarded, ownerConsented, inbox, handling>>
    BY <1>9, Zenon DEF DeactivateFeature, Deactivate
  <2>2. UNCHANGED features \/ (umFeature # 0 /\ features' = withActive(umFeature, FALSE))
    BY <1>0, <1>9 DEF DeactivateFeature, Deactivate
  <2>3. umFeature # 0 => umFeature \in 1..Len(features)
    BY <1>0
  <2> QED
    BY <1>1, <1>8, <2>1, <2>2, <2>3
<1>10. ASSUME NEW h \in connectHandlers, Activate(h)
       PROVE  quiet
  <2>1. UNCHANGED <<consent, accepted, forwarded, ownerConsented, inbox, handling>>
    BY <1>10, Zenon DEF Activate
  <2>2. UNCHANGED features \/ features' = withActive(h.feature, TRUE)
    BY <1>10, Zenon DEF Activate
  <2>3. h.feature \in 1..Len(features)
    BY <1>0, <1>10 DEF Activate
  <2> QED
    BY <1>1, <1>8, <2>1, <2>2, <2>3
<1> QED
  BY <1>2, <1>3, <1>4, <1>5, <1>6, <1>7, <1>9, <1>10

-----------------------------------------------------------------------------
(* Steps that take part in the answers *)

\* processConsent accepts an answer: its request had none
LEMMA ProcessConsentStep ==
    ASSUME TypeInv, ConsentInv, NEW h \in handling, ProcessConsent(h)
    PROVE  ConsentInv'
<1> USE ConsentFacts
<1> DEFINE m == h.message
           k == h.feature
<1>1. /\ m \in answers /\ answers' \subseteq answers
      /\ k \in DOMAIN features /\ features \in Seq(Feature) /\ DOMAIN features = 1..Len(features)
  <2>1. k \in 1..umFeature /\ m.kind = "consent"
    BY TypeParts DEF MessageTypes, ProcessConsent
  <2>2. inbox' = inbox /\ handling' \subseteq handling
    BY DEF ProcessConsent, handledUnchanged
  <2> QED
    BY <2>1, <2>2, SameAnswers DEF answers
<1>2. UNCHANGED <<consent, ownerConsented>>
  BY Zenon DEF ProcessConsent, handledUnchanged
<1>3. CASE UNCHANGED <<features, forwarded, accepted>>
  BY <1>1, <1>2, <1>3, SameFeatures, QuietSteps DEF quiet
<1>4. ASSUME m.id = correlation(k), features' = withCorrelationID(k, 0),
             forwarded' = forwarded \cup {[request |-> m.id, activity |-> m.activity]},
             accepted' = [accepted EXCEPT ![m.id] = @ + 1]
      PROVE  ConsentInv'
  <2>1. /\ m.id \in 1..MaxConsents /\ m.activity \in Nat
        /\ m.id \in 1..consent.request /\ m.activity <= consent.activity
        /\ m.activity = consent.activity /\ (m.id < consent.request \/ answered) => accepted[m.id] = 1
    BY <1>1 DEF ConsentInv, AnswersInv
  <2>2. /\ accepted[m.id] = 0
        /\ consent.pc = "started" => m.id < consent.request
        /\ \A j \in DOMAIN features : correlation(j) = m.id => j = k
    BY <1>1, <1>4, <2>1 DEF ConsentInv, CorrelationInv
  <2>3. /\ accepted'[m.id] = 1
        /\ \A r \in 1..MaxConsents : r # m.id => accepted'[r] = accepted[r]
    BY <1>4, <2>1, <2>2
  <2>4. /\ DOMAIN features' = DOMAIN features
        /\ \A i \in DOMAIN features : correlation(i)' = IF i = k THEN 0 ELSE correlation(i)
    <3>1. /\ features' \in Seq(Feature) /\ Len(features') = Len(features)
          /\ \A i \in 1..Len(features) : features'[i].consentCorrelationID = IF i = k THEN 0 ELSE correlation(i)
      <4>1. 0 \in Nat
        OBVIOUS
      <4>2. /\ withCorrelationID(k, 0) \in Seq(Feature) /\ Len(withCorrelationID(k, 0)) = Len(features)
            /\ \A i \in 1..Len(features) :
                 withCorrelationID(k, 0)[i].consentCorrelationID = IF i = k THEN 0 ELSE correlation(i)
        <5>1. k \in 1..Len(features)
          BY <1>1
        <5> QED
          BY <1>1, <4>1, <5>1, FeatureAssigned, ZenonT(60)
      <4> QED
        BY <1>4, <4>2, Zenon
    <3> QED
      BY <1>1, <3>1 DEF correlation
  <2>5. \A a \in forwarded : a.request # m.id /\ a.request \in 1..MaxConsents
    BY <2>2 DEF ConsentInv, ForwardedInv
  <2>6. ownerConsented # m.id
    BY <2>1, <2>2 DEF ConsentInv, ChannelInv
  <2>7. \A a \in forwarded' : a \in forwarded \/ (a.request = m.id /\ a.activity = m.activity
                                                   /\ \A b \in forwarded' : b \notin forwarded => b = a)
    BY <1>4
  <2>8. AcceptedInv'
    BY <1>2, <2>1, <2>2, <2>3, SMTT(60) DEF ConsentInv, AcceptedInv
  <2>9. CorrelationInv'
    BY <1>2, <2>2, <2>3, <2>4, SMTT(60) DEF ConsentInv, CorrelationInv, AcceptedInv
  <2>10. AnswersInv'
    BY <1>1, <1>2, <2>2, <2>3, ZenonT(60) DEF ConsentInv, AnswersInv, answered
  <2>11. ForwardedInv'
    <3>1. ASSUME NEW a \in forwarded
          PROVE  /\ a.request \in 1..consent'.request
                 /\ a.activity <= consent'.activity
                 /\ accepted'[a.request] = 1
                 /\ a.request # ownerConsented'
                 /\ \A b \in forwarded' : b.request = a.request => b = a
                 /\ a.activity = consent'.activity =>
                       ~answered' /\ consent'.pc # "started" /\ (consent'.pc = "waiting" => a.request = consent'.request)
      BY <1>2, <2>3, <2>5, <2>7 DEF ConsentInv, ForwardedInv, answered
    <3>2. ASSUME NEW a \in forwarded', a \notin forwarded
          PROVE  /\ a.request \in 1..consent'.request
                 /\ a.activity <= consent'.activity
                 /\ accepted'[a.request] = 1
                 /\ a.request # ownerConsented'
                 /\ \A b \in forwarded' : b.request = a.request => b = a
                 /\ a.activity = consent'.activity =>
                       ~answered' /\ consent'.pc # "started" /\ (consent'.pc = "waiting" => a.request = consent'.request)
      <4>1. a.request = m.id /\ a.activity = m.activity
        BY <2>7, <3>2
      <4>2. \A b \in forwarded' : b.request = a.request => b = a
        BY <2>5, <2>7, <3>2, <4>1
      <4>3. a.activity = consent'.activity =>
              ~answered' /\ consent'.pc # "started" /\ (consent'.pc = "waiting" => a.request = consent'.request)
        BY <1>2, <2>1, <2>2, <4>1 DEF answered
      <4> QED
        BY <1>2, <2>1, <2>3, <2>6, <4>1, <4>2, <4>3
    <3> QED
      BY <3>1, <3>2 DEF ForwardedInv
  <2>12. ChannelInv'
    BY <1>2, <2>3, <2>6 DEF ConsentInv, ChannelInv, answered
  <2> QED
    BY <2>8, <2>9, <2>10, <2>11, <2>12 DEF ConsentInv
<1>5. \/ UNCHANGED <<features, forwarded, accepted>>
      \/ /\ m.id = correlation(k) /\ features' = withCorrelationID(k, 0)
         /\ forwarded' = forwarded \cup {[request |-> m.id, activity |-> m.activity]}
         /\ accepted' = [accepted EXCEPT ![m.id] = @ + 1]
  BY Zenon DEF ProcessConsent, correlation
<1> QED
  BY <1>3, <1>4, <1>5

\* an answer reaches the channel of its operation, or is dropped
LEMMA HandleOwnerConsentFeedbackStep ==
    ASSUME TypeInv, ConsentInv, NEW a \in forwarded, HandleOwnerConsentFeedback(a)
    PROVE  ConsentInv'
<1> USE ConsentFacts
<1>1. /\ UNCHANGED <<consent, accepted, features, inbox, handling>> /\ forwarded' = forwarded \ {a}
      /\ \/ /\ consent.pc # "none" /\ consent.activity = a.activity /\ ownerConsented' = a.request
         \/ UNCHANGED ownerConsented
  BY Zenon DEF HandleOwnerConsentFeedback, askUnchanged
<1>2. answers' = answers
  BY <1>1 DEF answers
<1>3. AcceptedInv' /\ CorrelationInv' /\ AnswersInv'
  BY <1>1, <1>2 DEF ConsentInv, AcceptedInv, CorrelationInv, AnswersInv, answered, correlation
<1>4. /\ a.request \in 1..consent.request
      /\ accepted[a.request] = 1
      /\ \A b \in forwarded : b.request = a.request => b = a
      /\ a.activity = consent.activity =>
            ~answered /\ consent.pc # "started" /\ (consent.pc = "waiting" => a.request = consent.request)
  BY DEF ConsentInv, ForwardedInv
<1>5. ForwardedInv'
  BY <1>1, <1>4, ZenonT(60) DEF ConsentInv, ForwardedInv, answered
<1>6. ChannelInv'
  BY <1>1, <1>4 DEF ConsentInv, ChannelInv, answered
<1> QED
  BY <1>3, <1>5, <1>6 DEF ConsentInv

\* between two requests there is nothing on its way for the activity that comes or ends
LEMMA ActivitySteps ==
    ASSUME TypeInv, ConsentInv, BeginActivity \/ EndActivity
    PROVE  ConsentInv'
<1> USE ConsentFacts
<1>1. UNCHANGED <<accepted, forwarded, features, inbox, handling>> /\ ownerConsented' = 0
  BY Zenon DEF BeginActivity, EndActivity, askUnchanged
<1>2. /\ consent'.request = consent.request /\ consent'.granted = FALSE
      /\ \/ consent'.pc = "ready" /\ consent'.activity = consent.activity + 1
         \/ consent'.pc = "none" /\ consent'.activity = consent.activity /\ consent.pc # "started"
  <2>1. consent \in Consent
    BY TypeParts DEF ConsentTypes
  <2>2. CASE BeginActivity
    BY <2>2 DEF BeginActivity
  <2>3. CASE EndActivity
    <3>1. consent.granted = FALSE
      BY <2>3 DEF ConsentInv, AcceptedInv, EndActivity
    <3> QED
      BY <2>1, <2>3, <3>1, Asking DEF EndActivity
  <2> QED
    BY <2>2, <2>3
<1>3. answers' = answers
  BY <1>1 DEF answers
<1>4. AcceptedInv'
  BY <1>1, <1>2 DEF ConsentInv, AcceptedInv
<1>5. CorrelationInv'
  BY <1>1, <1>2 DEF ConsentInv, CorrelationInv, correlation
<1>6. AnswersInv'
  BY <1>1, <1>2, <1>3 DEF ConsentInv, AnswersInv, answered
<1>7. ForwardedInv'
  BY <1>1, <1>2, SMTT(60) DEF ConsentInv, ForwardedInv, answered
<1>8. ChannelInv'
  BY <1>1 DEF ChannelInv
<1> QED
  BY <1>4, <1>5, <1>6, <1>7, <1>8 DEF ConsentInv

\* a new request is made when the last one of the activity has been answered
LEMMA SetConsentHandlerStep ==
    ASSUME TypeInv, ConsentInv, SetConsentHandler
    PROVE  ConsentInv'
<1> USE ConsentFacts
<1>1. UNCHANGED <<accepted, forwarded, ownerConsented, inbox, handling>>
  BY Zenon DEF SetConsentHandler, askUnchanged
<1>2. /\ consent.pc = "ready"
      /\ consent'.pc = "started" /\ consent'.granted = FALSE
      /\ consent'.activity = consent.activity /\ consent'.request = consent.request + 1
  BY DEF SetConsentHandler
<1>3. /\ DOMAIN features' = DOMAIN features
      /\ \A i \in DOMAIN features : correlation(i)' = correlation(i)
  <2>1. features' = withConsentHandler(umFeature, TRUE) /\ umFeature \in 1..Len(features)
    BY <1>2, TypeParts DEF SetConsentHandler, ClientTypes, RouterInv
  <2>2. /\ withConsentHandler(umFeature, TRUE) \in Seq(Feature)
        /\ DOMAIN withConsentHandler(umFeature, TRUE) = DOMAIN features
        /\ \A i \in 1..Len(features) : withConsentHandler(umFeature, TRUE)[i].consentCorrelationID = correlation(i)
    BY <2>1, FeatureAssigned
  <2>3. features \in Seq(Feature) /\ DOMAIN features = 1..Len(features)
    OBVIOUS
  <2>4. DOMAIN features' = DOMAIN features
    BY <2>1, <2>2, Zenon
  <2>5. \A i \in 1..Len(features) : features'[i].consentCorrelationID = correlation(i)
    BY <2>1, <2>2, Zenon
  <2> QED
    BY <2>3, <2>4, <2>5 DEF correlation
<1>4. answers' = answers
  BY <1>1 DEF answers
<1>5. AcceptedInv'
  BY <1>1, <1>2 DEF ConsentInv, AcceptedInv
<1>6. CorrelationInv'
  BY <1>1, <1>2, <1>3 DEF ConsentInv, CorrelationInv
<1>7. AnswersInv'
  BY <1>1, <1>2, <1>4 DEF ConsentInv, AnswersInv, answered
<1>8. ForwardedInv'
  BY <1>1, <1>2 DEF ConsentInv, ForwardedInv, answered
<1>9. ChannelInv'
  BY <1>1, <1>2 DEF ConsentInv, ChannelInv, answered
<1> QED
  BY <1>5, <1>6, <1>7, <1>8, <1>9 DEF ConsentInv

\* the request is sent: its correlation id is that of the current feature alone
LEMMA SendConsentStep ==
    ASSUME TypeInv, ConsentInv, SendConsent
    PROVE  ConsentInv'
<1> USE ConsentFacts
<1>1. /\ UNCHANGED <<accepted, forwarded, ownerConsented, handling>>
      /\ inbox' \subseteq inbox \cup {request}
      /\ consent.pc = "started"
      /\ consent' = asking("waiting") \/ consent' = asking("stopping")
      /\ UNCHANGED features \/ features' = withCorrelationID(umFeature, consent.request)
  BY DEF SendConsent, askUnchanged
<1>2. /\ consent'.pc \in {"waiting", "stopping"} /\ consent'.granted = FALSE
      /\ consent'.activity = consent.activity /\ consent'.request = consent.request
      /\ consent.granted = FALSE
  <2>1. consent \in Consent
    BY TypeParts DEF ConsentTypes
  <2>2. consent.granted = FALSE
    BY <1>1 DEF ConsentInv, AcceptedInv
  <2> QED
    BY <1>1, <2>1, <2>2, Asking
<1>3. consent.request \in 1..MaxConsents /\ umFeature \in 1..Len(features)
  BY <1>1, TypeParts, SMTT(60) DEF ClientTypes, RouterInv
<1>4. /\ DOMAIN features' = DOMAIN features
      /\ \A i \in DOMAIN features : \/ correlation(i)' = correlation(i)
                                    \/ i = umFeature /\ correlation(i)' = consent.request
  <2>1. /\ withCorrelationID(umFeature, consent.request) \in Seq(Feature)
        /\ Len(withCorrelationID(umFeature, consent.request)) = Len(features)
        /\ \A i \in 1..Len(features) : withCorrelationID(umFeature, consent.request)[i].consentCorrelationID
                                          = IF i = umFeature THEN consent.request ELSE correlation(i)
    BY <1>3, FeatureAssigned, ZenonT(60)
  <2> QED
    BY <1>1, <2>1, SMTT(60) DEF correlation
<1>5. \A m \in answers' : m \in answers \/ (m.id = consent.request /\ m.activity = consent.activity)
  BY <1>1 DEF answers, request
<1>6. accepted[consent.request] = 0 /\ ~answered /\ ~answered'
  BY <1>1, <1>2, <1>3 DEF ConsentInv, AcceptedInv, answered
<1>7. AcceptedInv'
  BY <1>1, <1>2 DEF ConsentInv, AcceptedInv
<1>8. CorrelationInv'
  <2>1. \A i \in DOMAIN features : correlation(i) # 0 => correlation(i) < consent.request
    BY <1>1 DEF ConsentInv, CorrelationInv
  <2> QED
    BY <1>1, <1>2, <1>3, <1>4, <1>6, <2>1, SMTT(60) DEF ConsentInv, CorrelationInv
<1>9. AnswersInv'
  BY <1>1, <1>2, <1>3, <1>5, <1>6 DEF ConsentInv, AnswersInv
<1>10. ForwardedInv'
  BY <1>1, <1>2, <1>6 DEF ConsentInv, ForwardedInv
<1>11. ChannelInv'
  BY <1>1, <1>2 DEF ConsentInv, ChannelInv
<1> QED
  BY <1>7, <1>8, <1>9, <1>10, <1>11 DEF ConsentInv

\* the wait ends with the answer, which is that to the last request, or without one
LEMMA WaitingStep ==
    ASSUME TypeInv, ConsentInv, OwnerConsented \/ ConsentTimeout
    PROVE  ConsentInv'
<1> USE ConsentFacts
<1>1. UNCHANGED <<accepted, forwarded, features, inbox, handling>>
  BY Zenon DEF OwnerConsented, ConsentTimeout, askUnchanged
<1>2. /\ consent.pc = "waiting" /\ consent.granted = FALSE
      /\ consent'.pc = "stopping" /\ consent'.granted \in BOOLEAN
      /\ consent'.activity = consent.activity /\ consent'.request = consent.request
      /\ \/ ownerConsented # 0 /\ ownerConsented' = 0
         \/ UNCHANGED ownerConsented /\ consent'.granted = FALSE
  <2>1. consent \in Consent
    BY TypeParts DEF ConsentTypes
  <2>2. consent.pc = "waiting" /\ consent.granted = FALSE
    BY DEF ConsentInv, AcceptedInv, OwnerConsented, ConsentTimeout
  <2>3. CASE OwnerConsented
    <3>1. PICK granted \in BOOLEAN :
            consent' = [pc |-> "stopping", activity |-> consent.activity, request |-> consent.request, granted |-> granted]
      BY <2>3 DEF OwnerConsented
    <3> QED
      BY <2>2, <2>3, <3>1 DEF OwnerConsented
  <2>4. CASE ConsentTimeout
    BY <2>1, <2>2, <2>4, Asking DEF ConsentTimeout
  <2> QED
    BY <2>3, <2>4
<1>3. answers' = answers
  BY <1>1 DEF answers
<1>4. /\ ~answered
      /\ answered' => ownerConsented = consent.request /\ ownerConsented' = 0 /\ accepted[consent.request] = 1
  BY <1>2 DEF ConsentInv, ChannelInv, answered
<1>5. AcceptedInv'
  BY <1>1, <1>2 DEF ConsentInv, AcceptedInv
<1>6. CorrelationInv'
  BY <1>1, <1>2 DEF ConsentInv, CorrelationInv, correlation
<1>7. AnswersInv'
  BY <1>1, <1>2, <1>3, <1>4 DEF ConsentInv, AnswersInv
<1>8. ForwardedInv'
  BY <1>1, <1>2, <1>4 DEF ConsentInv, ForwardedInv
<1>9. ChannelInv'
  BY <1>1, <1>2, <1>4 DEF ConsentInv, ChannelInv
<1> QED
  BY <1>5, <1>6, <1>7, <1>8, <1>9 DEF ConsentInv

LEMMA ResetConsentHandlerStep ==
    ASSUME TypeInv, ConsentInv, ResetConsentHandler
    PROVE  ConsentInv'
<1> USE ConsentFacts
<1>1. UNCHANGED <<accepted, forwarded, ownerConsented, inbox, handling>>
  BY Zenon DEF ResetConsentHandler, askUnchanged
<1>2. /\ consent.pc = "stopping"
      /\ consent'.pc = IF consent.granted THEN "ready" ELSE "ending"
      /\ consent'.granted = FALSE
      /\ consent'.activity = consent.activity /\ consent'.request = consent.request
  BY DEF ResetConsentHandler
<1>3. /\ DOMAIN features' = DOMAIN features
      /\ \A i \in DOMAIN features : correlation(i)' = correlation(i)
  <2>1. features' = withConsentHandler(umFeature, FALSE) /\ umFeature \in 1..Len(features)
    BY <1>2, TypeParts DEF ResetConsentHandler, ClientTypes, RouterInv
  <2>2. /\ withConsentHandler(umFeature, FALSE) \in Seq(Feature)
        /\ DOMAIN withConsentHandler(umFeature, FALSE) = DOMAIN features
        /\ \A i \in 1..Len(features) : withConsentHandler(umFeature, FALSE)[i].consentCorrelationID = correlation(i)
    BY <2>1, FeatureAssigned
  <2>3. features \in Seq(Feature) /\ DOMAIN features = 1..Len(features)
    OBVIOUS
  <2>4. DOMAIN features' = DOMAIN features
    BY <2>1, <2>2, Zenon
  <2>5. \A i \in 1..Len(features) : features'[i].consentCorrelationID = correlation(i)
    BY <2>1, <2>2, Zenon
  <2> QED
    BY <2>3, <2>4, <2>5 DEF correlation
<1>4. answers' = answers
  BY <1>1 DEF answers
<1>5. answered' = answered
  BY <1>2 DEF answered
<1>6. AcceptedInv'
  BY <1>1, <1>2 DEF ConsentInv, AcceptedInv
<1>7. CorrelationInv'
  BY <1>1, <1>2, <1>3 DEF ConsentInv, CorrelationInv
<1>8. AnswersInv'
  BY <1>1, <1>2, <1>4, <1>5 DEF ConsentInv, AnswersInv
<1>9. ForwardedInv'
  BY <1>1, <1>2, <1>5 DEF ConsentInv, ForwardedInv
<1>10. ChannelInv'
  BY <1>1, <1>2, <1>5 DEF ConsentInv, ChannelInv
<1> QED
  BY <1>6, <1>7, <1>8, <1>9, <1>10 DEF ConsentInv

-----------------------------------------------------------------------------
LEMMA ConsentStep ==
    ASSUME TypeInv, ConsentInv, [NextThings]_thingsVars
    PROVE  ConsentInv'
<1>1. CASE \/ OnConnect \/ (\E t \in Things : ConfigurationChanges(t)) \/ (\E t \in Things : CallOperation(t))
           \/ HandleEdgeResponse \/ DeactivateFeature \/ DisconnectDitto \/ NewDittoClient
           \/ NewUpdateManagerFeature \/ ConnectDitto \/ EdgeConfigApplied
           \/ (\E h \in connectHandlers : ReadFeature(h))
           \/ (\E h \in connectHandlers : Activate(h))
           \/ (\E m \in inbox : Deliver(m))
           \/ (\E h \in handling : SkipMessage(h))
           \/ (\E h \in handling : ProcessOperation(h))
           \/ Deactivate \/ Disconnect
           \/ UNCHANGED thingsVars
  <2>1. quiet
    BY <1>1, QuietActions, Zenon
  <2> QED
    BY <2>1, QuietSteps
<1>2. ASSUME NEW h \in handling, ProcessConsent(h)
      PROVE  ConsentInv'
  BY <1>2, ProcessConsentStep
<1>3. ASSUME NEW a \in forwarded, HandleOwnerConsentFeedback(a)
      PROVE  ConsentInv'
  BY <1>3, HandleOwnerConsentFeedbackStep
<1>4. CASE BeginActivity \/ EndActivity
  BY <1>4, ActivitySteps
<1>5. CASE SetConsentHandler
  BY <1>5, SetConsentHandlerStep
<1>6. CASE SendConsent
  BY <1>6, SendConsentStep
<1>7. CASE OwnerConsented \/ ConsentTimeout
  BY <1>7, WaitingStep
<1>8. CASE ResetConsentHandler
  BY <1>8, ResetConsentHandlerStep
<1> QED
  BY <1>1, <1>2, <1>3, <1>4, <1>5, <1>6, <1>7, <1>8, Steps

LEMMA InitConsent == InitThings => ConsentInv
<1> SUFFICES ASSUME InitThings PROVE ConsentInv
  OBVIOUS
<1> USE DEF InitThings
<1>1. AcceptedInv
  BY ThingsAssumption DEF AcceptedInv
<1>2. CorrelationInv
  BY DEF CorrelationInv
<1>3. AnswersInv
  BY DEF AnswersInv, answers
<1>4. ForwardedInv
  BY DEF ForwardedInv
<1>5. ChannelInv
  BY DEF ChannelInv
<1> QED
  BY <1>1, <1>2, <1>3, <1>4, <1>5 DEF ConsentInv

\* An answer is accepted only while its correlation id is remembered, and an accepted one
\* is on its way only while its request is the last one: both for any number of requests.
THEOREM ConsentInvariant == SpecThings => [](TypeInv /\ ConsentInv)
<1>1. TypeInv /\ ConsentInv /\ [NextThings]_thingsVars => (TypeInv /\ ConsentInv)'
  BY TypesKept, ConsentStep
<1> QED
  BY <1>1, InitTypes, InitConsent, PTL DEF SpecThings

\* The correlation id (processConsent) makes copies of an answer harmless, however many
\* features, requests and late messages there are: one answer per request is accepted.
THEOREM OneAnswerPerRequestHolds == SpecThings => []OneAnswerPerRequest
<1>1. TypeInv /\ ConsentInv => OneAnswerPerRequest
  <2> SUFFICES ASSUME TypeInv, ConsentInv, NEW r \in DOMAIN accepted
               PROVE  accepted[r] <= 1
    BY DEF OneAnswerPerRequest
  <2>1. r \in 1..MaxConsents
    BY ConsentFacts
  <2> QED
    BY <2>1 DEF ConsentInv, AcceptedInv
<1> QED
  BY <1>1, ConsentInvariant, PTL

\* What getOwnerConsent reads from ownerConsented is the answer to the request it sent:
\* an answer that is late, doubled, or to a former activity is never mistaken for it
\* (processConsent and HandleOwnerConsentFeedback, each on goroutines of their own).
THEOREM AnswerOfRequestHolds == SpecThings => []AnswerOfRequest
<1>1. ConsentInv => AnswerOfRequest
  BY DEF ConsentInv, ChannelInv, AnswerOfRequest
<1> QED
  BY <1>1, ConsentInvariant, PTL

-----------------------------------------------------------------------------
(* Operations *)

active(i) == features[i].active

\* before a configuration counts as applied nothing is active, and the connect handler of
\* the client that is being connected is the only one
AppliedInv ==
    edgeConfig = {} =>
        /\ router \notin {"deactivate", "disconnect"}
        /\ \A h \in connectHandlers :
             /\ router = "applied" /\ ~err /\ h.client = dittoClient
             /\ \A g \in connectHandlers : g = h
             /\ \A i \in DOMAIN features : ~active(i)
        /\ \A i \in DOMAIN features : active(i) => router = "applied" /\ ~err

\* no feature but the current one is active, unless a late connect handler activated it
RevivedInv ==
    ~revived => \A i \in DOMAIN features :
                    active(i) => i = umFeature /\ router \notin {"disconnect", "create", "feature"}

ConfigInv == AppliedInv /\ RevivedInv

\* what assignments to a field of a feature do to its activity
LEMMA ActiveAssigned ==
    ASSUME features \in Seq(Feature), NEW k \in 1..Len(features)
    PROVE  /\ \A i \in 1..Len(features) :
                /\ withActive(k, TRUE)[i].active = IF i = k THEN TRUE ELSE active(i)
                /\ withActive(k, FALSE)[i].active = IF i = k THEN FALSE ELSE active(i)
           /\ \A v \in BOOLEAN : \A i \in 1..Len(features) : withConsentHandler(k, v)[i].active = active(i)
           /\ \A r \in Nat : \A i \in 1..Len(features) : withCorrelationID(k, r)[i].active = active(i)
<1>1. features[k] \in Feature /\ DOMAIN features = 1..Len(features)
  OBVIOUS
<1>2. \A i \in 1..Len(features) : /\ withActive(k, TRUE)[i].active = IF i = k THEN TRUE ELSE active(i)
                                  /\ withActive(k, FALSE)[i].active = IF i = k THEN FALSE ELSE active(i)
  BY <1>1 DEF Feature, withActive, active
<1>3. \A v \in BOOLEAN : \A i \in 1..Len(features) : withConsentHandler(k, v)[i].active = active(i)
  BY <1>1 DEF Feature, withConsentHandler, active
<1>4. \A r \in Nat : \A i \in 1..Len(features) : withCorrelationID(k, r)[i].active = active(i)
  BY <1>1 DEF Feature, withCorrelationID, active
<1> QED
  BY <1>2, <1>3, <1>4

\* steps that neither configure nor activate
configured ==
    /\ UNCHANGED <<edgeConfig, router, err, dittoClient, connectHandlers, umFeature, revived>>
    /\ \A i \in DOMAIN features' : active(i)' => i \in DOMAIN features /\ active(i)

LEMMA ConfiguredSteps ==
    ASSUME ConfigInv, configured
    PROVE  ConfigInv'
<1>1. AppliedInv'
  BY DEF configured, ConfigInv, AppliedInv
<1>2. RevivedInv'
  BY DEF configured, ConfigInv, RevivedInv
<1> QED
  BY <1>1, <1>2 DEF ConfigInv

\* what the configuration steps need of the types
LEMMA ConfigFacts ==
    ASSUME TypeInv
    PROVE  /\ features \in Seq(Feature) /\ umFeature = Len(features) /\ DOMAIN features = 1..Len(features)
           /\ umFeature \in Nat /\ (umFeature # 0 => umFeature \in 1..Len(features))
           /\ router = "deactivate" \/ consent.pc # "none" => umFeature # 0
           /\ consent.request \in Nat
           /\ \A h \in connectHandlers : h.feature \in 0..umFeature
           /\ \A h \in handling : h.feature \in 1..Len(features)
           /\ \A i \in DOMAIN features : active(i) \in BOOLEAN
<1>1. /\ features \in Seq(Feature) /\ umFeature = Len(features)
      /\ router = "deactivate" \/ consent.pc # "none" => umFeature # 0
      /\ \A h \in connectHandlers : h.feature \in 0..umFeature
  BY TypeParts DEF ClientTypes, RouterInv
<1>2. consent.request \in Nat
  BY ConsentFacts
<1>3. \A h \in handling : h.feature \in 1..Len(features)
  BY <1>1, TypeParts DEF MessageTypes
<1>4. \A i \in DOMAIN features : active(i) \in BOOLEAN
  <2>1. \A i \in DOMAIN features : features[i] \in Feature
    BY <1>1
  <2> QED
    BY <2>1 DEF active, Feature
<1> QED
  BY <1>1, <1>2, <1>3, <1>4

LEMMA ConfiguredActions ==
    ASSUME TypeInv,
           \/ OnConnect \/ (\E t \in Things : ConfigurationChanges(t)) \/ (\E t \in Things : CallOperation(t))
           \/ (\E m \in inbox : Deliver(m))
           \/ (\E h \in handling : SkipMessage(h))
           \/ (\E h \in handling : ProcessOperation(h))
           \/ (\E h \in handling : ProcessConsent(h))
           \/ (\E a \in forwarded : HandleOwnerConsentFeedback(a))
           \/ BeginActivity \/ EndActivity
           \/ SetConsentHandler \/ SendConsent \/ OwnerConsented \/ ConsentTimeout \/ ResetConsentHandler
           \/ Deactivate \/ Disconnect
           \/ UNCHANGED thingsVars
    PROVE  configured
<1> USE DEF configVars, environmentUnchanged, handledUnchanged, askUnchanged, stopUnchanged
<1>1. UNCHANGED <<edgeConfig, router, err, dittoClient, connectHandlers, umFeature, revived>>
  BY Zenon
     DEF OnConnect, ConfigurationChanges, CallOperation, Deliver, SkipMessage, ProcessOperation, ProcessConsent,
         HandleOwnerConsentFeedback, BeginActivity, EndActivity, SetConsentHandler, SendConsent, OwnerConsented,
         ConsentTimeout, ResetConsentHandler, Deactivate, Disconnect, thingsVars
<1>2. ASSUME NEW k \in 1..Len(features), NEW v \in BOOLEAN,
             \/ features' = withActive(k, FALSE)
             \/ features' = withConsentHandler(k, v)
             \/ features' = withCorrelationID(k, 0)
             \/ features' = withCorrelationID(k, consent.request)
      PROVE  \A i \in DOMAIN features' : active(i)' => i \in DOMAIN features /\ active(i)
  <2>0. features \in Seq(Feature) /\ DOMAIN features = 1..Len(features) /\ consent.request \in Nat /\ 0 \in Nat
    BY ConfigFacts
  <2>1. CASE features' = withActive(k, FALSE)
    <3>1. DOMAIN withActive(k, FALSE) = DOMAIN features
      BY <2>0, <1>2, FeatureAssigned
    <3>2. \A i \in 1..Len(features) : withActive(k, FALSE)[i].active = IF i = k THEN FALSE ELSE active(i)
      BY <2>0, <1>2, ActiveAssigned, ZenonT(60)
    <3> QED
      BY <2>0, <2>1, <3>1, <3>2, Zenon DEF active
  <2>2. CASE features' = withConsentHandler(k, v)
    <3>1. DOMAIN withConsentHandler(k, v) = DOMAIN features
      BY <2>0, <1>2, FeatureAssigned
    <3>2. \A i \in 1..Len(features) : withConsentHandler(k, v)[i].active = active(i)
      BY <2>0, <1>2, ActiveAssigned, ZenonT(60)
    <3> QED
      BY <2>0, <2>2, <3>1, <3>2, Zenon DEF active
  <2>3. ASSUME NEW r \in Nat, features' = withCorrelationID(k, r)
        PROVE  \A i \in DOMAIN features' : active(i)' => i \in DOMAIN features /\ active(i)
    <3>1. DOMAIN withCorrelationID(k, r) = DOMAIN features
      BY <2>0, <1>2, FeatureAssigned
    <3>2. \A i \in 1..Len(features) : withCorrelationID(k, r)[i].active = active(i)
      BY <2>0, <1>2, ActiveAssigned, ZenonT(60)
    <3> QED
      BY <2>0, <2>3, <3>1, <3>2, Zenon DEF active
  <2> QED
    BY <1>2, <2>0, <2>1, <2>2, <2>3, Zenon
<1>3. ASSUME UNCHANGED features
      PROVE  \A i \in DOMAIN features' : active(i)' => i \in DOMAIN features /\ active(i)
  BY <1>3 DEF active
<1>4. \/ UNCHANGED features
      \/ umFeature # 0 /\ features' = withActive(umFeature, FALSE)
      \/ \E h \in handling : features' = withCorrelationID(h.feature, 0)
      \/ consent.pc # "none" /\ features' = withConsentHandler(umFeature, TRUE)
      \/ consent.pc # "none" /\ features' = withConsentHandler(umFeature, FALSE)
      \/ consent.pc # "none" /\ features' = withCorrelationID(umFeature, consent.request)
  <2>1. CASE SetConsentHandler \/ SendConsent \/ ResetConsentHandler
    BY <2>1 DEF SetConsentHandler, SendConsent, ResetConsentHandler
  <2>2. CASE (\E h \in handling : ProcessConsent(h)) \/ Deactivate
    BY <2>2, Zenon DEF ProcessConsent, Deactivate
  <2>3. CASE \/ OnConnect \/ (\E t \in Things : ConfigurationChanges(t)) \/ (\E t \in Things : CallOperation(t))
             \/ (\E m \in inbox : Deliver(m))
             \/ (\E h \in handling : SkipMessage(h))
             \/ (\E h \in handling : ProcessOperation(h))
             \/ (\E a \in forwarded : HandleOwnerConsentFeedback(a))
             \/ BeginActivity \/ EndActivity \/ OwnerConsented \/ ConsentTimeout \/ Disconnect
             \/ UNCHANGED thingsVars
    BY <2>3, Zenon
       DEF OnConnect, ConfigurationChanges, CallOperation, Deliver, SkipMessage, ProcessOperation,
           HandleOwnerConsentFeedback, BeginActivity, EndActivity, OwnerConsented, ConsentTimeout, Disconnect,
           thingsVars
  <2> QED
    BY <2>1, <2>2, <2>3, Zenon
<1>5. \A i \in DOMAIN features' : active(i)' => i \in DOMAIN features /\ active(i)
  <2>1. TRUE \in BOOLEAN /\ FALSE \in BOOLEAN
    OBVIOUS
  <2>2. /\ umFeature # 0 => umFeature \in 1..Len(features)
        /\ consent.pc # "none" => umFeature \in 1..Len(features)
        /\ \A h \in handling : h.feature \in 1..Len(features)
    BY ConfigFacts
  <2> QED
    BY <1>2, <1>3, <1>4, <2>1, <2>2, Zenon
<1> QED
  BY <1>1, <1>5 DEF configured

LEMMA ConfigStep ==
    ASSUME TypeInv, ConfigInv, [NextThings]_thingsVars
    PROVE  ConfigInv'
<1>0. /\ features \in Seq(Feature) /\ umFeature = Len(features) /\ DOMAIN features = 1..Len(features)
      /\ umFeature \in Nat /\ (umFeature # 0 => umFeature \in 1..Len(features))
      /\ router = "deactivate" => umFeature # 0
      /\ \A h \in connectHandlers : h.feature \in 0..umFeature
  BY ConfigFacts
<1> USE DEF configVars, routerUnchanged, handlerUnchanged
<1>1. CASE \/ OnConnect \/ (\E t \in Things : ConfigurationChanges(t)) \/ (\E t \in Things : CallOperation(t))
           \/ (\E m \in inbox : Deliver(m))
           \/ (\E h \in handling : SkipMessage(h))
           \/ (\E h \in handling : ProcessOperation(h))
           \/ (\E h \in handling : ProcessConsent(h))
           \/ (\E a \in forwarded : HandleOwnerConsentFeedback(a))
           \/ BeginActivity \/ EndActivity
           \/ SetConsentHandler \/ SendConsent \/ OwnerConsented \/ ConsentTimeout \/ ResetConsentHandler
           \/ Deactivate \/ Disconnect
           \/ UNCHANGED thingsVars
  <2>1. configured
    BY <1>1, ConfiguredActions, Zenon
  <2> QED
    BY <2>1, ConfiguredSteps
\* the router: features are made and deactivated while no other is active
<1>2. ASSUME UNCHANGED features
      PROVE  DOMAIN features' = DOMAIN features /\ \A i \in DOMAIN features : active(i)' = active(i)
  BY <1>2 DEF active
<1>3. CASE HandleEdgeResponse
  <2>1. UNCHANGED <<edgeConfig, err, dittoClient, connectHandlers, umFeature, revived, features>> /\ router = "idle"
    BY <1>3, Zenon DEF HandleEdgeResponse
  <2>2. router' = "idle" \/ (router' = "create" /\ edgeConfig = {}) \/ (router' = "deactivate" /\ edgeConfig # {})
    BY <1>3, Zenon DEF HandleEdgeResponse
  <2> QED
    BY <1>2, <2>1, <2>2 DEF ConfigInv, AppliedInv, RevivedInv
<1>4. CASE DeactivateFeature
  <2>1. /\ UNCHANGED <<edgeConfig, err, dittoClient, connectHandlers, umFeature, revived>>
        /\ router = "deactivate" /\ router' = "disconnect" /\ features' = withActive(umFeature, FALSE)
    BY <1>4, Zenon DEF DeactivateFeature
  <2>2. umFeature \in 1..Len(features)
    BY <1>0, <2>1
  <2>3. DOMAIN withActive(umFeature, FALSE) = DOMAIN features
    BY <1>0, <2>2, FeatureAssigned
  <2>4. \A i \in 1..Len(features) : withActive(umFeature, FALSE)[i].active = IF i = umFeature THEN FALSE ELSE active(i)
    BY <1>0, <2>2, ActiveAssigned, ZenonT(60)
  <2>5. DOMAIN features' = DOMAIN features /\ \A i \in DOMAIN features : active(i)' => active(i) /\ i # umFeature
    BY <1>0, <2>1, <2>3, <2>4, Zenon DEF active
  <2> QED
    BY <2>1, <2>5 DEF ConfigInv, AppliedInv, RevivedInv
<1>5. CASE DisconnectDitto
  <2>1. /\ UNCHANGED <<edgeConfig, err, dittoClient, connectHandlers, umFeature, revived, features>>
        /\ router = "disconnect" /\ router' = "create"
    BY <1>5, Zenon DEF DisconnectDitto
  <2> QED
    BY <1>2, <2>1 DEF ConfigInv, AppliedInv, RevivedInv
<1>6. CASE NewDittoClient
  <2>1. /\ UNCHANGED <<edgeConfig, err, connectHandlers, umFeature, revived, features>>
        /\ router = "create" /\ router' \in {"feature", "idle"}
    BY <1>6 DEF NewDittoClient
  <2> QED
    BY <1>2, <2>1 DEF ConfigInv, AppliedInv, RevivedInv
<1>7. CASE NewUpdateManagerFeature
  <2> DEFINE f == [thing |-> localCfg, active |-> FALSE, consentHandler |-> FALSE, consentCorrelationID |-> 0]
  <2>1. /\ UNCHANGED <<edgeConfig, err, dittoClient, connectHandlers, revived>>
        /\ router = "feature" /\ router' = "connect" /\ features' = Append(features, f)
    BY <1>7 DEF NewUpdateManagerFeature
  <2>2. ~f.active
    OBVIOUS
  <2> HIDE DEF f
  <2>3. \A i \in DOMAIN features' : \/ i \in DOMAIN features /\ features'[i] = features[i]
                                    \/ features'[i] = f
    BY <1>0, <2>1
  <2>4. \A i \in DOMAIN features' : active(i)' => i \in DOMAIN features /\ active(i)
    BY <2>2, <2>3 DEF active
  <2> QED
    BY <2>1, <2>4 DEF ConfigInv, AppliedInv, RevivedInv
<1>8. CASE ConnectDitto
  <2>1. /\ UNCHANGED <<edgeConfig, dittoClient, umFeature, revived, features>>
        /\ router = "connect" /\ router' = "applied"
        /\ \/ connectHandlers' = connectHandlers \cup {[client |-> dittoClient, feature |-> 0]} /\ err' = FALSE
           \/ UNCHANGED connectHandlers
    BY <1>8, Zenon DEF ConnectDitto
  <2>2. edgeConfig = {} => connectHandlers = {} /\ \A i \in DOMAIN features : ~active(i)
    BY <2>1 DEF ConfigInv, AppliedInv
  <2>3. AppliedInv'
    BY <1>2, <2>1, <2>2 DEF AppliedInv
  <2> QED
    BY <1>2, <2>1, <2>3 DEF ConfigInv, RevivedInv
<1>9. CASE EdgeConfigApplied
  <2>1. /\ UNCHANGED <<dittoClient, connectHandlers, umFeature, revived, features>>
        /\ router = "applied" /\ router' = "idle"
        /\ edgeConfig' = IF err THEN edgeConfig ELSE {localCfg}
    BY <1>9, Zenon DEF EdgeConfigApplied
  <2>2. edgeConfig' = {} => err /\ edgeConfig = {}
    BY <2>1
  <2>3. AppliedInv'
    BY <1>2, <2>1, <2>2 DEF ConfigInv, AppliedInv
  <2> QED
    BY <1>2, <2>1, <2>3 DEF ConfigInv, RevivedInv
\* the connect handlers
<1>10. ASSUME NEW h \in connectHandlers, ReadFeature(h)
       PROVE  ConfigInv'
  <2> DEFINE g == [client |-> h.client, feature |-> umFeature]
  <2>1. /\ UNCHANGED <<edgeConfig, router, err, dittoClient, umFeature, revived, features>>
        /\ connectHandlers' = (connectHandlers \ {h}) \cup {g}
    BY <1>10, Zenon DEF ReadFeature
  <2>2. g.client = h.client
    OBVIOUS
  <2> HIDE DEF g
  <2>3. AppliedInv'
    BY <1>2, <1>10, <2>1, <2>2 DEF ConfigInv, AppliedInv
  <2> QED
    BY <1>2, <2>1, <2>3 DEF ConfigInv, RevivedInv
<1>11. ASSUME NEW h \in connectHandlers, Activate(h)
       PROVE  ConfigInv'
  <2>1. /\ UNCHANGED <<edgeConfig, router, dittoClient, umFeature>>
        /\ h.feature # 0 /\ connectHandlers' = connectHandlers \ {h}
        /\ revived' = (revived \/ h.feature < umFeature \/ router \in {"disconnect", "create", "feature"})
        /\ \/ features' = withActive(h.feature, TRUE) /\ err' = IF sharesErr(h) THEN FALSE ELSE err
           \/ UNCHANGED features
    BY <1>11 DEF Activate
  <2>2. h.feature \in 1..Len(features)
    BY <1>0, <2>1
  <2>3. DOMAIN features' = DOMAIN features /\ \A i \in DOMAIN features : active(i)' => active(i) \/ i = h.feature
    <3>1. CASE UNCHANGED features
      BY <1>2, <3>1
    <3>2. CASE features' = withActive(h.feature, TRUE)
      <4>1. DOMAIN withActive(h.feature, TRUE) = DOMAIN features
        BY <1>0, <2>2, FeatureAssigned
      <4>2. \A i \in 1..Len(features) : withActive(h.feature, TRUE)[i].active = IF i = h.feature THEN TRUE ELSE active(i)
        BY <1>0, <2>2, ActiveAssigned, ZenonT(60)
      <4> QED
        BY <1>0, <3>2, <4>1, <4>2, Zenon DEF active
    <3> QED
      BY <2>1, <3>1, <3>2
  <2>4. edgeConfig = {} => /\ connectHandlers' = {}
                           /\ router = "applied" /\ ~err /\ h.client = dittoClient
                           /\ \A i \in DOMAIN features : ~active(i)
    BY <1>11, <2>1 DEF ConfigInv, AppliedInv
  <2>5. AppliedInv'
    <3> SUFFICES ASSUME edgeConfig' = {} PROVE AppliedInv'
      BY DEF AppliedInv
    <3>1. CASE UNCHANGED features
      BY <1>2, <2>1, <2>4, <3>1 DEF AppliedInv
    <3>2. CASE err' = IF sharesErr(h) THEN FALSE ELSE err
      BY <2>1, <2>4, <3>2 DEF AppliedInv
    <3> QED
      BY <2>1, <3>1, <3>2
  <2>6. RevivedInv'
    <3> SUFFICES ASSUME ~revived', NEW i \in DOMAIN features', active(i)'
                 PROVE  i = umFeature' /\ router' \notin {"disconnect", "create", "feature"}
      BY DEF RevivedInv
    <3>1. ~revived /\ ~(h.feature < umFeature) /\ router \notin {"disconnect", "create", "feature"}
      BY <2>1, Zenon
    <3>2. h.feature = umFeature
      BY <1>0, <2>2, <3>1
    <3> QED
      BY <2>1, <2>3, <3>1, <3>2 DEF ConfigInv, RevivedInv
  <2> QED
    BY <2>5, <2>6 DEF ConfigInv
<1> QED
  BY <1>1, <1>3, <1>4, <1>5, <1>6, <1>7, <1>8, <1>9, <1>10, <1>11, Steps

LEMMA InitConfig == InitThings => ConfigInv
  BY DEF InitThings, ConfigInv, AppliedInv, RevivedInv

\* An operation that was called on a thing the edge has given up is never handed to the
\* update agent, in whichever order router, connect handlers and messagesHandler run, and
\* however many configurations there were: given up features are inactive (Deactivate),
\* but for those a late connect handler activates again.
THEOREM OperationsOfTheThingHolds == SpecThings => OperationsOfTheThing
<1>1. TypeInv /\ ConfigInv /\ [NextThings]_thingsVars => (TypeInv /\ ConfigInv)'
  BY TypesKept, ConfigStep
<1>2. SpecThings => [](TypeInv /\ ConfigInv)
  BY <1>1, InitTypes, InitConfig, PTL DEF SpecThings
<1>3. ASSUME TypeInv, ConfigInv, [NextThings]_thingsVars
      PROVE  [~revived' => \A m \in taken' \ taken : m.thing = current.thing]_thingsVars
  <2> SUFFICES ASSUME ~revived', NEW m \in taken' \ taken
               PROVE  m.thing = current.thing
    OBVIOUS
  <2>1. PICK h \in handling : ProcessOperation(h)
    <3> USE DEF messageVars, routerUnchanged, handlerUnchanged, environmentUnchanged, handledUnchanged,
                askUnchanged, stopUnchanged
    <3>1. CASE \/ OnConnect \/ (\E t \in Things : ConfigurationChanges(t)) \/ (\E t \in Things : CallOperation(t))
               \/ HandleEdgeResponse \/ DeactivateFeature \/ DisconnectDitto \/ NewDittoClient
               \/ NewUpdateManagerFeature \/ ConnectDitto \/ EdgeConfigApplied
               \/ (\E h \in connectHandlers : ReadFeature(h))
               \/ (\E h \in connectHandlers : Activate(h))
      <4>1. UNCHANGED taken
        BY <3>1, Zenon
           DEF OnConnect, ConfigurationChanges, CallOperation, HandleEdgeResponse, DeactivateFeature,
               DisconnectDitto, NewDittoClient, NewUpdateManagerFeature, ConnectDitto, EdgeConfigApplied,
               ReadFeature, Activate
      <4> QED
        BY <4>1
    <3>2. CASE \/ (\E m2 \in inbox : Deliver(m2))
               \/ (\E h \in handling : SkipMessage(h))
               \/ (\E h \in handling : ProcessConsent(h))
               \/ (\E a \in forwarded : HandleOwnerConsentFeedback(a))
               \/ BeginActivity \/ EndActivity
               \/ SetConsentHandler \/ SendConsent \/ OwnerConsented \/ ConsentTimeout \/ ResetConsentHandler
               \/ Deactivate \/ Disconnect
               \/ UNCHANGED thingsVars
      <4>1. UNCHANGED taken
        BY <3>2, Zenon
           DEF Deliver, SkipMessage, ProcessConsent, HandleOwnerConsentFeedback, BeginActivity, EndActivity,
               SetConsentHandler, SendConsent, OwnerConsented, ConsentTimeout, ResetConsentHandler,
               Deactivate, Disconnect, thingsVars
      <4> QED
        BY <4>1
    <3> QED
      BY <1>3, <3>1, <3>2, Steps, Zenon
  <2>2. m = h.message /\ isFor(h) /\ UNCHANGED revived
    BY <2>1 DEF ProcessOperation, handledUnchanged
  <2>3. h.feature \in DOMAIN features
    BY <1>3, <2>1, ConfigFacts
  <2>4. h.feature = umFeature
    BY <1>3, <2>2, <2>3 DEF isFor, active, ConfigInv, RevivedInv
  <2> QED
    BY <2>2, <2>4 DEF isFor, current
<1> QED
  BY <1>2, <1>3, PTL DEF SpecThings, OperationsOfTheThing

-----------------------------------------------------------------------------
(* Being heard *)

\* nothing is active, and nothing will be before the next connection
idleFeatures == connectHandlers = {} /\ \A i \in DOMAIN features : ~active(i)

\* commands are routed to the current feature, unless no feature takes any
RouteInv ==
    /\ route \in {0, umFeature} \/ idleFeatures
    /\ router \in {"create", "feature"} => route = 0 \/ idleFeatures

\* the feature that the consent handler is set on is current, and is to hear the answer
expected == consent.pc = "waiting" /\ via = umFeature

\* the feature has the consent handler, it remembers the request as long as that is
\* unanswered, and every goroutine with an answer to it belongs to this feature
HeardInv ==
    /\ ~rejected
    /\ consent.pc \in {"started", "waiting"} /\ via = umFeature => current.consentHandler
    /\ consent.pc = "started" => \A m \in answers : m.id # consent.request
    /\ expected => \A m \in answers : m.id = consent.request /\ accepted[m.id] = 0 => correlation(umFeature) = m.id
    /\ expected => \A h \in handling :
                     h.message.kind = "consent" /\ h.message.id = consent.request => h.feature = umFeature

LEMMA RouteStep ==
    ASSUME TypeInv, ConfigInv, RouteInv, [NextThings]_thingsVars
    PROVE  RouteInv'
<1>0. /\ features \in Seq(Feature) /\ umFeature = Len(features) /\ DOMAIN features = 1..Len(features)
      /\ router = "deactivate" => umFeature \in 1..Len(features)
  BY ConfigFacts
<1> USE DEF edgeVars, configVars, routerUnchanged, handlerUnchanged
\* steps after which no feature is active that was not, and commands are routed as before or not at all
<1>1. ASSUME UNCHANGED <<connectHandlers, umFeature>>, route' = route \/ route' = 0,
             router' \in {"create", "feature"} => router \in {"create", "feature"} \/ route' = 0,
             \A i \in DOMAIN features' : active(i)' => i \in DOMAIN features /\ active(i)
      PROVE  RouteInv'
  BY <1>1 DEF RouteInv, idleFeatures
<1>2. ASSUME UNCHANGED features
      PROVE  \A i \in DOMAIN features' : active(i)' => i \in DOMAIN features /\ active(i)
  BY <1>2 DEF active
<1>3. CASE \/ OnConnect \/ (\E t \in Things : ConfigurationChanges(t)) \/ (\E t \in Things : CallOperation(t))
           \/ (\E m \in inbox : Deliver(m))
           \/ (\E h \in handling : SkipMessage(h))
           \/ (\E h \in handling : ProcessOperation(h))
           \/ (\E h \in handling : ProcessConsent(h))
           \/ (\E a \in forwarded : HandleOwnerConsentFeedback(a))
           \/ BeginActivity \/ EndActivity
           \/ SetConsentHandler \/ SendConsent \/ OwnerConsented \/ ConsentTimeout \/ ResetConsentHandler
           \/ Deactivate \/ Disconnect
           \/ UNCHANGED thingsVars
  <2>1. configured
    BY <1>3, ConfiguredActions, Zenon
  <2>2. route' = route \/ route' = 0
    BY <1>3, Zenon
       DEF OnConnect, ConfigurationChanges, CallOperation, Deliver, SkipMessage, ProcessOperation, ProcessConsent,
           HandleOwnerConsentFeedback, BeginActivity, EndActivity, SetConsentHandler, SendConsent, OwnerConsented,
           ConsentTimeout, ResetConsentHandler, Deactivate, Disconnect, thingsVars,
           environmentUnchanged, handledUnchanged, askUnchanged, stopUnchanged
  <2> QED
    BY <1>1, <2>1, <2>2 DEF configured
<1>4. CASE HandleEdgeResponse
  <2>1. UNCHANGED <<route, connectHandlers, umFeature, features>> /\ router = "idle"
    BY <1>4, Zenon DEF HandleEdgeResponse
  <2>2. router' = "idle" \/ (router' = "create" /\ edgeConfig = {}) \/ router' = "deactivate"
    BY <1>4, Zenon DEF HandleEdgeResponse
  <2>3. edgeConfig = {} => idleFeatures
    BY <2>1 DEF ConfigInv, AppliedInv, idleFeatures
  <2>4. idleFeatures => idleFeatures'
    BY <1>2, <2>1 DEF idleFeatures
  <2> QED
    BY <2>1, <2>2, <2>3, <2>4 DEF RouteInv
<1>5. CASE DeactivateFeature
  <2>1. UNCHANGED <<route, connectHandlers, umFeature>> /\ router = "deactivate" /\ router' = "disconnect"
        /\ features' = withActive(umFeature, FALSE)
    BY <1>5, Zenon DEF DeactivateFeature
  <2>2. umFeature \in 1..Len(features) /\ FALSE \in BOOLEAN
    BY <1>0, <2>1
  <2>3. DOMAIN withActive(umFeature, FALSE) = DOMAIN features
    BY <1>0, <2>2, FeatureAssigned
  <2>4. \A i \in 1..Len(features) : withActive(umFeature, FALSE)[i].active = IF i = umFeature THEN FALSE ELSE active(i)
    BY <1>0, <2>2, ActiveAssigned, ZenonT(60)
  <2>5. \A i \in DOMAIN features' : active(i)' => i \in DOMAIN features /\ active(i)
    BY <1>0, <2>1, <2>3, <2>4, Zenon DEF active
  <2> QED
    BY <1>1, <2>1, <2>5
<1>6. CASE DisconnectDitto \/ NewDittoClient \/ EdgeConfigApplied
  <2>1. UNCHANGED <<connectHandlers, umFeature, features>> /\ (route' = route \/ route' = 0)
    BY <1>6, Zenon DEF DisconnectDitto, NewDittoClient, EdgeConfigApplied
  <2>2. router' \in {"create", "feature"} => router \in {"create", "feature"} \/ route' = 0
    BY <1>6 DEF DisconnectDitto, NewDittoClient, EdgeConfigApplied
  <2> QED
    BY <1>1, <1>2, <2>1, <2>2
<1>7. CASE NewUpdateManagerFeature
  <2> DEFINE f == [thing |-> localCfg, active |-> FALSE, consentHandler |-> FALSE, consentCorrelationID |-> 0]
  <2>1. /\ UNCHANGED <<route, connectHandlers>>
        /\ router = "feature" /\ router' = "connect" /\ features' = Append(features, f)
    BY <1>7 DEF NewUpdateManagerFeature
  <2>2. ~f.active
    OBVIOUS
  <2> HIDE DEF f
  <2>3. \A i \in DOMAIN features' : \/ i \in DOMAIN features /\ features'[i] = features[i]
                                    \/ features'[i] = f
    BY <1>0, <2>1
  <2>4. \A i \in DOMAIN features' : active(i)' => i \in DOMAIN features /\ active(i)
    BY <2>2, <2>3 DEF active
  <2>5. idleFeatures => idleFeatures'
    BY <2>1, <2>4 DEF idleFeatures
  <2> QED
    BY <2>1, <2>5 DEF RouteInv
<1>8. CASE ConnectDitto
  <2>1. /\ UNCHANGED <<umFeature, features>> /\ router = "connect" /\ router' = "applied"
        /\ \/ route' = dittoClient
           \/ route' \in {route, dittoClient} /\ UNCHANGED connectHandlers
    BY <1>8, Zenon DEF ConnectDitto
  <2>2. dittoClient = umFeature
    BY <2>1, TypeParts DEF ClientTypes, RouterInv
  <2>3. route' = umFeature \/ (route' = route /\ UNCHANGED connectHandlers)
    BY <2>1, <2>2
  <2>4. UNCHANGED connectHandlers => (idleFeatures => idleFeatures')
    BY <1>2, <2>1 DEF idleFeatures
  <2> QED
    BY <2>1, <2>3, <2>4 DEF RouteInv
\* a connect handler runs only when there is one
<1>9. CASE (\E h \in connectHandlers : ReadFeature(h)) \/ (\E h \in connectHandlers : Activate(h))
  <2>1. UNCHANGED <<route, router, umFeature>> /\ connectHandlers # {}
    BY <1>9, Zenon DEF ReadFeature, Activate
  <2> QED
    BY <2>1 DEF RouteInv, idleFeatures
<1> QED
  BY <1>3, <1>4, <1>5, <1>6, <1>7, <1>8, <1>9, Steps

\* what assignments to a field of a feature do to its consent handler
LEMMA HandlerAssigned ==
    ASSUME features \in Seq(Feature), NEW k \in 1..Len(features)
    PROVE  /\ \A v \in BOOLEAN : \A i \in 1..Len(features) : withActive(k, v)[i].consentHandler = features[i].consentHandler
           /\ \A r \in Nat : \A i \in 1..Len(features) : withCorrelationID(k, r)[i].consentHandler = features[i].consentHandler
           /\ withConsentHandler(k, TRUE)[k].consentHandler
<1>1. features[k] \in Feature /\ DOMAIN features = 1..Len(features)
  OBVIOUS
<1>2. \A v \in BOOLEAN : \A i \in 1..Len(features) : withActive(k, v)[i].consentHandler = features[i].consentHandler
  BY <1>1 DEF Feature, withActive
<1>3. \A r \in Nat : \A i \in 1..Len(features) : withCorrelationID(k, r)[i].consentHandler = features[i].consentHandler
  BY <1>1 DEF Feature, withCorrelationID
<1>4. withConsentHandler(k, TRUE)[k].consentHandler
  BY <1>1 DEF Feature, withConsentHandler
<1> QED
  BY <1>2, <1>3, <1>4

\* steps in which nothing is asked, answered or delivered, and no feature made
deaf ==
    /\ UNCHANGED <<consent, via, rejected, accepted, umFeature>>
    /\ answers' \subseteq answers /\ handling' \subseteq handling
    /\ umFeature # 0 => /\ features'[umFeature].consentHandler = current.consentHandler
                        /\ features'[umFeature].consentCorrelationID = correlation(umFeature)

LEMMA DeafSteps ==
    ASSUME TypeInv, HeardInv, deaf
    PROVE  HeardInv'
<1>1. expected \/ consent.pc \in {"started", "waiting"} => umFeature # 0
  BY ConfigFacts DEF expected
<1>2. (expected <=> expected') /\ UNCHANGED <<rejected, accepted, via, umFeature, consent>>
  BY DEF deaf, expected
<1>3. consent'.pc \in {"started", "waiting"} /\ via' = umFeature' => current'.consentHandler
  BY <1>1, <1>2 DEF deaf, HeardInv, current
<1>4. consent'.pc = "started" => \A m \in answers' : m.id # consent'.request
  BY DEF deaf, HeardInv
<1>5. expected' => \A m \in answers' : m.id = consent'.request /\ accepted'[m.id] = 0 => correlation(umFeature)' = m.id
  BY <1>1, <1>2 DEF deaf, HeardInv, correlation
<1>6. expected' => \A h \in handling' : h.message.kind = "consent" /\ h.message.id = consent'.request => h.feature = umFeature'
  BY <1>2 DEF deaf, HeardInv
<1> QED
  BY <1>2, <1>3, <1>4, <1>5, <1>6 DEF HeardInv

LEMMA DeafActions ==
    ASSUME TypeInv,
           \/ OnConnect \/ (\E t \in Things : ConfigurationChanges(t)) \/ (\E t \in Things : CallOperation(t))
           \/ HandleEdgeResponse \/ DeactivateFeature \/ DisconnectDitto \/ NewDittoClient
           \/ ConnectDitto \/ EdgeConfigApplied
           \/ (\E h \in connectHandlers : ReadFeature(h))
           \/ (\E h \in connectHandlers : Activate(h))
           \/ (\E h \in handling : SkipMessage(h))
           \/ (\E h \in handling : ProcessOperation(h))
           \/ (\E a \in forwarded : HandleOwnerConsentFeedback(a))
           \/ Deactivate \/ Disconnect
           \/ UNCHANGED thingsVars
    PROVE  deaf
<1>0. /\ features \in Seq(Feature) /\ umFeature = Len(features) /\ DOMAIN features = 1..Len(features)
      /\ umFeature # 0 => umFeature \in 1..Len(features)
      /\ router = "deactivate" => umFeature # 0
      /\ \A h \in connectHandlers : h.feature \in 0..Len(features)
  BY ConfigFacts
<1> USE DEF edgeVars, configVars, messageVars, consentVars, routerUnchanged, handlerUnchanged,
            environmentUnchanged, handledUnchanged, askUnchanged, stopUnchanged
<1>1. UNCHANGED <<consent, via, rejected, accepted, umFeature>>
  BY Zenon
     DEF OnConnect, ConfigurationChanges, CallOperation, HandleEdgeResponse, DeactivateFeature, DisconnectDitto,
         NewDittoClient, ConnectDitto, EdgeConfigApplied, ReadFeature, Activate, SkipMessage, ProcessOperation,
         HandleOwnerConsentFeedback, Deactivate, Disconnect, thingsVars
<1>2. answers' \subseteq answers /\ handling' \subseteq handling
  <2>1. (\A m \in inbox' : m \in inbox \/ m.kind = "operation") /\ handling' \subseteq handling
    <3>1. CASE \E t \in Things : CallOperation(t)
      BY <3>1 DEF CallOperation
    <3>2. CASE (\E h \in handling : SkipMessage(h)) \/ (\E h \in handling : ProcessOperation(h))
      <4>1. UNCHANGED inbox
        BY <3>2, Zenon DEF SkipMessage, ProcessOperation
      <4>2. handling' \subseteq handling
        BY <3>2 DEF SkipMessage, ProcessOperation
      <4> QED
        BY <4>1, <4>2
    <3>3. CASE \/ OnConnect \/ (\E t \in Things : ConfigurationChanges(t))
               \/ HandleEdgeResponse \/ DeactivateFeature \/ DisconnectDitto \/ NewDittoClient
               \/ ConnectDitto \/ EdgeConfigApplied
               \/ (\E h \in connectHandlers : ReadFeature(h))
               \/ (\E h \in connectHandlers : Activate(h))
               \/ (\E a \in forwarded : HandleOwnerConsentFeedback(a))
               \/ Deactivate \/ Disconnect
               \/ UNCHANGED thingsVars
      <4>1. UNCHANGED <<inbox, handling>>
        BY <3>3, Zenon
           DEF OnConnect, ConfigurationChanges, HandleEdgeResponse, DeactivateFeature, DisconnectDitto,
               NewDittoClient, ConnectDitto, EdgeConfigApplied, ReadFeature, Activate, HandleOwnerConsentFeedback,
               Deactivate, Disconnect, thingsVars
      <4> QED
        BY <4>1
    <3> QED
      BY <3>1, <3>2, <3>3
  <2> QED
    BY <2>1, SameAnswers
\* features are activated and deactivated with what they have
<1>3. ASSUME UNCHANGED features
      PROVE  umFeature # 0 => /\ features'[umFeature].consentHandler = current.consentHandler
                              /\ features'[umFeature].consentCorrelationID = correlation(umFeature)
  BY <1>3 DEF current, correlation
<1>4. ASSUME NEW k \in 1..Len(features), NEW v \in BOOLEAN, features' = withActive(k, v)
      PROVE  umFeature # 0 => /\ features'[umFeature].consentHandler = current.consentHandler
                              /\ features'[umFeature].consentCorrelationID = correlation(umFeature)
  <2>1. \A i \in 1..Len(features) : withActive(k, v)[i].consentHandler = features[i].consentHandler
    BY <1>0, <1>4, HandlerAssigned, ZenonT(60)
  <2>2. \A i \in 1..Len(features) : withActive(k, v)[i].consentCorrelationID = correlation(i)
    BY <1>0, <1>4, FeatureAssigned, ZenonT(60)
  <2> QED
    BY <1>0, <1>4, <2>1, <2>2, Zenon DEF current
<1>5. \/ UNCHANGED features
      \/ umFeature # 0 /\ features' = withActive(umFeature, FALSE)
      \/ \E h \in connectHandlers : h.feature # 0 /\ features' = withActive(h.feature, TRUE)
  <2>1. CASE DeactivateFeature
    BY <1>0, <2>1, Zenon DEF DeactivateFeature
  <2>2. CASE Deactivate \/ (\E h \in connectHandlers : Activate(h))
    BY <2>2, Zenon DEF Deactivate, Activate
  <2>3. CASE \/ OnConnect \/ (\E t \in Things : ConfigurationChanges(t)) \/ (\E t \in Things : CallOperation(t))
             \/ HandleEdgeResponse \/ DisconnectDitto \/ NewDittoClient
             \/ ConnectDitto \/ EdgeConfigApplied
             \/ (\E h \in connectHandlers : ReadFeature(h))
             \/ (\E h \in handling : SkipMessage(h))
             \/ (\E h \in handling : ProcessOperation(h))
             \/ (\E a \in forwarded : HandleOwnerConsentFeedback(a))
             \/ Disconnect
             \/ UNCHANGED thingsVars
    BY <2>3, Zenon
       DEF OnConnect, ConfigurationChanges, CallOperation, HandleEdgeResponse, DisconnectDitto,
           NewDittoClient, ConnectDitto, EdgeConfigApplied, ReadFeature, SkipMessage, ProcessOperation,
           HandleOwnerConsentFeedback, Disconnect, thingsVars
  <2> QED
    BY <2>1, <2>2, <2>3, Zenon
<1>6. umFeature # 0 => /\ features'[umFeature].consentHandler = current.consentHandler
                       /\ features'[umFeature].consentCorrelationID = correlation(umFeature)
  <2>1. TRUE \in BOOLEAN /\ FALSE \in BOOLEAN
    OBVIOUS
  <2>2. \A h \in connectHandlers : h.feature # 0 => h.feature \in 1..Len(features)
    BY <1>0
  <2> QED
    BY <1>0, <1>3, <1>4, <1>5, <2>1, <2>2, Zenon
<1> QED
  BY <1>1, <1>2, <1>6 DEF deaf

\* the request is sent through the current feature, which remembers it
LEMMA SendConsentHeard ==
    ASSUME TypeInv, ConsentInv, HeardInv, SendConsent
    PROVE  HeardInv'
<1>0. /\ features \in Seq(Feature) /\ umFeature = Len(features) /\ DOMAIN features = 1..Len(features)
      /\ umFeature \in 1..Len(features) /\ consent \in Consent /\ consent.request \in Nat
  BY ConfigFacts, TypeParts DEF SendConsent, ConsentTypes
<1>1. UNCHANGED <<via, rejected, accepted, umFeature, handling>> /\ consent.pc = "started"
  BY Zenon DEF SendConsent, askUnchanged
<1>2. /\ consent' = asking("waiting") \/ consent' = asking("stopping")
      /\ consent'.pc \in {"waiting", "stopping"} /\ consent'.request = consent.request
  <2>1. consent' = asking("waiting") \/ consent' = asking("stopping")
    BY Zenon DEF SendConsent
  <2> QED
    BY <1>0, <2>1, Asking
<1>3. /\ features'[umFeature].consentHandler = current.consentHandler
      /\ features' = features \/ correlation(umFeature)' = consent.request
  <2>1. features' = features \/ features' = withCorrelationID(umFeature, consent.request)
    BY Zenon DEF SendConsent
  <2>2. /\ withCorrelationID(umFeature, consent.request)[umFeature].consentHandler = current.consentHandler
        /\ withCorrelationID(umFeature, consent.request)[umFeature].consentCorrelationID = consent.request
    BY <1>0, HandlerAssigned, FeatureAssigned, ZenonT(60) DEF current
  <2> QED
    BY <1>1, <2>1, <2>2, Zenon DEF current, correlation
<1>4. (features' = features /\ inbox' = inbox) \/ correlation(umFeature)' = consent.request
  <2>1. \/ features' = features /\ inbox' = inbox
        \/ features' = withCorrelationID(umFeature, consent.request)
    BY Zenon DEF SendConsent
  <2>2. withCorrelationID(umFeature, consent.request)[umFeature].consentCorrelationID = consent.request
    BY <1>0, FeatureAssigned
  <2> QED
    BY <1>1, <2>1, <2>2, Zenon DEF correlation
<1>5. \A m \in answers : m.id # consent.request
  BY <1>1 DEF HeardInv
<1>6. consent'.pc \in {"started", "waiting"} /\ via' = umFeature' => current'.consentHandler
  BY <1>1, <1>2, <1>3 DEF HeardInv, current
<1>7. \A m \in answers' : m.id = consent'.request => correlation(umFeature)' = m.id
  <2>1. CASE features' = features /\ inbox' = inbox
    BY <1>1, <1>2, <1>5, <2>1 DEF answers
  <2>2. CASE correlation(umFeature)' = consent.request
    BY <1>2, <2>2
  <2> QED
    BY <1>4, <2>1, <2>2
<1>8. \A h \in handling' : ~(h.message.kind = "consent" /\ h.message.id = consent'.request)
  BY <1>1, <1>2, <1>5 DEF answers
<1>9. ~rejected' /\ consent'.pc # "started"
  BY <1>1, <1>2 DEF HeardInv
<1> QED
  BY <1>6, <1>7, <1>8, <1>9 DEF HeardInv

\* the answer is delivered to the feature it is expected by
LEMMA DeliverHeard ==
    ASSUME TypeInv, RouteInv, HeardInv, NEW m \in inbox, Deliver(m)
    PROVE  HeardInv'
<1>0. umFeature = Len(features) /\ route \in 0..Len(features) /\ DOMAIN features = 1..Len(features)
  BY TypeParts, ConfigFacts DEF ClientTypes
<1>1. UNCHANGED <<consent, via, rejected, accepted, umFeature, features>>
  BY Zenon DEF Deliver, environmentUnchanged, configVars, consentVars
<1>2. route # 0 /\ inbox' \subseteq inbox
  BY DEF Deliver
<1>3. \A h \in handling' : h \in handling \/ (h = [feature |-> route, message |-> m] /\ active(route))
  BY DEF Deliver, active
<1>4. active(route) => route = umFeature
  BY <1>0, <1>2 DEF RouteInv, idleFeatures
<1>5. answers' \subseteq answers
  <2>1. \A h \in handling' : h \in handling \/ h.message \in inbox
    BY <1>3
  <2> QED
    BY <1>2, <2>1, SameAnswers
<1>6. \A h \in handling' : h \in handling \/ h.feature = umFeature
  BY <1>3, <1>4
<1>7. (expected <=> expected') /\ UNCHANGED <<current, correlation(umFeature)>>
  BY <1>1 DEF expected, current, correlation
<1> QED
  BY <1>1, <1>5, <1>6, <1>7 DEF HeardInv

\* and accepted by it, as long as it has not been
LEMMA ProcessConsentHeard ==
    ASSUME TypeInv, ConsentInv, HeardInv, NEW h \in handling, ProcessConsent(h)
    PROVE  HeardInv'
<1> USE ConsentFacts
<1> DEFINE m == h.message
           k == h.feature
<1>0. /\ features \in Seq(Feature) /\ umFeature = Len(features) /\ DOMAIN features = 1..Len(features)
      /\ k \in 1..Len(features) /\ m.kind = "consent" /\ m \in answers
      /\ consent.pc # "none" => umFeature \in 1..Len(features)
  <2>1. m.kind = "consent"
    BY DEF ProcessConsent
  <2> QED
    BY <2>1, ConfigFacts DEF answers
<1>1. UNCHANGED <<consent, via, umFeature, inbox>> /\ handling' = handling \ {h}
  BY Zenon DEF ProcessConsent, handledUnchanged
<1>2. answers' \subseteq answers /\ (expected <=> expected')
  BY <1>1, SameAnswers DEF expected
<1>3. expected /\ m.id = consent.request /\ accepted[m.id] = 0 =>
        k = umFeature /\ features[k].consentHandler /\ m.id = features[k].consentCorrelationID
  BY <1>0 DEF HeardInv, expected, current, correlation
<1>4. \/ /\ features' = withCorrelationID(k, 0) /\ m.id = correlation(k)
         /\ accepted' = [accepted EXCEPT ![m.id] = @ + 1]
         /\ UNCHANGED rejected
      \/ /\ ~features[k].consentHandler \/ m.id # features[k].consentCorrelationID
         /\ rejected' = (rejected \/ (expected /\ m.id = consent.request /\ accepted[m.id] = 0))
         /\ UNCHANGED <<features, accepted>>
  BY Zenon DEF ProcessConsent, correlation, expected
<1>5. CASE /\ ~features[k].consentHandler \/ m.id # features[k].consentCorrelationID
           /\ rejected' = (rejected \/ (expected /\ m.id = consent.request /\ accepted[m.id] = 0))
           /\ UNCHANGED <<features, accepted>>
  <2>1. ~rejected'
    BY <1>3, <1>5 DEF HeardInv
  <2>2. UNCHANGED <<current, correlation(umFeature)>>
    BY <1>1, <1>5 DEF current, correlation
  <2> QED
    BY <1>1, <1>2, <1>5, <2>1, <2>2 DEF HeardInv
<1>6. CASE /\ features' = withCorrelationID(k, 0) /\ m.id = correlation(k)
           /\ accepted' = [accepted EXCEPT ![m.id] = @ + 1]
           /\ UNCHANGED rejected
  <2>1. 0 \in Nat /\ (expected \/ consent.pc \in {"started", "waiting"} => umFeature \in 1..Len(features))
    BY <1>0 DEF expected
  <2>2. /\ \A i \in 1..Len(features) : withCorrelationID(k, 0)[i].consentHandler = features[i].consentHandler
        /\ \A i \in 1..Len(features) : withCorrelationID(k, 0)[i].consentCorrelationID = IF i = k THEN 0 ELSE correlation(i)
    <3>1. k \in 1..Len(features) /\ features \in Seq(Feature) /\ 0 \in Nat
      BY <1>0
    <3>2. \A i \in 1..Len(features) : withCorrelationID(k, 0)[i].consentHandler = features[i].consentHandler
      BY <3>1, HandlerAssigned, Zenon
    <3>3. /\ withCorrelationID(k, 0) \in Seq(Feature) /\ Len(withCorrelationID(k, 0)) = Len(features)
          /\ \A i \in 1..Len(features) :
               withCorrelationID(k, 0)[i].consentCorrelationID = IF i = k THEN 0 ELSE correlation(i)
      BY <3>1, FeatureAssigned, ZenonT(60)
    <3> QED
      BY <3>2, <3>3
  <2>3. consent'.pc \in {"started", "waiting"} /\ via' = umFeature' => current'.consentHandler
    BY <1>0, <1>1, <1>6, <2>1, <2>2 DEF HeardInv, current
  <2>4. /\ m.id \in 1..MaxConsents /\ accepted'[m.id] = accepted[m.id] + 1 /\ accepted[m.id] \in Nat
        /\ \A r \in 1..MaxConsents : r # m.id => accepted'[r] = accepted[r]
    BY <1>0, <1>6
  <2>5. ASSUME expected, NEW n \in answers, n.id = consent.request, accepted'[n.id] = 0
        PROVE  correlation(umFeature)' = n.id
    <3>1. n.id # m.id /\ n.id \in 1..MaxConsents
      BY <2>4, <2>5, SMTT(60)
    <3>2. correlation(umFeature) = n.id
      BY <2>4, <2>5, <3>1 DEF HeardInv
    <3>3. umFeature # k
      BY <1>6, <3>1, <3>2
    <3> QED
      BY <1>1, <1>6, <2>1, <2>2, <2>5, <3>2, <3>3 DEF correlation
  <2> QED
    BY <1>1, <1>2, <1>6, <2>3, <2>5 DEF HeardInv
<1> QED
  BY <1>4, <1>5, <1>6

LEMMA HeardStep ==
    ASSUME TypeInv, ConsentInv, RouteInv, HeardInv, [NextThings]_thingsVars
    PROVE  HeardInv'
<1>0. /\ features \in Seq(Feature) /\ umFeature = Len(features) /\ DOMAIN features = 1..Len(features)
      /\ umFeature \in Nat /\ (consent.pc # "none" => umFeature \in 1..Len(features))
      /\ via \in 0..umFeature /\ consent \in Consent
  BY ConfigFacts, TypeParts DEF ClientTypes, ConsentTypes
\* who asks through a feature that is no longer current hears nothing
<1>1. CASE NewUpdateManagerFeature
  <2>1. UNCHANGED <<consent, via, rejected, inbox, handling>> /\ umFeature' = umFeature + 1
    BY <1>1 DEF NewUpdateManagerFeature, routerUnchanged, messageVars, consentVars
  <2>2. via' # umFeature' /\ ~expected'
    BY <1>0, <2>1 DEF expected
  <2>3. answers' = answers
    BY <2>1 DEF answers
  <2> QED
    BY <2>1, <2>2, <2>3 DEF HeardInv
<1>2. CASE BeginActivity \/ EndActivity \/ OwnerConsented \/ ConsentTimeout \/ ResetConsentHandler
  <2>1. UNCHANGED rejected
    BY <1>2, Zenon DEF BeginActivity, EndActivity, OwnerConsented, ConsentTimeout, ResetConsentHandler
  <2>2. consent'.pc \notin {"started", "waiting"}
    <3>1. CASE BeginActivity
      BY <3>1 DEF BeginActivity
    <3>2. CASE EndActivity
      BY <1>0, <3>2, Asking DEF EndActivity
    <3>3. CASE OwnerConsented
      BY <3>3 DEF OwnerConsented
    <3>4. CASE ConsentTimeout
      BY <1>0, <3>4, Asking DEF ConsentTimeout
    <3>5. CASE ResetConsentHandler
      BY <3>5 DEF ResetConsentHandler
    <3> QED
      BY <1>2, <3>1, <3>2, <3>3, <3>4, <3>5
  <2> QED
    BY <2>1, <2>2 DEF HeardInv, expected
<1>3. CASE SetConsentHandler
  <2>1. UNCHANGED <<rejected, inbox, handling, umFeature>> /\ features' = withConsentHandler(umFeature, TRUE)
    BY <1>3, Zenon DEF SetConsentHandler, askUnchanged
  <2>2. consent.pc = "ready" /\ consent'.pc = "started" /\ consent'.request = consent.request + 1
    BY <1>3 DEF SetConsentHandler
  <2>3. withConsentHandler(umFeature, TRUE)[umFeature].consentHandler
    BY <1>0, <2>2, HandlerAssigned
  <2>4. \A m \in answers' : m.id # consent'.request
    <3>1. answers' = answers
      BY <2>1 DEF answers
    <3> QED
      BY <2>2, <3>1, ConsentFacts DEF ConsentInv, AnswersInv
  <2>5. current'.consentHandler
    BY <2>1, <2>3 DEF current
  <2> QED
    BY <2>1, <2>2, <2>4, <2>5 DEF HeardInv, expected
<1>4. CASE SendConsent
  BY <1>4, SendConsentHeard
<1>5. CASE \E m \in inbox : Deliver(m)
  BY <1>5, DeliverHeard
<1>6. CASE \E h \in handling : ProcessConsent(h)
  BY <1>6, ProcessConsentHeard
<1>7. CASE \/ OnConnect \/ (\E t \in Things : ConfigurationChanges(t)) \/ (\E t \in Things : CallOperation(t))
           \/ HandleEdgeResponse \/ DeactivateFeature \/ DisconnectDitto \/ NewDittoClient
           \/ ConnectDitto \/ EdgeConfigApplied
           \/ (\E h \in connectHandlers : ReadFeature(h))
           \/ (\E h \in connectHandlers : Activate(h))
           \/ (\E h \in handling : SkipMessage(h))
           \/ (\E h \in handling : ProcessOperation(h))
           \/ (\E a \in forwarded : HandleOwnerConsentFeedback(a))
           \/ Deactivate \/ Disconnect
           \/ UNCHANGED thingsVars
  BY <1>7, DeafActions, DeafSteps, Zenon
<1> QED
  BY <1>1, <1>2, <1>3, <1>4, <1>5, <1>6, <1>7, Steps

LEMMA InitHeard == InitThings => RouteInv /\ HeardInv
  BY DEF InitThings, RouteInv, HeardInv, expected

\* While the feature the consent handler is set on is the current one, the first answer to
\* the request in progress is accepted, however many requests, configurations, late answers
\* and copies there were: commands never reach a feature given up (connect, Disconnect), and
\* processConsent clears the correlation id only when the answer to it is accepted.
THEOREM OwnerIsHeardHolds == SpecThings => []OwnerIsHeard
<1>1. TypeInv /\ ConsentInv /\ ConfigInv /\ RouteInv /\ HeardInv /\ [NextThings]_thingsVars
        => (TypeInv /\ ConsentInv /\ ConfigInv /\ RouteInv /\ HeardInv)'
  BY TypesKept, ConsentStep, ConfigStep, RouteStep, HeardStep
<1>2. InitThings => TypeInv /\ ConsentInv /\ ConfigInv /\ RouteInv /\ HeardInv
  BY InitTypes, InitConsent, InitConfig, InitHeard
<1>3. HeardInv => OwnerIsHeard
  BY DEF HeardInv, OwnerIsHeard
<1> QED
  BY <1>1, <1>2, <1>3, PTL DEF SpecThings

-----------------------------------------------------------------------------
(* Configuration *)

\* nothing could not be sent, subscribed to or made, and nobody stops
smooth == faults = 0 /\ stop = "no"

\* the configuration that is the last to be handled is the one the edge has
DeviceInv ==
    /\ counters["connect"] = 0 => responses = <<>> /\ router = "idle" /\ edgeConfig = {}
    /\ counters["connect"] > 0 =>
         \/ responses # <<>> /\ responses[Len(responses)] = device
         \/ responses = <<>> /\ router # "idle" /\ localCfg = device
         \/ responses = <<>> /\ router = "idle" /\ edgeConfig = {device}

\* the current feature is that of the configuration applied, or being applied
ThingInv ==
    /\ router \in {"connect", "applied"} => current.thing = localCfg
    /\ router \in {"idle", "deactivate"} /\ edgeConfig # {} => edgeConfig = {current.thing}

\* and, once connected, active or about to be, and subscribed
ConnectedInv ==
    router = "applied" \/ (router = "idle" /\ edgeConfig # {}) =>
        /\ current.active \/ \E h \in connectHandlers : h.feature \in {0, umFeature}
        /\ route = umFeature \/ counters["connect"] > 1

SmoothInv == smooth => ~err /\ DeviceInv /\ ThingInv /\ ConnectedInv

\* no assignment to a feature changes its thing
LEMMA ThingAssigned ==
    ASSUME features \in Seq(Feature), NEW k \in 1..Len(features)
    PROVE  /\ \A v \in BOOLEAN : \A i \in 1..Len(features) : withActive(k, v)[i].thing = features[i].thing
           /\ \A v \in BOOLEAN : \A i \in 1..Len(features) : withConsentHandler(k, v)[i].thing = features[i].thing
           /\ \A r \in Nat : \A i \in 1..Len(features) : withCorrelationID(k, r)[i].thing = features[i].thing
<1>1. features[k] \in Feature /\ DOMAIN features = 1..Len(features)
  OBVIOUS
<1>2. \A v \in BOOLEAN : \A i \in 1..Len(features) : withActive(k, v)[i].thing = features[i].thing
  BY <1>1 DEF Feature, withActive
<1>3. \A v \in BOOLEAN : \A i \in 1..Len(features) : withConsentHandler(k, v)[i].thing = features[i].thing
  BY <1>1 DEF Feature, withConsentHandler
<1>4. \A r \in Nat : \A i \in 1..Len(features) : withCorrelationID(k, r)[i].thing = features[i].thing
  BY <1>1 DEF Feature, withCorrelationID
<1> QED
  BY <1>2, <1>3, <1>4

\* what went wrong stays wrong
LEMMA SmoothBefore ==
    ASSUME TypeInv, [NextThings]_thingsVars, smooth'
    PROVE  smooth /\ ~fault
<1>0. faults \in Nat
  BY ThingsAssumption, TypeParts DEF EdgeTypes
<1> USE DEF fault, smooth
<1>1. faults' \in {faults, faults + 1} /\ (stop' = "no" => stop = "no")
  <2>1. CASE \/ OnConnect \/ NewDittoClient \/ ConnectDitto \/ (\E h \in connectHandlers : Activate(h)) \/ SendConsent
    BY <2>1 DEF OnConnect, NewDittoClient, ConnectDitto, Activate, SendConsent, handlerUnchanged, askUnchanged
  <2>2. CASE \/ (\E t \in Things : ConfigurationChanges(t)) \/ (\E t \in Things : CallOperation(t))
             \/ HandleEdgeResponse \/ DeactivateFeature \/ DisconnectDitto
             \/ NewUpdateManagerFeature \/ EdgeConfigApplied
             \/ (\E h \in connectHandlers : ReadFeature(h))
             \/ (\E m \in inbox : Deliver(m))
             \/ (\E h \in handling : SkipMessage(h))
             \/ (\E h \in handling : ProcessOperation(h))
             \/ (\E h \in handling : ProcessConsent(h))
             \/ (\E a \in forwarded : HandleOwnerConsentFeedback(a))
             \/ BeginActivity \/ EndActivity
             \/ SetConsentHandler \/ OwnerConsented \/ ConsentTimeout \/ ResetConsentHandler
             \/ UNCHANGED thingsVars
    BY <2>2, Zenon
       DEF ConfigurationChanges, CallOperation, HandleEdgeResponse, DeactivateFeature, DisconnectDitto,
           NewUpdateManagerFeature, EdgeConfigApplied, ReadFeature, Deliver, SkipMessage, ProcessOperation,
           ProcessConsent, HandleOwnerConsentFeedback, BeginActivity, EndActivity, SetConsentHandler,
           OwnerConsented, ConsentTimeout, ResetConsentHandler, thingsVars, handlerUnchanged,
           environmentUnchanged, handledUnchanged, askUnchanged
  <2>3. CASE Deactivate \/ Disconnect
    BY <2>3 DEF Deactivate, Disconnect, stopUnchanged
  <2> QED
    BY <2>1, <2>2, <2>3, Steps
<1> QED
  BY <1>0, <1>1

\* steps that have no part in the configuration
apart ==
    /\ UNCHANGED <<device, responses, route, router, localCfg, edgeConfig, err, connectHandlers, umFeature>>
    /\ counters'["connect"] = counters["connect"]
    /\ umFeature # 0 => features'[umFeature].thing = current.thing /\ features'[umFeature].active = current.active

LEMMA ApartSteps ==
    ASSUME TypeInv, SmoothInv, smooth, apart
    PROVE  SmoothInv'
<1>1. edgeConfig # {} \/ router = "applied" \/ router = "connect" => umFeature # 0
  BY TypeParts DEF ClientTypes, RouterInv
<1>2. ~err' /\ DeviceInv'
  BY DEF apart, SmoothInv, DeviceInv
<1>3. ThingInv'
  BY <1>1 DEF apart, SmoothInv, ThingInv, current
<1>4. ConnectedInv'
  BY <1>1 DEF apart, SmoothInv, ConnectedInv, current
<1> QED
  BY <1>2, <1>3, <1>4 DEF SmoothInv

LEMMA ApartActions ==
    ASSUME TypeInv,
           \/ (\E t \in Things : CallOperation(t))
           \/ (\E m \in inbox : Deliver(m))
           \/ (\E h \in handling : SkipMessage(h))
           \/ (\E h \in handling : ProcessOperation(h))
           \/ (\E h \in handling : ProcessConsent(h))
           \/ (\E a \in forwarded : HandleOwnerConsentFeedback(a))
           \/ BeginActivity \/ EndActivity
           \/ SetConsentHandler \/ SendConsent \/ OwnerConsented \/ ConsentTimeout \/ ResetConsentHandler
           \/ UNCHANGED thingsVars
    PROVE  apart
<1>0. /\ features \in Seq(Feature) /\ umFeature = Len(features) /\ DOMAIN features = 1..Len(features)
      /\ umFeature # 0 => umFeature \in 1..Len(features)
      /\ consent.pc # "none" => umFeature # 0
      /\ consent.request \in Nat
      /\ \A h \in handling : h.feature \in 1..Len(features)
  BY ConfigFacts
<1> USE DEF edgeVars, configVars, environmentUnchanged, handledUnchanged, askUnchanged
<1>1. UNCHANGED <<device, responses, route, router, localCfg, edgeConfig, err, connectHandlers, umFeature>>
  BY Zenon
     DEF CallOperation, Deliver, SkipMessage, ProcessOperation, ProcessConsent, HandleOwnerConsentFeedback,
         BeginActivity, EndActivity, SetConsentHandler, SendConsent, OwnerConsented, ConsentTimeout,
         ResetConsentHandler, thingsVars
<1>2. counters'["connect"] = counters["connect"]
  <2>1. counters \in [{"connect", "change", "message"} -> Nat]
    BY TypeParts DEF EdgeTypes
  <2>2. UNCHANGED counters \/ count("message", MaxMessages)
    BY Zenon
       DEF CallOperation, Deliver, SkipMessage, ProcessOperation, ProcessConsent, HandleOwnerConsentFeedback,
           BeginActivity, EndActivity, SetConsentHandler, SendConsent, OwnerConsented, ConsentTimeout,
           ResetConsentHandler, thingsVars
  <2> QED
    BY <2>1, <2>2 DEF count
<1>3. \/ UNCHANGED features
      \/ \E h \in handling : features' = withCorrelationID(h.feature, 0)
      \/ umFeature # 0 /\ \E v \in BOOLEAN : features' = withConsentHandler(umFeature, v)
      \/ umFeature # 0 /\ features' = withCorrelationID(umFeature, consent.request)
  <2>1. CASE SetConsentHandler \/ SendConsent \/ ResetConsentHandler
    BY <1>0, <2>1 DEF SetConsentHandler, SendConsent, ResetConsentHandler
  <2>2. CASE \/ (\E t \in Things : CallOperation(t))
             \/ (\E m \in inbox : Deliver(m))
             \/ (\E h \in handling : SkipMessage(h))
             \/ (\E h \in handling : ProcessOperation(h))
             \/ (\E h \in handling : ProcessConsent(h))
             \/ (\E a \in forwarded : HandleOwnerConsentFeedback(a))
             \/ BeginActivity \/ EndActivity \/ OwnerConsented \/ ConsentTimeout
             \/ UNCHANGED thingsVars
    BY <2>2, Zenon
       DEF CallOperation, Deliver, SkipMessage, ProcessOperation, ProcessConsent, HandleOwnerConsentFeedback,
           BeginActivity, EndActivity, OwnerConsented, ConsentTimeout, thingsVars
  <2> QED
    BY <2>1, <2>2, Zenon
<1>4. ASSUME NEW k \in 1..Len(features), NEW r \in Nat, features' = withCorrelationID(k, r)
      PROVE  umFeature # 0 => features'[umFeature].thing = current.thing /\ features'[umFeature].active = current.active
  <2>1. \A i \in 1..Len(features) : withCorrelationID(k, r)[i].thing = features[i].thing
    BY <1>0, <1>4, ThingAssigned, ZenonT(60)
  <2>2. \A i \in 1..Len(features) : withCorrelationID(k, r)[i].active = active(i)
    BY <1>0, <1>4, ActiveAssigned, ZenonT(120)
  <2> QED
    BY <1>0, <1>4, <2>1, <2>2, Zenon DEF current, active
<1>5. ASSUME NEW k \in 1..Len(features), NEW v \in BOOLEAN, features' = withConsentHandler(k, v)
      PROVE  umFeature # 0 => features'[umFeature].thing = current.thing /\ features'[umFeature].active = current.active
  <2>1. \A i \in 1..Len(features) : withConsentHandler(k, v)[i].thing = features[i].thing
    BY <1>0, <1>5, ThingAssigned, Zenon
  <2>2. \A i \in 1..Len(features) : withConsentHandler(k, v)[i].active = active(i)
    <3>1. features \in Seq(Feature) /\ k \in 1..Len(features)
      BY <1>0
    <3>2. \A u \in BOOLEAN : \A i \in 1..Len(features) : withConsentHandler(k, u)[i].active = active(i)
      BY <3>1, ActiveAssigned
    <3> QED
      BY <3>2
  <2> QED
    BY <1>0, <1>5, <2>1, <2>2, Zenon DEF current, active
<1>6. umFeature # 0 => features'[umFeature].thing = current.thing /\ features'[umFeature].active = current.active
  <2>1. UNCHANGED features => features'[umFeature].thing = current.thing /\ features'[umFeature].active = current.active
    BY DEF current
  <2>2. 0 \in Nat
    OBVIOUS
  <2> QED
    BY <1>0, <1>3, <1>4, <1>5, <2>1, <2>2, Zenon
<1> QED
  BY <1>1, <1>2, <1>6 DEF apart

\* the first connection asks for the configuration; a later one need not subscribe again
LEMMA OnConnectSmooth ==
    ASSUME TypeInv, SmoothInv, smooth, ~fault, OnConnect
    PROVE  SmoothInv'
<1>1. UNCHANGED <<device, router, localCfg, edgeConfig, err, connectHandlers, umFeature, features>>
  BY Zenon DEF OnConnect, configVars
<1>2. responses' = Append(responses, device)
  BY Zenon DEF OnConnect
<1>3. counters["connect"] \in Nat /\ counters'["connect"] = counters["connect"] + 1 /\ responses \in Seq(Things)
  <2>1. counters \in [{"connect", "change", "message"} -> Nat] /\ responses \in Seq(Things)
    BY TypeParts DEF EdgeTypes
  <2> QED
    BY <2>1 DEF OnConnect, count
<1>4. responses' # <<>> /\ responses'[Len(responses')] = device'
  BY <1>1, <1>2, <1>3
<1>5. ~err' /\ DeviceInv'
  BY <1>1, <1>3, <1>4 DEF SmoothInv, DeviceInv
<1>6. ThingInv'
  BY <1>1 DEF SmoothInv, ThingInv, current
<1>7. ConnectedInv'
  <2>1. counters["connect"] = 0 => ~(router = "applied" \/ (router = "idle" /\ edgeConfig # {}))
    BY DEF SmoothInv, DeviceInv
  <2>2. counters["connect"] # 0 => counters'["connect"] > 1
    BY <1>3
  <2> QED
    BY <1>1, <2>1, <2>2 DEF SmoothInv, ConnectedInv, current
<1> QED
  BY <1>5, <1>6, <1>7 DEF SmoothInv

LEMMA ConfigurationChangesSmooth ==
    ASSUME TypeInv, SmoothInv, smooth, NEW t \in Things, ConfigurationChanges(t)
    PROVE  SmoothInv'
<1>1. UNCHANGED <<route, router, localCfg, edgeConfig, err, connectHandlers, umFeature, features>>
  BY Zenon DEF ConfigurationChanges, configVars
<1>2. /\ responses \in Seq(Things) /\ counters["connect"] \in Nat /\ counters'["connect"] = counters["connect"]
  <2>1. counters \in [{"connect", "change", "message"} -> Nat] /\ responses \in Seq(Things)
    BY TypeParts DEF EdgeTypes
  <2> QED
    BY <2>1 DEF ConfigurationChanges, count
<1>3. device' = t /\ responses' = IF counters["connect"] = 0 THEN responses ELSE Append(responses, t)
  BY Zenon DEF ConfigurationChanges
<1>4. counters["connect"] > 0 => responses' # <<>> /\ responses'[Len(responses')] = device'
  BY <1>2, <1>3
<1>5. ~err' /\ DeviceInv'
  BY <1>1, <1>2, <1>3, <1>4 DEF SmoothInv, DeviceInv
<1>6. ThingInv' /\ ConnectedInv'
  BY <1>1, <1>2 DEF SmoothInv, ThingInv, ConnectedInv, current
<1> QED
  BY <1>5, <1>6 DEF SmoothInv

\* a response for the configuration that is applied already ends the handler at once
LEMMA HandleEdgeResponseSmooth ==
    ASSUME TypeInv, SmoothInv, smooth, HandleEdgeResponse
    PROVE  SmoothInv'
<1>1. UNCHANGED <<device, route, counters, edgeConfig, err, connectHandlers, umFeature, features>>
  BY Zenon DEF HandleEdgeResponse, routerUnchanged
<1>2. /\ responses \in Seq(Things) /\ responses # <<>> /\ router = "idle" /\ counters["connect"] \in Nat
      /\ edgeConfig \in {{}} \cup {{t} : t \in Things}
  BY TypeParts DEF EdgeTypes, HandleEdgeResponse
<1>3. responses' = Tail(responses) /\ localCfg' = Head(responses)
  BY Zenon DEF HandleEdgeResponse
<1>4. \/ router' = "idle" /\ edgeConfig = {localCfg'}
      \/ router' = "create"
      \/ router' = "deactivate" /\ edgeConfig # {}
  BY <1>2, <1>3 DEF HandleEdgeResponse
<1>5. /\ counters["connect"] > 0 /\ responses[Len(responses)] = device
  BY <1>2 DEF SmoothInv, DeviceInv
<1>6. \/ responses' = <<>> /\ localCfg' = device
      \/ responses' # <<>> /\ responses'[Len(responses')] = device
  <2>1. CASE Len(responses) = 1
    BY <1>2, <1>3, <1>5, <2>1
  <2>2. CASE Len(responses) # 1
    <3>1. PICK n \in Nat : n = Len(responses)
      BY <1>2
    <3>2. n # 0
      BY <1>2, <3>1
    <3>3. n > 1 /\ n - 1 \in 1..(n - 1) /\ (n - 1) + 1 = n
      BY <2>2, <3>1, <3>2
    <3>4. Len(responses') = n - 1 /\ \A i \in 1..(n - 1) : responses'[i] = responses[i + 1]
      BY <1>2, <1>3, <3>1
    <3>5. responses'[Len(responses')] = responses[n] /\ responses' # <<>>
      BY <3>3, <3>4
    <3> QED
      BY <1>5, <3>1, <3>5
  <2> QED
    BY <2>1, <2>2
<1>7. ~err' /\ DeviceInv'
  BY <1>1, <1>2, <1>4, <1>5, <1>6 DEF SmoothInv, DeviceInv
<1>8. ThingInv'
  BY <1>1, <1>2, <1>4 DEF SmoothInv, ThingInv, current
<1>9. ConnectedInv'
  BY <1>1, <1>2, <1>4 DEF SmoothInv, ConnectedInv, current
<1> QED
  BY <1>7, <1>8, <1>9 DEF SmoothInv

\* while the router is at work, what it handles stays the last configuration
LEMMA RouterSmooth ==
    ASSUME TypeInv, SmoothInv, smooth, ~fault,
           \/ DeactivateFeature \/ DisconnectDitto \/ NewDittoClient
           \/ NewUpdateManagerFeature \/ ConnectDitto \/ EdgeConfigApplied
    PROVE  SmoothInv'
<1>0. /\ features \in Seq(Feature) /\ umFeature = Len(features) /\ DOMAIN features = 1..Len(features)
      /\ umFeature \in Nat /\ localCfg \in Things
      /\ router \in {"connect", "applied"} => dittoClient = umFeature /\ umFeature # 0
  BY ConfigFacts, TypeParts DEF EdgeTypes, ClientTypes, RouterInv
<1>1. UNCHANGED <<device, responses, counters, localCfg>> /\ router # "idle"
  BY DEF DeactivateFeature, DisconnectDitto, NewDittoClient, NewUpdateManagerFeature, ConnectDitto, EdgeConfigApplied,
         routerUnchanged
<1>2. ASSUME router' # "idle"
      PROVE  DeviceInv'
  BY <1>1, <1>2 DEF SmoothInv, DeviceInv
<1>3. CASE DeactivateFeature \/ DisconnectDitto \/ NewDittoClient
  <2>1. router' \in {"disconnect", "create", "feature"} /\ UNCHANGED err
    BY <1>3 DEF DeactivateFeature, DisconnectDitto, NewDittoClient
  <2> QED
    BY <1>2, <2>1 DEF SmoothInv, ThingInv, ConnectedInv
<1>4. CASE NewUpdateManagerFeature
  <2> DEFINE f == [thing |-> localCfg, active |-> FALSE, consentHandler |-> FALSE, consentCorrelationID |-> 0]
  <2>1. features' = Append(features, f) /\ umFeature' = umFeature + 1 /\ router' = "connect" /\ UNCHANGED err
    BY <1>4 DEF NewUpdateManagerFeature
  <2>2. f.thing = localCfg
    OBVIOUS
  <2> HIDE DEF f
  <2>3. features'[umFeature'] = f
    BY <1>0, <2>1
  <2> QED
    BY <1>1, <1>2, <2>1, <2>2, <2>3 DEF SmoothInv, ThingInv, ConnectedInv, current
<1>5. CASE ConnectDitto
  <2>1. /\ route' = dittoClient /\ err' = FALSE /\ router = "connect" /\ router' = "applied"
        /\ connectHandlers' = connectHandlers \cup {[client |-> dittoClient, feature |-> 0]}
        /\ UNCHANGED <<umFeature, features>>
    BY <1>5, Zenon DEF ConnectDitto
  <2>2. ThingInv'
    BY <1>1, <2>1 DEF SmoothInv, ThingInv, current
  <2>3. ConnectedInv'
    <3>1. [client |-> dittoClient, feature |-> 0] \in connectHandlers'
      BY <2>1
    <3>2. \E h \in connectHandlers' : h.feature \in {0, umFeature'}
      BY <3>1
    <3>3. route' = umFeature'
      BY <1>0, <2>1
    <3> QED
      BY <3>2, <3>3 DEF ConnectedInv
  <2> QED
    BY <1>2, <2>1, <2>2, <2>3 DEF SmoothInv
<1>6. CASE EdgeConfigApplied
  <2>1. /\ edgeConfig' = {localCfg} /\ ~err' /\ router = "applied" /\ router' = "idle"
        /\ UNCHANGED <<route, connectHandlers, umFeature, features>>
    BY <1>6 DEF EdgeConfigApplied, SmoothInv
  <2>2. DeviceInv'
    BY <1>1, <2>1 DEF SmoothInv, DeviceInv
  <2>3. ThingInv' /\ ConnectedInv'
    BY <1>1, <2>1 DEF SmoothInv, ThingInv, ConnectedInv, current
  <2> QED
    BY <2>1, <2>2, <2>3 DEF SmoothInv
<1> QED
  BY <1>3, <1>4, <1>5, <1>6

\* the connect handler of a former client activates the current feature as well
LEMMA ConnectHandlerSmooth ==
    ASSUME TypeInv, SmoothInv, smooth, ~fault, NEW h \in connectHandlers, ReadFeature(h) \/ Activate(h)
    PROVE  SmoothInv'
<1>0. /\ features \in Seq(Feature) /\ umFeature = Len(features) /\ DOMAIN features = 1..Len(features)
      /\ umFeature \in Nat /\ (umFeature # 0 => umFeature \in 1..Len(features))
      /\ h.feature \in 0..umFeature
      /\ edgeConfig # {} \/ router = "applied" \/ router = "connect" => umFeature # 0
  BY ConfigFacts, TypeParts DEF ClientTypes, RouterInv
<1>1. UNCHANGED <<device, responses, route, counters, edgeConfig, localCfg, router, umFeature>>
  BY Zenon DEF ReadFeature, Activate, handlerUnchanged, edgeVars
<1>2. DeviceInv'
  BY <1>1 DEF SmoothInv, DeviceInv
<1>3. CASE ReadFeature(h)
  <2> DEFINE g == [client |-> h.client, feature |-> umFeature]
  <2>1. UNCHANGED <<err, features>> /\ connectHandlers' = (connectHandlers \ {h}) \cup {g} /\ g.feature = umFeature
    BY <1>3 DEF ReadFeature
  <2> HIDE DEF g
  <2>2. ThingInv'
    BY <1>1, <2>1 DEF SmoothInv, ThingInv, current
  <2>3. \E i \in connectHandlers' : i.feature \in {0, umFeature'}
    BY <1>1, <2>1
  <2>4. ConnectedInv'
    BY <1>1, <2>3 DEF SmoothInv, ConnectedInv
  <2> QED
    BY <1>2, <2>1, <2>2, <2>4 DEF SmoothInv
<1>4. CASE Activate(h)
  <2>1. /\ features' = withActive(h.feature, TRUE) /\ h.feature # 0
        /\ connectHandlers' = connectHandlers \ {h}
        /\ err' = IF sharesErr(h) THEN FALSE ELSE err
    BY <1>4, Zenon DEF Activate
  <2>2. h.feature \in 1..Len(features) /\ TRUE \in BOOLEAN
    BY <1>0, <2>1
  <2>3. \A i \in 1..Len(features) : withActive(h.feature, TRUE)[i].thing = features[i].thing
    BY <1>0, <2>2, ThingAssigned, Zenon
  <2>4. \A i \in 1..Len(features) : withActive(h.feature, TRUE)[i].active = IF i = h.feature THEN TRUE ELSE active(i)
    BY <1>0, <2>2, ActiveAssigned, ZenonT(60)
  <2>5. umFeature # 0 => /\ current'.thing = current.thing
                         /\ current.active \/ h.feature = umFeature => current'.active
    BY <1>0, <1>1, <2>1, <2>3, <2>4 DEF current, active
  <2>6. ~err'
    BY <2>1 DEF SmoothInv
  <2>7. ThingInv'
    BY <1>0, <1>1, <2>5 DEF SmoothInv, ThingInv
  <2>8. ConnectedInv'
    <3> SUFFICES ASSUME router = "applied" \/ (router = "idle" /\ edgeConfig # {})
                 PROVE  /\ current'.active \/ \E i \in connectHandlers' : i.feature \in {0, umFeature}
                        /\ route = umFeature \/ counters["connect"] > 1
      BY <1>1 DEF ConnectedInv
    <3>1. /\ current.active \/ \E i \in connectHandlers : i.feature \in {0, umFeature}
          /\ route = umFeature \/ counters["connect"] > 1
      BY DEF SmoothInv, ConnectedInv
    <3>2. umFeature # 0
      BY <1>0
    <3>3. CASE \E i \in connectHandlers : i # h /\ i.feature \in {0, umFeature}
      BY <2>1, <3>1, <3>3
    <3>4. CASE current.active \/ h.feature = umFeature
      BY <2>5, <3>1, <3>2, <3>4
    <3> QED
      BY <2>1, <3>1, <3>3, <3>4
  <2> QED
    BY <1>2, <2>6, <2>7, <2>8 DEF SmoothInv
<1> QED
  BY <1>3, <1>4

LEMMA SmoothStep ==
    ASSUME TypeInv, SmoothInv, [NextThings]_thingsVars
    PROVE  SmoothInv'
<1> SUFFICES ASSUME smooth'
             PROVE  SmoothInv'
  BY DEF SmoothInv
<1>0. smooth /\ ~fault
  BY SmoothBefore
<1>1. CASE OnConnect
  BY <1>0, <1>1, OnConnectSmooth
<1>2. CASE \E t \in Things : ConfigurationChanges(t)
  BY <1>0, <1>2, ConfigurationChangesSmooth
<1>3. CASE HandleEdgeResponse
  BY <1>0, <1>3, HandleEdgeResponseSmooth
<1>4. CASE \/ DeactivateFeature \/ DisconnectDitto \/ NewDittoClient
           \/ NewUpdateManagerFeature \/ ConnectDitto \/ EdgeConfigApplied
  BY <1>0, <1>4, RouterSmooth, Zenon
<1>5. CASE (\E h \in connectHandlers : ReadFeature(h)) \/ (\E h \in connectHandlers : Activate(h))
  BY <1>0, <1>5, ConnectHandlerSmooth
<1>6. CASE \/ (\E t \in Things : CallOperation(t))
           \/ (\E m \in inbox : Deliver(m))
           \/ (\E h \in handling : SkipMessage(h))
           \/ (\E h \in handling : ProcessOperation(h))
           \/ (\E h \in handling : ProcessConsent(h))
           \/ (\E a \in forwarded : HandleOwnerConsentFeedback(a))
           \/ BeginActivity \/ EndActivity
           \/ SetConsentHandler \/ SendConsent \/ OwnerConsented \/ ConsentTimeout \/ ResetConsentHandler
           \/ UNCHANGED thingsVars
  BY <1>0, <1>6, ApartActions, ApartSteps, Zenon
<1>7. CASE Deactivate \/ Disconnect
  BY <1>7 DEF Deactivate, Disconnect, smooth
<1> QED
  BY <1>1, <1>2, <1>3, <1>4, <1>5, <1>6, <1>7, Steps

LEMMA InitSmooth == InitThings => SmoothInv
  BY DEF InitThings, SmoothInv, DeviceInv, ThingInv, ConnectedInv

\* However responses, connections and connect handlers follow each other, once all are done
\* with, the last configuration of the edge is in force: its feature is current and active
\* (handleEdgeResponse, connectHandler), and subscribed in the first connection at least.
THEOREM ConfigurationAppliedHolds == SpecThings => []ConfigurationApplied
<1>1. TypeInv /\ SmoothInv /\ [NextThings]_thingsVars => (TypeInv /\ SmoothInv)'
  BY TypesKept, SmoothStep
<1>2. TypeInv /\ SmoothInv => ConfigurationApplied
  <2> SUFFICES ASSUME TypeInv, SmoothInv, router = "idle", responses = <<>>, connectHandlers = {},
                      counters["connect"] > 0, faults = 0, stop = "no"
               PROVE  /\ umFeature # 0
                      /\ current.thing = device
                      /\ current.active
                      /\ route = umFeature \/ counters["connect"] > 1
    BY DEF ConfigurationApplied
  <2>1. DeviceInv /\ ThingInv /\ ConnectedInv
    BY DEF SmoothInv, smooth
  <2>2. edgeConfig = {device}
    BY <2>1 DEF DeviceInv
  <2>3. umFeature # 0
    BY <2>2, TypeParts DEF ClientTypes, RouterInv
  <2> QED
    BY <2>1, <2>2, <2>3 DEF ThingInv, ConnectedInv
<1> QED
  BY <1>1, <1>2, InitTypes, InitSmooth, PTL DEF SpecThings

=============================================================================
