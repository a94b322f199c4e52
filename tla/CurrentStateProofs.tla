-------------------------- MODULE CurrentStateProofs --------------------------
(***************************************************************************)
(* Proofs about CurrentState, for every set of domains, any number of      *)
(* changes, duplicates and commands, and all faults.                       *)
(***************************************************************************)
EXTENDS CurrentState, SequenceTheorems, TLAPS

\* who waits holds managerLock, and a request expected to be answered has a channel
ChannelInv ==
    /\ \A d \in Domains : waiting[d] => managerLock[d] # "free"
    /\ \A d \in Domains : expActivityID[d] # None => receiveChan[d] # "nil"
    /\ ChannelOutlivesSender

\* the messages of the agent of d on their way to the router
Sent(d) == {messages[d][i] : i \in DOMAIN messages[d]}

\* Timestamps order the states of a domain as its agent installed them: what is
\* known, what is on its way and what is installed never disagree on it.
OrderInv ==
    \A d \in Domains :
        /\ domainsInventory[d] = inventory[d]
        /\ inventory[d] <= installed[d]
        /\ \A m \in Sent(d) : m.time <= clock[d] /\ m.version <= installed[d]
        /\ \A m, n \in Sent(d) : m.time <= n.time => m.version <= n.version
        /\ inventory[d] # 0 => \A m \in Sent(d) : timestamp[d] <= m.time => inventory[d] <= m.version

-----------------------------------------------------------------------------
(* Sequences of messages *)

LEMMA TailElements ==
    ASSUME NEW S, NEW s \in Seq(S), s # <<>>
    PROVE  /\ Head(s) \in S /\ Tail(s) \in Seq(S)
           /\ \E i \in DOMAIN s : s[i] = Head(s)
           /\ \A i \in DOMAIN Tail(s) : \E j \in DOMAIN s : Tail(s)[i] = s[j]
<1>1. /\ Head(s) \in S /\ Tail(s) \in Seq(S) /\ Len(Tail(s)) = Len(s) - 1 /\ Len(s) \in Nat \ {0}
      /\ \A i \in 1..Len(Tail(s)) : Tail(s)[i] = s[i + 1]
  BY HeadTailProperties, LenProperties, EmptySeq
<1>2. Head(s) = s[1] /\ DOMAIN s = 1..Len(s) /\ DOMAIN Tail(s) = 1..Len(Tail(s))
  BY <1>1, LenProperties
<1>3. \A i \in DOMAIN Tail(s) : i + 1 \in DOMAIN s /\ Tail(s)[i] = s[i + 1]
  BY <1>1, <1>2
<1>4. 1 \in DOMAIN s
  BY <1>1, <1>2
<1> QED
  BY <1>1, <1>2, <1>3, <1>4

LEMMA AppendElements ==
    ASSUME NEW S, NEW s \in Seq(S), NEW e \in S
    PROVE  /\ Append(s, e) \in Seq(S)
           /\ \A i \in DOMAIN Append(s, e) :
                Append(s, e)[i] = e \/ \E j \in DOMAIN s : Append(s, e)[i] = s[j]
<1>1. /\ Append(s, e) \in Seq(S) /\ Len(Append(s, e)) = Len(s) + 1
      /\ \A i \in 1..Len(s) : Append(s, e)[i] = s[i]
      /\ Append(s, e)[Len(s) + 1] = e
  BY AppendProperties
<1>2. /\ DOMAIN Append(s, e) = 1..(Len(s) + 1) /\ DOMAIN s = 1..Len(s) /\ Len(s) \in Nat
  BY <1>1, LenProperties
<1>3. \A i \in DOMAIN Append(s, e) : i \in DOMAIN s \/ i = Len(s) + 1
  BY <1>2
<1> QED
  BY <1>1, <1>2, <1>3

\* an agent reports its state, newer than anything it reported before
LEMMA ReportStateEffect ==
    ASSUME TypeOKState, NEW d \in Domains, NEW id \in Getters \cup {None},
           installed' \in Inventory, ReportState(d, id)
    PROVE  /\ clock' \in [Domains -> Nat] /\ clock'[d] = clock[d] + 1
           /\ \A e \in Domains : e # d => clock'[e] = clock[e]
           /\ messages' \in [Domains -> Seq(StateMessage)]
           /\ \A e \in Domains : \A m \in Sent(e)' :
                \/ m \in Sent(e)
                \/ e = d /\ m.id = id /\ m.version = installed'[d] /\ m.time = clock'[d]
<1> DEFINE new == [id |-> id, version |-> installed'[d], time |-> clock'[d]]
<1>1. /\ clock' \in [Domains -> Nat] /\ clock'[d] = clock[d] + 1
      /\ \A e \in Domains : e # d => clock'[e] = clock[e]
  BY DEF ReportState, TypeOKState
<1>2. new \in StateMessage /\ new.id = id /\ new.version = installed'[d] /\ new.time = clock'[d]
  BY <1>1 DEF StateMessage, Inventory
<1>3. CASE messages' = messages
  BY <1>1, <1>3 DEF TypeOKState, Sent
<1>4. CASE messages' = [messages EXCEPT ![d] = Append(@, new)]
  <2> HIDE DEF new
  <2>1. messages[d] \in Seq(StateMessage) /\ messages \in [Domains -> Seq(StateMessage)]
    BY DEF TypeOKState
  <2>2. /\ Append(messages[d], new) \in Seq(StateMessage)
        /\ \A i \in DOMAIN Append(messages[d], new) : \/ Append(messages[d], new)[i] = new
                \/ \E j \in DOMAIN messages[d] : Append(messages[d], new)[i] = messages[d][j]
    BY <1>2, <2>1, AppendElements
  <2>3. /\ messages' \in [Domains -> Seq(StateMessage)] /\ messages'[d] = Append(messages[d], new)
        /\ \A e \in Domains : e # d => messages'[e] = messages[e]
    BY <1>4, <2>1, <2>2
  <2>4. \A m \in Sent(d)' : m \in Sent(d) \/ m = new
    BY <2>2, <2>3 DEF Sent
  <2>5. \A e \in Domains : e # d => Sent(e)' = Sent(e)
    BY <2>3 DEF Sent
  <2> QED
    BY <1>1, <1>2, <2>3, <2>4, <2>5
<1> QED
  BY <1>3, <1>4 DEF ReportState

\* the router takes a message, which may come again
LEMMA TakeMessageEffect ==
    ASSUME TypeOKState, NEW d \in Domains, messages[d] # <<>>, TakeMessage(d)
    PROVE  /\ messages' \in [Domains -> Seq(StateMessage)] /\ duplicates' \in 0..MaxDuplicates
           /\ Head(messages[d]) \in StateMessage /\ Head(messages[d]) \in Sent(d)
           /\ \A e \in Domains : \A m \in Sent(e)' : m \in Sent(e)
<1> DEFINE q == messages[d]
<1>1. q \in Seq(StateMessage) /\ messages \in [Domains -> Seq(StateMessage)] /\ q # <<>>
  BY DEF TypeOKState
<1>2. /\ Head(q) \in StateMessage /\ Tail(q) \in Seq(StateMessage)
      /\ \E i \in DOMAIN q : q[i] = Head(q)
      /\ \A i \in DOMAIN Tail(q) : \E j \in DOMAIN q : Tail(q)[i] = q[j]
  BY <1>1, TailElements
<1>3. /\ Append(Tail(q), Head(q)) \in Seq(StateMessage)
      /\ \A i \in DOMAIN Append(Tail(q), Head(q)) :
           \E j \in DOMAIN q : Append(Tail(q), Head(q))[i] = q[j]
  <2>1. /\ Append(Tail(q), Head(q)) \in Seq(StateMessage)
        /\ \A i \in DOMAIN Append(Tail(q), Head(q)) : \/ Append(Tail(q), Head(q))[i] = Head(q)
               \/ \E j \in DOMAIN Tail(q) : Append(Tail(q), Head(q))[i] = Tail(q)[j]
    BY <1>2, AppendElements
  <2> QED
    BY <1>2, <2>1
<1>4. Head(q) \in Sent(d)
  BY <1>2 DEF Sent
<1>5. duplicates' \in 0..MaxDuplicates
  <2>1. MaxDuplicates \in Nat /\ duplicates \in 0..MaxDuplicates
    BY CurrentStateAssumption DEF TypeOKState
  <2> QED
    BY <2>1 DEF TakeMessage
<1>6. ASSUME NEW t \in Seq(StateMessage), messages' = [messages EXCEPT ![d] = t],
             \A i \in DOMAIN t : \E j \in DOMAIN q : t[i] = q[j]
      PROVE  /\ messages' \in [Domains -> Seq(StateMessage)]
             /\ \A e \in Domains : \A m \in Sent(e)' : m \in Sent(e)
  <2>1. /\ messages' \in [Domains -> Seq(StateMessage)] /\ messages'[d] = t
        /\ \A e \in Domains : e # d => messages'[e] = messages[e]
    BY <1>1, <1>6
  <2>2. \A m \in Sent(d)' : m \in Sent(d)
    BY <1>6, <2>1 DEF Sent
  <2>3. \A e \in Domains : e # d => Sent(e)' = Sent(e)
    BY <2>1 DEF Sent
  <2> QED
    BY <2>1, <2>2, <2>3
<1>7. CASE UNCHANGED messages
  BY <1>1, <1>2, <1>4, <1>5, <1>7 DEF Sent
<1>8. CASE messages' = [messages EXCEPT ![d] = Tail(q)]
  BY <1>2, <1>4, <1>5, <1>6, <1>8
<1>9. CASE messages' = [messages EXCEPT ![d] = Append(Tail(q), Head(q))]
  BY <1>2, <1>3, <1>4, <1>5, <1>6, <1>9
<1> QED
  BY <1>7, <1>8, <1>9 DEF TakeMessage

-----------------------------------------------------------------------------
(* Types *)

\* the parts of TypeOKState, by component
AgentTyped ==
    /\ installed \in Inventory /\ requests \in [Domains -> Seq(Getters)]
    /\ messages \in [Domains -> Seq(StateMessage)] /\ clock \in [Domains -> Nat]
    /\ duplicates \in 0..MaxDuplicates /\ terminated \in BOOLEAN
CommandTyped == commands \subseteq Domains /\ issued \in 0..MaxCommands /\ feedback \in BOOLEAN
DomainTyped ==
    /\ managerLock \in [Domains -> Getters \cup {"free"}] /\ waiting \in [Domains -> BOOLEAN]
    /\ expActivityID \in [Domains -> Getters \cup {None}]
    /\ receiveChan \in [Domains -> {"nil", "empty", "full"}]
    /\ \A d \in Domains : receiveChan[d] = "nil" <=> managerLock[d] = "free"
    /\ inventory \in Inventory /\ timestamp \in [Domains -> Nat] /\ sending \subseteq Domains
ManagerTyped ==
    /\ domainsInventory \in Inventory
    /\ getter \in [Getters -> {"idle", "collecting", "reporting", "done"}]
    /\ open \in [Getters -> SUBSET Domains] /\ collected \in [Getters -> Inventory]
    /\ asOf \in [Getters -> Inventory] /\ excused \subseteq Getters
ReportTyped == timer \in BOOLEAN /\ currentState \in Inventory /\ published \in Inventory

Types == AgentTyped /\ CommandTyped /\ DomainTyped /\ ManagerTyped /\ ReportTyped

LEMMA TypesByComponent == TypeOKState <=> Types
  BY DEF TypeOKState, Types, AgentTyped, CommandTyped, DomainTyped, ManagerTyped, ReportTyped

LEMMA Constants ==
    /\ MaxVersion \in Nat /\ MaxDuplicates \in Nat /\ MaxCommands \in Nat
    /\ Unknown \in Inventory /\ 1 \in Version /\ "free" \notin Getters
  BY CurrentStateAssumption DEF Unknown, Inventory, Version, AllGetters

LEMMA UnchangedTyped ==
    /\ AgentTyped /\ UNCHANGED agentVars => AgentTyped'
    /\ CommandTyped /\ UNCHANGED commandVars => CommandTyped'
    /\ DomainTyped /\ UNCHANGED domainVars => DomainTyped'
    /\ ManagerTyped /\ UNCHANGED managerVars => ManagerTyped'
    /\ ReportTyped /\ UNCHANGED reportVars => ReportTyped'
<1>1. AgentTyped /\ UNCHANGED agentVars => AgentTyped'
  BY DEF AgentTyped, agentVars
<1>2. CommandTyped /\ UNCHANGED commandVars => CommandTyped'
  BY DEF CommandTyped, commandVars
<1>3. DomainTyped /\ UNCHANGED domainVars => DomainTyped'
  BY DEF DomainTyped, domainVars
<1>4. ManagerTyped /\ UNCHANGED managerVars => ManagerTyped'
  BY DEF ManagerTyped, managerVars
<1>5. ReportTyped /\ UNCHANGED reportVars => ReportTyped'
  BY DEF ReportTyped, reportVars
<1> QED
  BY <1>1, <1>2, <1>3, <1>4, <1>5

LEMMA CollectedTyped ==
    ASSUME DomainTyped, ManagerTyped, NEW d \in Domains, managerLock[d] # "free", takeInventory(d)
    PROVE  collected' \in [Getters -> Inventory]
<1>1. managerLock[d] \in Getters /\ inventory[d] \in Version
  BY DEF DomainTyped, Inventory
<1>2. [collected[managerLock[d]] EXCEPT ![d] = inventory[d]] \in Inventory
  BY <1>1 DEF ManagerTyped, Inventory
<1> QED
  BY <1>1, <1>2 DEF takeInventory, ManagerTyped

LEMMA GetTyped ==
    ASSUME TypeOKState, ChannelInv, NEW d \in Domains, GetStep(d) \/ ReadTimeout(d)
    PROVE  Types'
<1>0. AgentTyped /\ CommandTyped /\ DomainTyped /\ ManagerTyped /\ ReportTyped
  BY TypesByComponent DEF Types
<1> USE <1>0
<1>1. ASSUME NEW g \in Getters, SendCurrentStateGet(g, d)
      PROVE  Types'
  <2>1. requests[d] \in Seq(Getters) /\ Append(requests[d], g) \in Seq(Getters)
    BY AppendElements DEF AgentTyped
  <2>2. requests' \in [Domains -> Seq(Getters)]
    BY <1>1, <2>1 DEF SendCurrentStateGet, AgentTyped
  <2>3. AgentTyped'
    BY <1>1, <2>2 DEF SendCurrentStateGet, AgentTyped
  <2>4. DomainTyped'
    BY <1>1, Constants DEF SendCurrentStateGet, DomainTyped
  <2>5. ManagerTyped'
    BY <1>1 DEF SendCurrentStateGet, ManagerTyped
  <2> QED
    BY <1>1, <2>3, <2>4, <2>5, UnchangedTyped DEF Types, SendCurrentStateGet
<1>2. CASE ReceiveReply(d)
  <2>1. collected' \in [Getters -> Inventory]
    BY <1>2, CollectedTyped DEF ReceiveReply, ChannelInv
  <2>2. ManagerTyped'
    BY <1>2, <2>1 DEF ReceiveReply, ManagerTyped
  <2>3. DomainTyped'
    BY <1>2 DEF ReceiveReply, DomainTyped
  <2> QED
    BY <1>2, <2>2, <2>3, UnchangedTyped DEF Types, ReceiveReply
<1>3. CASE ReadTimeout(d)
  <2>1. collected' \in [Getters -> Inventory]
    BY <1>3, CollectedTyped DEF ReadTimeout, ChannelInv
  <2>2. managerLock[d] \in Getters
    BY <1>3 DEF ReadTimeout, ChannelInv, DomainTyped
  <2>3. ManagerTyped'
    BY <1>3, <2>1, <2>2 DEF ReadTimeout, ManagerTyped
  <2>4. DomainTyped'
    BY <1>3 DEF ReadTimeout, DomainTyped
  <2> QED
    BY <1>3, <2>3, <2>4, UnchangedTyped DEF Types, ReadTimeout
<1>4. CASE GetCancelled(d)
  <2>1. managerLock[d] \in Getters
    BY <1>4 DEF GetCancelled, ChannelInv, DomainTyped
  <2>2. ManagerTyped'
    BY <1>4, <2>1 DEF GetCancelled, ManagerTyped
  <2>3. DomainTyped'
    BY <1>4 DEF GetCancelled, DomainTyped
  <2> QED
    BY <1>4, <2>2, <2>3, UnchangedTyped DEF Types, GetCancelled
<1>5. CASE LeaveGet(d)
  <2>1. ManagerTyped'
    BY <1>5 DEF LeaveGet, leaveUnchanged, ManagerTyped, DomainTyped
  <2>2. DomainTyped'
    BY <1>5 DEF LeaveGet, leaveUnchanged, DomainTyped
  <2> QED
    BY <1>5, <2>1, <2>2, UnchangedTyped DEF Types, LeaveGet, leaveUnchanged
<1> QED
  BY <1>1, <1>2, <1>3, <1>4, <1>5 DEF GetStep

LEMMA HandleCurrentStateTyped ==
    ASSUME TypeOKState, NEW d \in Domains, HandleCurrentState(d)
    PROVE  Types'
<1>0. AgentTyped /\ CommandTyped /\ DomainTyped /\ ManagerTyped /\ ReportTyped
  BY TypesByComponent DEF Types
<1> USE <1>0
<1>1. /\ messages' \in [Domains -> Seq(StateMessage)] /\ duplicates' \in 0..MaxDuplicates
      /\ Head(messages[d]) \in StateMessage
  BY TakeMessageEffect DEF HandleCurrentState
<1> DEFINE m == Head(messages[d])
<1>2. m.version \in Version /\ m.time \in Nat
  BY <1>1 DEF StateMessage
<1>3. AgentTyped'
  BY <1>1 DEF HandleCurrentState, AgentTyped
<1>4. CASE Outdated(d, m) /\ UNCHANGED <<inventory, timestamp, sending, domainsInventory, reportVars>>
  <2>1. DomainTyped' /\ ManagerTyped'
    BY <1>4 DEF HandleCurrentState, DomainTyped, ManagerTyped
  <2> QED
    BY <1>3, <1>4, <2>1, UnchangedTyped DEF Types, HandleCurrentState
<1>5. CASE /\ KnowState(d, m)
           /\ IF m.id = None THEN ReportChange(domainsInventory') ELSE UNCHANGED reportVars
           /\ sending' = IF m.id # None /\ m.id = expActivityID[d] THEN {d} ELSE {}
  <2> HIDE DEF m
  <2>1. /\ inventory' \in Inventory /\ timestamp' \in [Domains -> Nat] /\ domainsInventory' \in Inventory
    BY <1>2, <1>5 DEF KnowState, DomainTyped, ManagerTyped, Inventory
  <2>2. DomainTyped' /\ ManagerTyped'
    BY <1>5, <2>1 DEF HandleCurrentState, DomainTyped, ManagerTyped
  <2>3. ReportTyped'
    BY <1>5, <2>1 DEF ReportChange, NotifyLater, Publish, ReportTyped, reportVars
  <2> QED
    BY <1>3, <2>2, <2>3, UnchangedTyped DEF Types, HandleCurrentState
<1> QED
  BY <1>4, <1>5 DEF HandleCurrentState


LEMMA AgentStepTyped ==
    ASSUME TypeOKState, NEW d \in Domains, StateChanges(d) \/ AgentReplies(d)
    PROVE  Types'
<1>0. AgentTyped /\ CommandTyped /\ DomainTyped /\ ManagerTyped /\ ReportTyped
  BY TypesByComponent DEF Types
<1> USE <1>0
<1>1. CASE StateChanges(d)
  <2>1. installed' \in Inventory
    BY <1>1, Constants DEF StateChanges, AgentTyped, Inventory, Version
  <2>2. messages' \in [Domains -> Seq(StateMessage)] /\ clock' \in [Domains -> Nat]
    BY <1>1, <2>1, ReportStateEffect DEF StateChanges
  <2>3. AgentTyped'
    BY <1>1, <2>1, <2>2 DEF StateChanges, AgentTyped
  <2> QED
    BY <1>1, <2>3, UnchangedTyped DEF Types, StateChanges
<1>2. CASE AgentReplies(d)
  <2>1. requests[d] \in Seq(Getters) /\ requests[d] # <<>>
    BY <1>2 DEF AgentReplies, AgentTyped
  <2>2. Head(requests[d]) \in Getters /\ Tail(requests[d]) \in Seq(Getters)
    BY <2>1, TailElements
  <2>3. installed' \in Inventory /\ requests' \in [Domains -> Seq(Getters)]
    BY <1>2, <2>2 DEF AgentReplies, AgentTyped
  <2>4. messages' \in [Domains -> Seq(StateMessage)] /\ clock' \in [Domains -> Nat]
    BY <1>2, <2>2, <2>3, ReportStateEffect DEF AgentReplies
  <2>5. AgentTyped'
    BY <1>2, <2>3, <2>4 DEF AgentReplies, AgentTyped
  <2> QED
    BY <1>2, <2>5, UnchangedTyped DEF Types, AgentReplies
<1> QED
  BY <1>1, <1>2

LEMMA ReportStepTyped ==
    ASSUME TypeOKState, ReportStep
    PROVE  Types'
<1>0. AgentTyped /\ CommandTyped /\ DomainTyped /\ ManagerTyped /\ ReportTyped
  BY TypesByComponent DEF Types
<1> USE <1>0
<1>1. CASE NotifyEvent
  <2>1. ReportTyped'
    BY <1>1 DEF NotifyEvent, Publish, ReportTyped
  <2> QED
    BY <1>1, <2>1, UnchangedTyped DEF Types, NotifyEvent
<1>2. CASE ReportApplied
  <2>1. ReportTyped'
    BY <1>2, Constants DEF ReportApplied, Publish, stopNotifier, ReportTyped, ManagerTyped
  <2>2. ManagerTyped'
    BY <1>2 DEF ReportApplied, ManagerTyped
  <2> QED
    BY <1>2, <2>1, <2>2, UnchangedTyped DEF Types, ReportApplied
<1>3. ASSUME NEW g \in Getters, StopNotifier(g)
      PROVE  Types'
  <2>1. ReportTyped'
    BY <1>3, Constants DEF StopNotifier, stopNotifier, ReportTyped
  <2>2. ManagerTyped'
    BY <1>3 DEF StopNotifier, ManagerTyped
  <2> QED
    BY <1>3, <2>1, <2>2, UnchangedTyped DEF Types, StopNotifier
<1>4. ASSUME NEW g \in Getters, SendCurrentState(g)
      PROVE  Types'
  <2>1. ReportTyped'
    BY <1>4 DEF SendCurrentState, Publish, ReportTyped, ManagerTyped
  <2>2. ManagerTyped'
    BY <1>4 DEF SendCurrentState, ManagerTyped
  <2> QED
    BY <1>4, <2>1, <2>2, UnchangedTyped DEF Types, SendCurrentState
<1> QED
  BY <1>1, <1>2, <1>3, <1>4 DEF ReportStep

\* TypeOKState is preserved by every step
LEMMA StepTyped ==
    ASSUME TypeOKState, ChannelInv, [NextState]_stateVars
    PROVE  Types'
<1>0. AgentTyped /\ CommandTyped /\ DomainTyped /\ ManagerTyped /\ ReportTyped
  BY TypesByComponent DEF Types
<1> USE <1>0
<1>1. CASE ReportStep
  BY <1>1, ReportStepTyped
<1>2. CASE CancelContext
  <2>1. AgentTyped'
    BY <1>2 DEF CancelContext, AgentTyped
  <2> QED
    BY <1>2, <2>1, UnchangedTyped DEF Types, CancelContext
<1>3. CASE HandleCommandSignal
  <2>1. issued' \in 0..MaxCommands
    BY <1>3, Constants DEF HandleCommandSignal, CommandTyped
  <2>2. CommandTyped'
    BY <1>3, <2>1 DEF HandleCommandSignal, CommandTyped
  <2> QED
    BY <1>3, <2>2, UnchangedTyped DEF Types, HandleCommandSignal, commandUnchanged
<1>4. CASE ReceiveFeedback
  <2>1. CommandTyped'
    BY <1>4 DEF ReceiveFeedback, CommandTyped
  <2> QED
    BY <1>4, <2>1, UnchangedTyped DEF Types, ReceiveFeedback, commandUnchanged
<1>5. CASE HandleDesiredStateFeedback
  <2>1. CommandTyped'
    BY <1>5 DEF HandleDesiredStateFeedback, CommandTyped
  <2> QED
    BY <1>5, <2>1, UnchangedTyped DEF Types, HandleDesiredStateFeedback, commandUnchanged
<1>6. ASSUME NEW g \in Getters, Get(g)
      PROVE  Types'
  <2>1. ManagerTyped'
    BY <1>6 DEF Get, ManagerTyped, AgentTyped
  <2> QED
    BY <1>6, <2>1, UnchangedTyped DEF Types, Get
<1>7. ASSUME NEW d \in Domains, SendReply(d)
      PROVE  Types'
  <2>1. DomainTyped'
    BY <1>7 DEF SendReply, DomainTyped
  <2> QED
    BY <1>7, <2>1, UnchangedTyped DEF Types, SendReply
<1>8. ASSUME NEW d \in Domains, Command(d)
      PROVE  Types'
  <2>1. CommandTyped'
    BY <1>8 DEF Command, CommandTyped
  <2> QED
    BY <1>8, <2>1, UnchangedTyped DEF Types, Command, commandUnchanged
<1>9. CASE UNCHANGED stateVars
  BY <1>9, UnchangedTyped DEF Types, stateVars
<1> QED
  BY <1>1, <1>2, <1>3, <1>4, <1>5, <1>6, <1>7, <1>8, <1>9, AgentStepTyped, GetTyped,
     HandleCurrentStateTyped DEF NextState

-----------------------------------------------------------------------------
(* The channel of the answer *)

\* ChannelInv is preserved by every step: a channel is dropped by LeaveGet alone, which
\* needs currentStateLock, and so waits for a HandleCurrentState that is still to send
LEMMA StepChannel ==
    ASSUME TypeOKState, ChannelInv, [NextState]_stateVars
    PROVE  ChannelInv'
<1>0. DomainTyped
  BY TypesByComponent DEF Types
<1>1. CASE UNCHANGED domainVars
  BY <1>1 DEF ChannelInv, ChannelOutlivesSender, domainVars
<1>2. ASSUME NEW d \in Domains, HandleCurrentState(d)
      PROVE  ChannelInv'
  <2>1. \A e \in sending' : e = d /\ expActivityID[d] # None
    BY <1>2 DEF HandleCurrentState, routerFree
  <2> QED
    BY <1>2, <2>1 DEF ChannelInv, ChannelOutlivesSender, HandleCurrentState
<1>3. ASSUME NEW d \in Domains, SendReply(d)
      PROVE  ChannelInv'
  BY <1>0, <1>3 DEF ChannelInv, ChannelOutlivesSender, SendReply, DomainTyped
<1>4. ASSUME NEW d \in Domains, NEW g \in Getters, SendCurrentStateGet(g, d)
      PROVE  ChannelInv'
  BY <1>0, <1>4, Constants DEF ChannelInv, ChannelOutlivesSender, SendCurrentStateGet, DomainTyped
<1>5. ASSUME NEW d \in Domains, ReceiveReply(d) \/ ReadTimeout(d) \/ GetCancelled(d)
      PROVE  ChannelInv'
  BY <1>0, <1>5 DEF ChannelInv, ChannelOutlivesSender, ReceiveReply, ReadTimeout, GetCancelled, DomainTyped
<1>6. ASSUME NEW d \in Domains, LeaveGet(d)
      PROVE  ChannelInv'
  BY <1>0, <1>6 DEF ChannelInv, ChannelOutlivesSender, LeaveGet, leaveUnchanged, DomainTyped
<1>7. ReportStep \/ CancelContext \/ HandleCommandSignal \/ ReceiveFeedback \/ HandleDesiredStateFeedback
        => UNCHANGED domainVars
  BY DEF ReportStep, NotifyEvent, ReportApplied, StopNotifier, SendCurrentState, CancelContext,
         HandleCommandSignal, ReceiveFeedback, HandleDesiredStateFeedback, commandUnchanged
<1>8. /\ \A g \in Getters : Get(g) => UNCHANGED domainVars
      /\ \A d \in Domains : StateChanges(d) \/ AgentReplies(d) \/ Command(d) => UNCHANGED domainVars
      /\ UNCHANGED stateVars => UNCHANGED domainVars
  BY DEF Get, StateChanges, AgentReplies, Command, commandUnchanged, stateVars
<1> QED
  BY <1>1, <1>2, <1>3, <1>4, <1>5, <1>6, <1>7, <1>8 DEF NextState, GetStep

LEMMA InitTyped == InitState => TypeOKState /\ ChannelInv
<1> SUFFICES ASSUME InitState
             PROVE  TypeOKState /\ ChannelInv
  OBVIOUS
<1> USE Constants
<1>1. <<>> \in Seq(Getters) /\ <<>> \in Seq(StateMessage)
  BY EmptySeq
<1>2. 0 \in 0..MaxDuplicates /\ 0 \in 0..MaxCommands
  OBVIOUS
<1>3. AgentTyped /\ CommandTyped
  <2>1. installed \in Inventory
    BY DEF InitState, Inventory
  <2>2. requests \in [Domains -> Seq(Getters)] /\ messages \in [Domains -> Seq(StateMessage)]
    BY <1>1 DEF InitState
  <2>3. clock \in [Domains -> Nat]
    BY DEF InitState
  <2> QED
    BY <1>2, <2>1, <2>2, <2>3, Zenon DEF InitState, AgentTyped, CommandTyped
<1>4. DomainTyped
  <2>1. managerLock \in [Domains -> Getters \cup {"free"}] /\ waiting \in [Domains -> BOOLEAN]
    BY DEF InitState
  <2>2. expActivityID \in [Domains -> Getters \cup {None}] /\ receiveChan \in [Domains -> {"nil", "empty", "full"}]
    BY DEF InitState
  <2>3. \A d \in Domains : receiveChan[d] = "nil" <=> managerLock[d] = "free"
    BY DEF InitState
  <2>4. inventory \in Inventory /\ timestamp \in [Domains -> Nat] /\ sending \subseteq Domains
    BY DEF InitState
  <2> QED
    BY <2>1, <2>2, <2>3, <2>4 DEF DomainTyped
<1>5. ManagerTyped
  BY DEF InitState, ManagerTyped
<1>6. ReportTyped
  BY DEF InitState, ReportTyped
<1>7. ChannelInv
  BY DEF InitState, ChannelInv, ChannelOutlivesSender
<1> QED
  BY <1>3, <1>4, <1>5, <1>6, <1>7, TypesByComponent DEF Types

\* Types and channels, together: the inductive invariant of what follows.
THEOREM ChannelInvariant == SpecState => [](TypeOKState /\ ChannelInv)
<1>1. TypeOKState /\ ChannelInv /\ [NextState]_stateVars => (TypeOKState /\ ChannelInv)'
  <2>1. TypeOKState /\ ChannelInv /\ [NextState]_stateVars => Types'
    BY StepTyped
  <2>2. TypeOKState /\ ChannelInv /\ [NextState]_stateVars => ChannelInv'
    BY StepChannel
  <2>3. Types' => TypeOKState'
    BY DEF TypeOKState, Types, AgentTyped, CommandTyped, DomainTyped, ManagerTyped, ReportTyped
  <2> QED
    BY <2>1, <2>2, <2>3
<1> QED
  BY InitTyped, <1>1, PTL DEF SpecState

\* The variables of the collection of the current state keep their types.
THEOREM StateTypeCorrect == SpecState => []TypeOKState
  BY ChannelInvariant, PTL

\* HandleCurrentState (update_manager_handler.go) never sends to a channel that
\* Get has dropped, for any number of requests, timeouts and messages.
THEOREM ChannelOutlivesSenderHolds == SpecState => []ChannelOutlivesSender
<1>1. ChannelInv => ChannelOutlivesSender
  BY DEF ChannelInv
<1> QED
  BY ChannelInvariant, <1>1, PTL

-----------------------------------------------------------------------------
(* The order of the states of a domain *)

\* what OrderInv speaks of
orderVars == <<installed, messages, clock, inventory, timestamp, domainsInventory>>

\* a state reported by an agent is the newest in both respects, time and version
LEMMA AgentStepOrder ==
    ASSUME TypeOKState, OrderInv, NEW d \in Domains, StateChanges(d) \/ AgentReplies(d)
    PROVE  OrderInv'
<1>0. /\ AgentTyped /\ DomainTyped /\ ManagerTyped
      /\ UNCHANGED <<inventory, timestamp, domainsInventory>>
  BY TypesByComponent DEF Types, StateChanges, AgentReplies, domainVars, managerVars
<1>1. /\ installed' \in Inventory
      /\ \A e \in Domains : installed[e] \in Nat /\ installed'[e] \in Nat /\ installed[e] <= installed'[e]
  <2>1. \A e \in Domains : installed[e] \in 0..MaxVersion
    BY <1>0 DEF AgentTyped, Inventory, Version
  <2>2. CASE StateChanges(d)
    BY <1>0, <2>1, <2>2, Constants, SMTT(60) DEF StateChanges, AgentTyped, Inventory, Version
  <2>3. CASE UNCHANGED installed
    BY <1>0, <2>1, <2>3, Constants DEF AgentTyped
  <2> QED
    BY <2>2, <2>3 DEF AgentReplies
<1>2. PICK id \in Getters \cup {None} : ReportState(d, id)
  <2>1. CASE StateChanges(d)
    BY <2>1 DEF StateChanges
  <2>2. CASE AgentReplies(d)
    <3>1. requests[d] \in Seq(Getters) /\ requests[d] # <<>>
      BY <1>0, <2>2 DEF AgentReplies, AgentTyped
    <3> QED
      BY <2>2, <3>1, TailElements DEF AgentReplies
  <2> QED
    BY <2>1, <2>2
<1>3. /\ \A e \in Domains : e # d => clock'[e] = clock[e]
      /\ clock'[d] = clock[d] + 1
      /\ messages' \in [Domains -> Seq(StateMessage)]
      /\ \A e \in Domains : \A m \in Sent(e)' :
           m \in Sent(e) \/ (e = d /\ m.version = installed'[d] /\ m.time = clock'[d])
  BY <1>1, <1>2, ReportStateEffect
<1> SUFFICES ASSUME NEW e \in Domains
             PROVE  /\ inventory[e] <= installed'[e]
                    /\ \A m \in Sent(e)' : m.time <= clock'[e] /\ m.version <= installed'[e]
                    /\ \A m, n \in Sent(e)' : m.time <= n.time => m.version <= n.version
                    /\ inventory[e] # 0 => \A m \in Sent(e)' : timestamp[e] <= m.time => inventory[e] <= m.version
  BY <1>0 DEF OrderInv
<1>4. /\ clock[e] \in Nat /\ clock'[e] \in Nat /\ clock[e] <= clock'[e] /\ inventory[e] \in Nat /\ timestamp[e] \in Nat
      /\ e = d => clock'[e] = clock[e] + 1
  BY <1>0, <1>3, SMTT(60) DEF AgentTyped, DomainTyped, Inventory, Version
<1>5. \A m \in Sent(e) : m.time \in Nat /\ m.version \in Nat
  <2>1. messages[e] \in Seq(StateMessage)
    BY <1>0 DEF AgentTyped
  <2>2. \A m \in Sent(e) : m \in StateMessage
    BY <2>1, ElementOfSeq, LenProperties DEF Sent
  <2> QED
    BY <2>2 DEF StateMessage, Version
<1>6. inventory[e] <= installed'[e]
  BY <1>1, <1>4 DEF OrderInv
<1>7. ASSUME NEW m \in Sent(e)'
      PROVE  /\ m.time \in Nat /\ m.version \in Nat
             /\ m.time <= clock'[e] /\ m.version <= installed'[e]
             /\ (m \in Sent(e) /\ m.time <= clock[e] /\ m.version <= installed[e])
                  \/ (e = d /\ m.version = installed'[e] /\ m.time = clock[e] + 1)
             /\ inventory[e] # 0 /\ timestamp[e] <= m.time => inventory[e] <= m.version
  <2>1. CASE m \in Sent(e)
    BY <1>1, <1>4, <1>5, <2>1 DEF OrderInv
  <2>2. CASE e = d /\ m.version = installed'[d] /\ m.time = clock'[d]
    BY <1>1, <1>4, <1>6, <2>2
  <2> QED
    BY <1>3, <2>1, <2>2
<1>8. ASSUME NEW m \in Sent(e)', NEW n \in Sent(e)', m.time <= n.time
      PROVE  m.version <= n.version
  <2>1. CASE m \in Sent(e) /\ n \in Sent(e)
    BY <1>8, <2>1 DEF OrderInv
  <2>2. CASE n.version = installed'[e]
    BY <1>7, <2>2
  <2>3. CASE m.time = clock[e] + 1 /\ n.time <= clock[e]
    BY <1>4, <1>7, <1>8, <2>3
  <2> QED
    BY <1>7, <2>1, <2>2, <2>3
<1> QED
  BY <1>6, <1>7, <1>8

\* a message is taken for what is known only if it is no older, and then it is no lower
LEMMA HandleCurrentStateOrder ==
    ASSUME TypeOKState, OrderInv, NEW d \in Domains, HandleCurrentState(d)
    PROVE  /\ OrderInv'
           /\ \A e \in Domains : domainsInventory'[e] >= domainsInventory[e]
<1>0. AgentTyped /\ DomainTyped /\ ManagerTyped /\ UNCHANGED <<installed, clock>>
  BY TypesByComponent DEF Types, HandleCurrentState
<1> DEFINE m == Head(messages[d])
<1>1. m \in StateMessage /\ m \in Sent(d) /\ \A e \in Domains : \A n \in Sent(e)' : n \in Sent(e)
  BY TakeMessageEffect DEF HandleCurrentState
<1>2. m.version \in Nat /\ m.time \in Nat
  BY <1>1 DEF StateMessage, Version
<1>3. \A e \in Domains : inventory[e] \in Nat /\ timestamp[e] \in Nat
  BY <1>0 DEF DomainTyped, Inventory, Version
<1>4. CASE UNCHANGED <<inventory, timestamp, domainsInventory>>
  <2>1. \A e \in Domains : domainsInventory'[e] >= domainsInventory[e]
    BY <1>3, <1>4 DEF OrderInv
  <2> QED
    BY <1>0, <1>1, <1>4, <2>1 DEF OrderInv
<1>5. CASE ~Outdated(d, m) /\ KnowState(d, m)
  <2> HIDE DEF m
  <2>1. /\ inventory'[d] = m.version /\ timestamp'[d] = m.time /\ domainsInventory'[d] = m.version
        /\ \A e \in Domains : e # d => /\ inventory'[e] = inventory[e] /\ timestamp'[e] = timestamp[e]
                                       /\ domainsInventory'[e] = domainsInventory[e]
    BY <1>0, <1>5 DEF KnowState, DomainTyped, ManagerTyped, Inventory
  <2>2. inventory[d] <= m.version
    BY <1>1, <1>2, <1>3, <1>5 DEF Outdated, OrderInv
  <2>3. \A e \in Domains : domainsInventory'[e] >= domainsInventory[e]
    BY <1>2, <1>3, <2>1, <2>2 DEF OrderInv
  <2>4. ASSUME NEW e \in Domains
        PROVE  /\ domainsInventory'[e] = inventory'[e]
               /\ inventory'[e] <= installed[e]
               /\ inventory'[e] # 0 => \A n \in Sent(e)' : timestamp'[e] <= n.time => inventory'[e] <= n.version
    <3>1. CASE e = d
      BY <1>1, <2>1, <3>1 DEF OrderInv
    <3>2. CASE e # d
      BY <1>1, <2>1, <3>2 DEF OrderInv
    <3> QED
      BY <3>1, <3>2
  <2>5. OrderInv'
    BY <1>0, <1>1, <2>4 DEF OrderInv
  <2> QED
    BY <2>3, <2>5
<1> QED
  BY <1>4, <1>5 DEF HandleCurrentState

LEMMA StepOrder ==
    ASSUME TypeOKState, OrderInv, [NextState]_stateVars
    PROVE  /\ OrderInv'
           /\ \A e \in Domains : domainsInventory'[e] >= domainsInventory[e]
<1>1. \A e \in Domains : domainsInventory[e] \in Nat
  BY TypesByComponent DEF Types, ManagerTyped, Inventory, Version
<1>2. CASE UNCHANGED orderVars
  <2>1. OrderInv'
    BY <1>2 DEF OrderInv, Sent, orderVars
  <2> QED
    BY <1>1, <1>2, <2>1 DEF orderVars
<1>3. ASSUME NEW d \in Domains, StateChanges(d) \/ AgentReplies(d)
      PROVE  OrderInv' /\ \A e \in Domains : domainsInventory'[e] >= domainsInventory[e]
  <2>1. UNCHANGED domainsInventory
    BY <1>3 DEF StateChanges, AgentReplies, managerVars
  <2> QED
    BY <1>1, <1>3, <2>1, AgentStepOrder
<1>4. ReportStep \/ CancelContext \/ HandleCommandSignal \/ ReceiveFeedback \/ HandleDesiredStateFeedback
        => UNCHANGED orderVars
  BY DEF ReportStep, NotifyEvent, ReportApplied, StopNotifier, SendCurrentState, CancelContext,
         HandleCommandSignal, ReceiveFeedback, HandleDesiredStateFeedback, commandUnchanged,
         orderVars, agentVars, domainVars, managerVars
<1>5. \A d \in Domains : GetStep(d) \/ ReadTimeout(d) \/ SendReply(d) \/ Command(d) => UNCHANGED orderVars
  BY DEF GetStep, ReadTimeout, ReceiveReply, GetCancelled, LeaveGet, leaveUnchanged, SendCurrentStateGet,
         SendReply, Command, commandUnchanged, orderVars, agentVars, domainVars, managerVars
<1>6. /\ \A g \in Getters : Get(g) => UNCHANGED orderVars
      /\ UNCHANGED stateVars => UNCHANGED orderVars
  BY DEF Get, stateVars, orderVars, agentVars, domainVars, managerVars
<1> QED
  BY <1>2, <1>3, <1>4, <1>5, <1>6, HandleCurrentStateOrder DEF NextState

\* Timestamps order the states of a domain as they were installed, in every reachable state.
THEOREM OrderInvariant == SpecState => []OrderInv
<1>1. InitState => OrderInv
  <2> SUFFICES ASSUME InitState, NEW d \in Domains
               PROVE  /\ domainsInventory[d] = inventory[d] /\ inventory[d] = 0 /\ installed[d] = 1
                      /\ Sent(d) = {}
    <3>1. 0 <= 1 /\ ~(0 # 0)
      OBVIOUS
    <3> QED
      BY <3>1, Zenon DEF OrderInv
  <2>1. messages[d] = <<>> /\ DOMAIN messages[d] = {}
    BY DEF InitState
  <2> QED
    BY <2>1 DEF InitState, Unknown, Sent
<1>2. TypeOKState /\ OrderInv /\ [NextState]_stateVars => OrderInv'
  BY StepOrder
<1> QED
  BY <1>1, <1>2, StateTypeCorrect, PTL DEF SpecState

\* The state known of a domain is never replaced by an older one, however many messages
\* of its agent are delivered twice or late (update_manager_handler.go:47).
THEOREM KnownNeverGoesBackHolds == SpecState => KnownNeverGoesBack
<1>1. TypeOKState /\ OrderInv /\ [NextState]_stateVars
        => [\A d \in Domains : domainsInventory'[d] >= domainsInventory[d]]_stateVars
  BY StepOrder
<1> QED
  BY <1>1, StateTypeCorrect, OrderInvariant, PTL DEF SpecState, KnownNeverGoesBack

-----------------------------------------------------------------------------
(* Answers that are current *)

\* the router is not kept from delivering by a request or a feedback it handles itself
routerDelivers == ~routerGets /\ ~feedback

\* who has been asked, and has not been asked any more, has begun
BegunInv ==
    /\ \A g \in Getters : getter[g] \in {"idle", "reporting", "done"} => open[g] = {}
    /\ \A d \in Domains : managerLock[d] # "free" => getter[managerLock[d]] # "idle"
    /\ \A d \in Domains : expActivityID[d] # None => expActivityID[d] = managerLock[d]
    /\ \A d \in Domains : \A i \in DOMAIN requests[d] : getter[requests[d][i]] # "idle"
    /\ \A g \in Getters : getter[g] # "idle" => \A d \in Domains : asOf[g][d] <= installed[d]

\* an answer is as current as the request it is to, and known before it is handed over
AnsweredInv ==
    /\ \A d \in Domains : \A m \in Sent(d) : m.id # None => getter[m.id] # "idle" /\ m.version >= asOf[m.id][d]
    /\ \A d \in Domains : d \in sending \/ receiveChan[d] = "full" =>
         managerLock[d] # "free" /\ inventory[d] >= asOf[managerLock[d]][d]

\* what has been collected for a request is as current as the request
CollectedInv ==
    \A g \in Getters \ excused : \A d \in Domains :
        (getter[g] # "idle" /\ d \notin open[g]) \/ (managerLock[d] = g /\ ~waiting[d]) =>
            collected[g][d] >= asOf[g][d]

CurrentInv == BegunInv /\ AnsweredInv /\ CollectedInv

\* what CurrentInv is about, typed
LEMMA CurrentFacts ==
    ASSUME TypeOKState
    PROVE  /\ \A g \in Getters : \A d \in Domains : asOf[g][d] \in Nat /\ collected[g][d] \in Nat
           /\ \A d \in Domains : inventory[d] \in Nat /\ installed[d] \in Nat /\ domainsInventory[d] \in Nat
           /\ None \notin Getters /\ "free" \notin Getters
           /\ managerLock \in [Domains -> Getters \cup {"free"}] /\ waiting \in [Domains -> BOOLEAN]
           /\ expActivityID \in [Domains -> Getters \cup {None}]
           /\ receiveChan \in [Domains -> {"nil", "empty", "full"}]
           /\ getter \in [Getters -> {"idle", "collecting", "reporting", "done"}]
           /\ open \in [Getters -> SUBSET Domains] /\ requests \in [Domains -> Seq(Getters)]
           /\ \A d \in Domains : \A m \in Sent(d) : m \in StateMessage
<1>1. Types
  BY TypesByComponent
<1>2. /\ \A g \in Getters : \A d \in Domains : asOf[g][d] \in Nat /\ collected[g][d] \in Nat
      /\ \A d \in Domains : inventory[d] \in Nat /\ installed[d] \in Nat /\ domainsInventory[d] \in Nat
  BY <1>1 DEF Types, AgentTyped, DomainTyped, ManagerTyped, Inventory, Version
<1>3. None \notin Getters /\ "free" \notin Getters
  BY CurrentStateAssumption DEF AllGetters, None
<1>4. \A d \in Domains : \A m \in Sent(d) : m \in StateMessage
  <2>1. \A d \in Domains : messages[d] \in Seq(StateMessage)
    BY <1>1 DEF Types, AgentTyped
  <2> QED
    BY <2>1, ElementOfSeq, LenProperties DEF Sent
<1> QED
  BY <1>1, <1>2, <1>3, <1>4 DEF Types, AgentTyped, DomainTyped, ManagerTyped

\* steps that leave what is asked, known and collected alone
aside ==
    /\ UNCHANGED <<installed, requests, messages, managerLock, waiting, expActivityID, receiveChan, inventory,
                   sending, open, collected, asOf, excused>>
    /\ \A g \in Getters : /\ getter'[g] = "idle" <=> getter[g] = "idle"
                          /\ getter'[g] \in {"reporting", "done"} => getter[g] \in {"reporting", "done"} \/ open[g] = {}

LEMMA AsideSteps ==
    ASSUME TypeOKState, CurrentInv, aside
    PROVE  CurrentInv'
<1> USE DEF aside
<1>1. /\ \A g \in Getters : getter'[g] = "idle" <=> getter[g] = "idle"
      /\ \A d \in Domains : managerLock[d] # "free" => managerLock[d] \in Getters
      /\ \A d \in Domains : \A i \in DOMAIN requests[d] : requests[d][i] \in Getters
      /\ \A d \in Domains : \A m \in Sent(d) : m.id # None => m.id \in Getters
  <2>1. \A d \in Domains : \A m \in Sent(d) : m.id \in Getters \cup {None}
    BY CurrentFacts DEF StateMessage
  <2>2. \A d \in Domains : \A i \in DOMAIN requests[d] : requests[d][i] \in Getters
    <3>1. \A d \in Domains : requests[d] \in Seq(Getters)
      BY CurrentFacts
    <3> QED
      BY <3>1, ElementOfSeq, LenProperties
  <2> QED
    BY <2>1, <2>2, CurrentFacts
<1>2. BegunInv'
  BY <1>1 DEF CurrentInv, BegunInv
<1>3. AnsweredInv'
  <2>1. \A d \in Domains : Sent(d)' = Sent(d)
    BY DEF Sent
  <2> QED
    BY <1>1, <2>1 DEF CurrentInv, AnsweredInv
<1>4. CollectedInv'
  BY <1>1 DEF CurrentInv, CollectedInv
<1> QED
  BY <1>2, <1>3, <1>4 DEF CurrentInv

LEMMA AsideActions ==
    ASSUME TypeOKState,
           \/ ReportStep \/ CancelContext \/ HandleCommandSignal \/ ReceiveFeedback \/ HandleDesiredStateFeedback
           \/ \E d \in Domains : Command(d)
           \/ UNCHANGED stateVars
    PROVE  aside
<1>0. getter \in [Getters -> {"idle", "collecting", "reporting", "done"}]
  BY CurrentFacts
<1>1. UNCHANGED <<agentVars, domainVars>> \/ CancelContext
  BY Zenon
     DEF ReportStep, NotifyEvent, ReportApplied, StopNotifier, SendCurrentState, HandleCommandSignal,
         ReceiveFeedback, HandleDesiredStateFeedback, Command, commandUnchanged, stateVars
<1>2. UNCHANGED <<installed, requests, messages, managerLock, waiting, expActivityID, receiveChan, inventory, sending>>
  BY <1>1, Zenon DEF CancelContext, agentVars, domainVars
<1>3. UNCHANGED <<open, collected, asOf, excused>>
  BY Zenon
     DEF ReportStep, NotifyEvent, ReportApplied, StopNotifier, SendCurrentState, CancelContext, HandleCommandSignal,
         ReceiveFeedback, HandleDesiredStateFeedback, Command, commandUnchanged, stateVars, managerVars
<1>4. \A g \in Getters : /\ getter'[g] = "idle" <=> getter[g] = "idle"
                         /\ getter'[g] \in {"reporting", "done"} => getter[g] \in {"reporting", "done"} \/ open[g] = {}
  <2>1. CASE UNCHANGED getter
    BY <2>1
  <2>2. CASE ReportStep /\ ~UNCHANGED getter
    BY <1>0, <2>2 DEF ReportStep, NotifyEvent, ReportApplied, StopNotifier, SendCurrentState, collectedAll, managerVars
  <2>3. ReportStep \/ UNCHANGED getter
    BY Zenon
       DEF CancelContext, HandleCommandSignal, ReceiveFeedback, HandleDesiredStateFeedback, Command,
           commandUnchanged, stateVars, managerVars
  <2> QED
    BY <2>1, <2>2, <2>3
<1> QED
  BY <1>2, <1>3, <1>4 DEF aside

\* a request begins with what is known, and is to be as current as what is installed
LEMMA GetCurrent ==
    ASSUME TypeOKState, CurrentInv, NEW g \in Getters, Get(g)
    PROVE  CurrentInv'
<1> USE CurrentFacts
<1>1. UNCHANGED <<installed, requests, messages, managerLock, waiting, expActivityID, receiveChan, inventory,
                  sending, excused>>
  BY Zenon DEF Get, agentVars, domainVars
<1>2. /\ getter[g] = "idle" /\ getter'[g] = "collecting" /\ open'[g] = Domains
      /\ \A d \in Domains : asOf'[g][d] = installed[d]
      /\ \A h \in Getters : h # g => /\ getter'[h] = getter[h] /\ open'[h] = open[h]
                                     /\ collected'[h] = collected[h] /\ asOf'[h] = asOf[h]
  BY TypesByComponent DEF Get, Types, ManagerTyped
<1>3. /\ \A d \in Domains : managerLock[d] # g
      /\ \A d \in Domains : \A i \in DOMAIN requests[d] : requests[d][i] # g
      /\ \A d \in Domains : \A m \in Sent(d) : m.id # g
  BY <1>2 DEF CurrentInv, BegunInv, AnsweredInv
<1>4. /\ \A d \in Domains : managerLock[d] # "free" => managerLock[d] \in Getters
      /\ \A d \in Domains : \A i \in DOMAIN requests[d] : requests[d][i] \in Getters
      /\ \A d \in Domains : \A m \in Sent(d) : m.id # None => m.id \in Getters
  <2>1. \A d \in Domains : \A m \in Sent(d) : m.id \in Getters \cup {None}
    BY DEF StateMessage
  <2>2. \A d \in Domains : \A i \in DOMAIN requests[d] : requests[d][i] \in Getters
    <3>1. \A d \in Domains : requests[d] \in Seq(Getters)
      OBVIOUS
    <3> QED
      BY <3>1, ElementOfSeq, LenProperties
  <2> QED
    BY <2>1, <2>2
<1>5. BegunInv'
  <2>1. \A h \in Getters : getter'[h] # "idle" => \A d \in Domains : asOf'[h][d] <= installed'[d]
    BY <1>1, <1>2, SMTT(60) DEF CurrentInv, BegunInv
  <2> QED
    BY <1>1, <1>2, <1>3, <1>4, <2>1 DEF CurrentInv, BegunInv
<1>6. AnsweredInv'
  <2>1. \A d \in Domains : Sent(d)' = Sent(d)
    BY <1>1 DEF Sent
  <2>2. \A d \in Domains : \A m \in Sent(d) : m.id # None => getter'[m.id] # "idle" /\ m.version >= asOf'[m.id][d]
    <3> SUFFICES ASSUME NEW d \in Domains, NEW m \in Sent(d), m.id # None
                 PROVE  getter'[m.id] # "idle" /\ m.version >= asOf'[m.id][d]
      OBVIOUS
    <3>1. getter[m.id] # "idle" /\ m.version >= asOf[m.id][d]
      BY DEF CurrentInv, AnsweredInv
    <3>2. getter'[m.id] = getter[m.id] /\ asOf'[m.id] = asOf[m.id]
      BY <1>2, <1>3, <1>4
    <3> QED
      BY <3>1, <3>2
  <2>3. \A d \in Domains : d \in sending \/ receiveChan[d] = "full" =>
          managerLock[d] # "free" /\ inventory[d] >= asOf'[managerLock[d]][d]
    <3>1. \A d \in Domains : managerLock[d] # "free" => asOf'[managerLock[d]] = asOf[managerLock[d]]
      BY <1>2, <1>3, <1>4
    <3> QED
      BY <3>1 DEF CurrentInv, AnsweredInv
  <2> QED
    BY <1>1, <2>1, <2>2, <2>3 DEF AnsweredInv
<1>7. CollectedInv'
  <2> SUFFICES ASSUME NEW h \in Getters \ excused, NEW d \in Domains,
                      (getter'[h] # "idle" /\ d \notin open'[h]) \/ (managerLock[d] = h /\ ~waiting[d])
               PROVE  collected'[h][d] >= asOf'[h][d]
    BY <1>1 DEF CollectedInv
  <2>1. h # g
    BY <1>2, <1>3
  <2>2. getter'[h] = getter[h] /\ open'[h] = open[h] /\ collected'[h] = collected[h] /\ asOf'[h] = asOf[h]
    BY <1>2, <2>1
  <2> QED
    BY <2>2 DEF CurrentInv, CollectedInv
<1> QED
  BY <1>5, <1>6, <1>7 DEF CurrentInv

\* an agent answers with what is installed by then
LEMMA AgentStepCurrent ==
    ASSUME TypeOKState, CurrentInv, NEW d \in Domains, StateChanges(d) \/ AgentReplies(d)
    PROVE  CurrentInv'
<1> USE CurrentFacts
<1>1. UNCHANGED <<managerLock, waiting, expActivityID, receiveChan, inventory, sending,
                  getter, open, collected, asOf, excused>>
  BY Zenon DEF StateChanges, AgentReplies, domainVars, managerVars
<1>2. installed' \in Inventory /\ \A e \in Domains : installed'[e] \in Nat /\ installed[e] <= installed'[e]
  <2>0. installed \in Inventory
    BY TypesByComponent DEF Types, AgentTyped
  <2>1. CASE StateChanges(d)
    <3>1. installed[d] + 1 \in Version /\ \A e \in Domains : installed[e] \in Version
      BY <2>0, <2>1, Constants DEF StateChanges, Inventory, Version
    <3> QED
      BY <2>0, <2>1, <3>1 DEF StateChanges, Inventory
  <2>2. CASE AgentReplies(d)
    BY <2>0, <2>2 DEF AgentReplies
  <2> QED
    BY <2>1, <2>2
<1>3. PICK id \in Getters \cup {None} :
        /\ ReportState(d, id)
        /\ id # None => getter[id] # "idle"
        /\ \A e \in Domains : \A i \in DOMAIN requests'[e] : \E j \in DOMAIN requests[e] : requests'[e][i] = requests[e][j]
  <2>1. CASE StateChanges(d)
    BY <2>1 DEF StateChanges
  <2>2. CASE AgentReplies(d)
    <3>1. requests[d] \in Seq(Getters) /\ requests[d] # <<>> /\ requests \in [Domains -> Seq(Getters)]
      BY <2>2 DEF AgentReplies
    <3>2. /\ Head(requests[d]) \in Getters
          /\ \E i \in DOMAIN requests[d] : requests[d][i] = Head(requests[d])
          /\ \A i \in DOMAIN Tail(requests[d]) : \E j \in DOMAIN requests[d] : Tail(requests[d])[i] = requests[d][j]
      BY <3>1, TailElements
    <3>3. getter[Head(requests[d])] # "idle"
      BY <3>2 DEF CurrentInv, BegunInv
    <3>4. requests'[d] = Tail(requests[d]) /\ \A e \in Domains : e # d => requests'[e] = requests[e]
      BY <2>2, <3>1 DEF AgentReplies
    <3>5. \A e \in Domains : \A i \in DOMAIN requests'[e] : \E j \in DOMAIN requests[e] : requests'[e][i] = requests[e][j]
      <4> SUFFICES ASSUME NEW e \in Domains, NEW i \in DOMAIN requests'[e]
                   PROVE  \E j \in DOMAIN requests[e] : requests'[e][i] = requests[e][j]
        OBVIOUS
      <4>1. CASE e = d
        BY <3>2, <3>4, <4>1, ZenonT(60)
      <4>2. CASE e # d
        BY <3>4, <4>2
      <4> QED
        BY <4>1, <4>2
    <3>6. ReportState(d, Head(requests[d]))
      BY <2>2 DEF AgentReplies
    <3>7. Head(requests[d]) \in Getters \cup {None}
      BY <3>2
    <3> QED
      BY <3>3, <3>5, <3>6, <3>7, Zenon
  <2> QED
    BY <2>1, <2>2
<1>4. \A e \in Domains : \A m \in Sent(e)' :
        m \in Sent(e) \/ (e = d /\ m.id = id /\ m.version = installed'[d])
  BY <1>2, <1>3, ReportStateEffect
<1>5. BegunInv'
  <2>1. \A e \in Domains : \A i \in DOMAIN requests'[e] : getter[requests'[e][i]] # "idle"
    BY <1>3 DEF CurrentInv, BegunInv
  <2>2. \A g \in Getters : getter[g] # "idle" => \A e \in Domains : asOf[g][e] <= installed'[e]
    <3> SUFFICES ASSUME NEW g \in Getters, getter[g] # "idle", NEW e \in Domains
                 PROVE  asOf[g][e] <= installed'[e]
      OBVIOUS
    <3>1. asOf[g][e] <= installed[e]
      BY DEF CurrentInv, BegunInv
    <3>2. asOf[g][e] \in Nat /\ installed[e] \in Nat /\ installed'[e] \in Nat /\ installed[e] <= installed'[e]
      BY <1>2
    <3> QED
      BY <3>1, <3>2
  <2> QED
    BY <1>1, <2>1, <2>2 DEF CurrentInv, BegunInv
<1>6. AnsweredInv'
  <2>1. id # None => asOf[id][d] <= installed'[d]
    BY <1>1, <1>3, <1>5 DEF BegunInv
  <2>2. \A e \in Domains : \A m \in Sent(e)' : m.id # None => getter[m.id] # "idle" /\ m.version >= asOf[m.id][e]
    <3> SUFFICES ASSUME NEW e \in Domains, NEW m \in Sent(e)', m.id # None
                 PROVE  getter[m.id] # "idle" /\ m.version >= asOf[m.id][e]
      OBVIOUS
    <3>1. CASE m \in Sent(e)
      BY <3>1 DEF CurrentInv, AnsweredInv
    <3>2. CASE e = d /\ m.id = id /\ m.version = installed'[d]
      BY <1>2, <1>3, <2>1, <3>2
    <3> QED
      BY <1>4, <3>1, <3>2
  <2> QED
    BY <1>1, <2>2 DEF CurrentInv, AnsweredInv
<1>7. CollectedInv'
  BY <1>1 DEF CurrentInv, CollectedInv
<1> QED
  BY <1>5, <1>6, <1>7 DEF CurrentInv

\* the answer that is expected is known when it is handed over, and nothing known goes back
LEMMA HandleCurrentStateCurrent ==
    ASSUME TypeOKState, OrderInv, CurrentInv, NEW d \in Domains, HandleCurrentState(d)
    PROVE  CurrentInv'
<1> USE CurrentFacts
<1> DEFINE m == Head(messages[d])
<1>1. UNCHANGED <<installed, requests, managerLock, waiting, expActivityID, receiveChan, getter, open, collected, asOf, excused>>
  BY Zenon DEF HandleCurrentState
<1>2. m \in StateMessage /\ m \in Sent(d) /\ \A e \in Domains : \A n \in Sent(e)' : n \in Sent(e)
  BY TakeMessageEffect DEF HandleCurrentState
<1>3. sending = {} /\ \A e \in Domains : inventory'[e] \in Nat /\ inventory'[e] >= inventory[e]
  <2>1. \A e \in Domains : domainsInventory'[e] >= domainsInventory[e] /\ domainsInventory'[e] = inventory'[e]
                           /\ domainsInventory[e] = inventory[e]
    BY HandleCurrentStateOrder DEF OrderInv
  <2>2. \A e \in Domains : inventory'[e] \in Nat
    <3>1. UNCHANGED inventory \/ inventory' = [inventory EXCEPT ![d] = m.version]
      BY DEF HandleCurrentState, KnowState
    <3>2. inventory \in Inventory /\ m.version \in Nat
      BY <1>2, TypesByComponent DEF Types, DomainTyped, StateMessage, Version
    <3> QED
      BY <3>1, <3>2 DEF Inventory
  <2> QED
    BY <2>1, <2>2 DEF HandleCurrentState, routerFree
<1>4. BegunInv'
  BY <1>1 DEF CurrentInv, BegunInv
<1>5. AnsweredInv'
  <2>1. \A e \in sending' : e = d /\ m.id # None /\ m.id = expActivityID[d] /\ inventory'[d] = m.version
    <3>1. inventory \in Inventory
      BY TypesByComponent DEF Types, DomainTyped
    <3> QED
      BY <1>3, <3>1 DEF HandleCurrentState, KnowState, Inventory
  <2>2. \A e \in Domains : e \in sending' =>
          managerLock[e] # "free" /\ inventory'[e] >= asOf[managerLock[e]][e]
    <3> SUFFICES ASSUME d \in sending'
                 PROVE  managerLock[d] # "free" /\ inventory'[d] >= asOf[managerLock[d]][d]
      BY <2>1
    <3>1. m.id = managerLock[d] /\ m.id \in Getters
      BY <1>2, <2>1 DEF CurrentInv, BegunInv, StateMessage
    <3>2. m.version >= asOf[m.id][d]
      BY <1>2, <2>1 DEF CurrentInv, AnsweredInv
    <3> QED
      BY <2>1, <3>1, <3>2
  <2>3. \A e \in Domains : receiveChan[e] = "full" =>
          managerLock[e] # "free" /\ inventory'[e] >= asOf[managerLock[e]][e]
    <3> SUFFICES ASSUME NEW e \in Domains, receiveChan[e] = "full"
                 PROVE  managerLock[e] # "free" /\ inventory'[e] >= asOf[managerLock[e]][e]
      OBVIOUS
    <3>1. managerLock[e] # "free" /\ inventory[e] >= asOf[managerLock[e]][e]
      BY DEF CurrentInv, AnsweredInv
    <3>2. asOf[managerLock[e]][e] \in Nat
      BY <3>1
    <3> QED
      BY <1>3, <3>1, <3>2
  <2> QED
    BY <1>1, <1>2, <2>2, <2>3 DEF CurrentInv, AnsweredInv
<1>6. CollectedInv'
  BY <1>1 DEF CurrentInv, CollectedInv
<1> QED
  BY <1>4, <1>5, <1>6 DEF CurrentInv

LEMMA SendReplyCurrent ==
    ASSUME TypeOKState, CurrentInv, NEW d \in Domains, SendReply(d)
    PROVE  CurrentInv'
<1>1. UNCHANGED <<installed, requests, messages, managerLock, waiting, expActivityID, inventory, getter, open,
                  collected, asOf, excused>>
  BY Zenon DEF SendReply, agentVars, managerVars
<1>2. /\ d \in sending /\ sending' = {}
      /\ \A e \in Domains : receiveChan'[e] = "full" => receiveChan[e] = "full" \/ e = d
  BY CurrentFacts DEF SendReply
<1>3. BegunInv' /\ CollectedInv'
  BY <1>1 DEF CurrentInv, BegunInv, CollectedInv
<1>4. AnsweredInv'
  <2>1. \A e \in Domains : Sent(e)' = Sent(e)
    BY <1>1 DEF Sent
  <2> QED
    BY <1>1, <1>2, <2>1 DEF CurrentInv, AnsweredInv
<1> QED
  BY <1>3, <1>4 DEF CurrentInv

\* the request is on its way, or the one who asks is told that it is not
LEMMA SendGetCurrent ==
    ASSUME TypeOKState, ChannelInv, CurrentInv, NEW d \in Domains, NEW g \in Getters, SendCurrentStateGet(g, d)
    PROVE  CurrentInv'
<1>0. /\ managerLock \in [Domains -> Getters \cup {"free"}] /\ waiting \in [Domains -> BOOLEAN]
      /\ expActivityID \in [Domains -> Getters \cup {None}]
      /\ receiveChan \in [Domains -> {"nil", "empty", "full"}]
      /\ requests \in [Domains -> Seq(Getters)] /\ "free" \notin Getters /\ None \notin Getters
  BY CurrentFacts
<1>1. UNCHANGED <<installed, messages, inventory, sending, getter, open, collected, asOf>>
  BY Zenon DEF SendCurrentStateGet
<1>2. /\ d \in open[g] /\ managerLock[d] = "free" /\ d \notin sending
      /\ managerLock'[d] = g /\ expActivityID'[d] = g /\ receiveChan'[d] = "empty"
      /\ \A e \in Domains : e # d => /\ managerLock'[e] = managerLock[e] /\ expActivityID'[e] = expActivityID[e]
                                     /\ receiveChan'[e] = receiveChan[e]
  BY <1>0 DEF SendCurrentStateGet
<1>3. /\ excused \subseteq excused' /\ (g \in excused' \/ waiting'[d])
      /\ \A e \in Domains : e # d => waiting'[e] = waiting[e]
  BY <1>0 DEF SendCurrentStateGet
<1>4. \A e \in Domains : \A i \in DOMAIN requests'[e] :
        requests'[e][i] = g \/ \E j \in DOMAIN requests[e] : requests'[e][i] = requests[e][j]
  <2>1. CASE UNCHANGED requests
    BY <2>1
  <2>2. CASE requests' = [requests EXCEPT ![d] = Append(@, g)]
    <3>1. requests[d] \in Seq(Getters)
      BY <1>0
    <3>2. \A i \in DOMAIN Append(requests[d], g) : \/ Append(requests[d], g)[i] = g
            \/ \E j \in DOMAIN requests[d] : Append(requests[d], g)[i] = requests[d][j]
      BY <3>1, AppendElements
    <3>3. requests'[d] = Append(requests[d], g) /\ \A e \in Domains : e # d => requests'[e] = requests[e]
      BY <1>0, <2>2
    <3> SUFFICES ASSUME NEW e \in Domains, NEW i \in DOMAIN requests'[e]
                 PROVE  requests'[e][i] = g \/ \E j \in DOMAIN requests[e] : requests'[e][i] = requests[e][j]
      OBVIOUS
    <3>4. CASE e = d
      BY <3>2, <3>3, <3>4
    <3>5. CASE e # d
      BY <3>3, <3>5
    <3> QED
      BY <3>4, <3>5
  <2> QED
    BY <2>1, <2>2 DEF SendCurrentStateGet
<1>5. BegunInv'
  <2>1. getter[g] # "idle"
    BY <1>2 DEF CurrentInv, BegunInv
  <2>2. \A e \in Domains : \A i \in DOMAIN requests'[e] : getter[requests'[e][i]] # "idle"
    BY <1>4, <2>1 DEF CurrentInv, BegunInv
  <2> QED
    BY <1>1, <1>2, <2>1, <2>2 DEF CurrentInv, BegunInv
<1>6. AnsweredInv'
  <2>1. \A e \in Domains : Sent(e)' = Sent(e)
    BY <1>1 DEF Sent
  <2> QED
    BY <1>1, <1>2, <2>1 DEF CurrentInv, AnsweredInv
<1>7. CollectedInv'
  <2> SUFFICES ASSUME NEW h \in Getters, h \notin excused', NEW e \in Domains,
                      (getter[h] # "idle" /\ e \notin open[h]) \/ (managerLock'[e] = h /\ ~waiting'[e])
               PROVE  collected[h][e] >= asOf[h][e]
    BY <1>1 DEF CollectedInv
  <2>1. h \notin excused
    BY <1>3
  <2>2. ~(e = d /\ h = g /\ ~waiting'[e])
    BY <1>3
  <2>3. (getter[h] # "idle" /\ e \notin open[h]) \/ (managerLock[e] = h /\ ~waiting[e])
    BY <1>2, <1>3, <2>2
  <2> QED
    BY <2>1, <2>3 DEF CurrentInv, CollectedInv
<1> QED
  BY <1>5, <1>6, <1>7 DEF CurrentInv

\* the wait ends: with an answer, which is known by then, or excused
LEMMA WaitEndsCurrent ==
    ASSUME TypeOKState, ChannelInv, CurrentInv, routerDelivers, NEW d \in Domains,
           ReceiveReply(d) \/ ReadTimeout(d) \/ GetCancelled(d)
    PROVE  CurrentInv'
<1>0. /\ managerLock \in [Domains -> Getters \cup {"free"}] /\ waiting \in [Domains -> BOOLEAN]
      /\ receiveChan \in [Domains -> {"nil", "empty", "full"}]
      /\ "free" \notin Getters /\ None \notin Getters
      /\ \A e \in Domains : \A h \in Getters : asOf[h][e] \in Nat /\ collected[h][e] \in Nat
      /\ \A e \in Domains : inventory[e] \in Nat
  BY CurrentFacts
<1>1. UNCHANGED <<installed, requests, messages, managerLock, expActivityID, inventory, sending, getter, open, asOf>>
  BY Zenon DEF ReceiveReply, ReadTimeout, GetCancelled, agentVars
<1>2. waiting[d] /\ managerLock[d] \in Getters
  BY <1>0 DEF ReceiveReply, ReadTimeout, GetCancelled, ChannelInv
<1> DEFINE g == managerLock[d]
<1>3. /\ excused \subseteq excused'
      /\ \A e \in Domains : e # d => waiting'[e] = waiting[e]
      /\ \A e \in Domains : receiveChan'[e] = "full" => receiveChan[e] = "full"
  BY <1>0 DEF ReceiveReply, ReadTimeout, GetCancelled
<1>4. \A h \in Getters : \A e \in Domains : h # g \/ e # d => collected'[h][e] = collected[h][e]
  <2>1. CASE UNCHANGED collected
    BY <2>1
  <2>2. CASE collected' = [collected EXCEPT ![g][d] = inventory[d]]
    <3>1. collected \in [Getters -> Inventory]
      BY TypesByComponent DEF Types, ManagerTyped
    <3> QED
      BY <1>2, <2>2, <3>1 DEF Inventory
  <2> QED
    BY <2>1, <2>2 DEF ReceiveReply, ReadTimeout, GetCancelled, takeInventory
<1>5. g \notin excused' => collected'[g][d] >= asOf[g][d]
  <2>1. CASE GetCancelled(d)
    BY <2>1 DEF GetCancelled
  <2>2. CASE ReadTimeout(d)
    <3>1. ~answeredInVain(d)
      BY DEF answeredInVain, routerDelivers
    <3> QED
      BY <2>2, <3>1 DEF ReadTimeout
  <2>3. CASE ReceiveReply(d)
    <3>1. inventory[d] >= asOf[g][d]
      BY <2>3 DEF ReceiveReply, CurrentInv, AnsweredInv
    <3>2. CASE inventory[d] = 0
      <4>1. UNCHANGED collected
        BY <2>3, <3>2 DEF ReceiveReply, takeInventory
      <4> QED
        BY <1>0, <1>2, <3>1, <3>2, <4>1
    <3>3. CASE inventory[d] # 0
      <4>1. collected' = [collected EXCEPT ![g][d] = inventory[d]]
        BY <2>3, <3>3 DEF ReceiveReply, takeInventory
      <4>2. collected \in [Getters -> Inventory]
        BY TypesByComponent DEF Types, ManagerTyped
      <4>3. collected'[g][d] = inventory[d]
        BY <1>2, <4>1, <4>2 DEF Inventory
      <4> QED
        BY <3>1, <4>3
    <3> QED
      BY <3>2, <3>3
  <2> QED
    BY <2>1, <2>2, <2>3
<1>6. BegunInv'
  BY <1>1 DEF CurrentInv, BegunInv
<1>7. AnsweredInv'
  <2>1. \A e \in Domains : Sent(e)' = Sent(e)
    BY <1>1 DEF Sent
  <2> QED
    BY <1>1, <1>3, <2>1 DEF CurrentInv, AnsweredInv
<1>8. CollectedInv'
  <2> SUFFICES ASSUME NEW h \in Getters, h \notin excused', NEW e \in Domains,
                      (getter[h] # "idle" /\ e \notin open[h]) \/ (managerLock[e] = h /\ ~waiting'[e])
               PROVE  collected'[h][e] >= asOf[h][e]
    BY <1>1 DEF CollectedInv
  <2>1. CASE h = g /\ e = d
    BY <1>5, <2>1
  <2>2. CASE h # g \/ e # d
    <3>1. (getter[h] # "idle" /\ e \notin open[h]) \/ (managerLock[e] = h /\ ~waiting[e])
      BY <1>3, <2>2
    <3>2. collected[h][e] >= asOf[h][e]
      BY <1>3, <3>1 DEF CurrentInv, CollectedInv
    <3> QED
      BY <1>4, <2>2, <3>2
  <2> QED
    BY <2>1, <2>2
<1> QED
  BY <1>6, <1>7, <1>8 DEF CurrentInv

\* Get returns with what it has collected
LEMMA LeaveGetCurrent ==
    ASSUME TypeOKState, CurrentInv, NEW d \in Domains, LeaveGet(d)
    PROVE  CurrentInv'
<1>0. /\ managerLock \in [Domains -> Getters \cup {"free"}]
      /\ expActivityID \in [Domains -> Getters \cup {None}]
      /\ receiveChan \in [Domains -> {"nil", "empty", "full"}]
      /\ open \in [Getters -> SUBSET Domains]
      /\ "free" \notin Getters /\ None \notin Getters
  BY CurrentFacts
<1>1. UNCHANGED <<installed, requests, messages, waiting, inventory, sending, getter, collected, asOf, excused>>
  BY Zenon DEF LeaveGet, leaveUnchanged, agentVars
<1>2. /\ managerLock[d] \in Getters /\ ~waiting[d] /\ d \notin sending
      /\ managerLock'[d] = "free" /\ expActivityID'[d] = None /\ receiveChan'[d] = "nil"
      /\ \A e \in Domains : e # d => /\ managerLock'[e] = managerLock[e] /\ expActivityID'[e] = expActivityID[e]
                                     /\ receiveChan'[e] = receiveChan[e]
  BY <1>0 DEF LeaveGet
<1>3. \A h \in Getters : open'[h] \subseteq open[h] /\ (h # managerLock[d] => open'[h] = open[h])
                         /\ \A e \in Domains : e # d /\ e \in open[h] => e \in open'[h]
  BY <1>0, <1>2 DEF LeaveGet
<1>4. BegunInv'
  BY <1>1, <1>2, <1>3 DEF CurrentInv, BegunInv
<1>5. AnsweredInv'
  <2>1. \A e \in Domains : Sent(e)' = Sent(e)
    BY <1>1 DEF Sent
  <2> QED
    BY <1>1, <1>2, <2>1 DEF CurrentInv, AnsweredInv
<1>6. CollectedInv'
  <2> SUFFICES ASSUME NEW h \in Getters, h \notin excused, NEW e \in Domains,
                      (getter[h] # "idle" /\ e \notin open'[h]) \/ (managerLock'[e] = h /\ ~waiting[e])
               PROVE  collected[h][e] >= asOf[h][e]
    BY <1>1 DEF CollectedInv
  <2>1. CASE managerLock'[e] = h /\ ~waiting[e]
    <3>1. managerLock[e] = h
      BY <1>0, <1>2, <2>1
    <3> QED
      BY <2>1, <3>1 DEF CurrentInv, CollectedInv
  <2>2. CASE getter[h] # "idle" /\ e \notin open'[h]
    <3>1. e \notin open[h] \/ (e = d /\ h = managerLock[d])
      BY <1>3, <2>2
    <3> QED
      BY <1>2, <2>2, <3>1 DEF CurrentInv, CollectedInv
  <2> QED
    BY <2>1, <2>2
<1> QED
  BY <1>4, <1>5, <1>6 DEF CurrentInv

LEMMA CurrentStep ==
    ASSUME TypeOKState, ChannelInv, OrderInv, CurrentInv, routerDelivers, [NextState]_stateVars
    PROVE  CurrentInv'
<1>1. CASE \/ ReportStep \/ CancelContext \/ HandleCommandSignal \/ ReceiveFeedback \/ HandleDesiredStateFeedback
           \/ \E d \in Domains : Command(d)
           \/ UNCHANGED stateVars
  BY <1>1, AsideActions, AsideSteps, Zenon
<1>2. CASE \E g \in Getters : Get(g)
  BY <1>2, GetCurrent
<1>3. CASE \E d \in Domains : StateChanges(d) \/ AgentReplies(d)
  BY <1>3, AgentStepCurrent
<1>4. CASE \E d \in Domains : GetStep(d) \/ ReadTimeout(d)
  BY <1>4, SendGetCurrent, WaitEndsCurrent, LeaveGetCurrent DEF GetStep
<1>5. CASE \E d \in Domains : HandleCurrentState(d)
  BY <1>5, HandleCurrentStateCurrent
<1>6. CASE \E d \in Domains : SendReply(d)
  BY <1>6, SendReplyCurrent
<1> QED
  BY <1>1, <1>2, <1>3, <1>4, <1>5, <1>6, Zenon DEF NextState

LEMMA InitCurrent == InitState => CurrentInv
<1> SUFFICES ASSUME InitState
             PROVE  CurrentInv
  OBVIOUS
<1>1. ASSUME NEW d \in Domains
      PROVE  DOMAIN requests[d] = {} /\ Sent(d) = {}
  <2>1. /\ requests[d] = <<>> /\ DOMAIN requests[d] = {}
        /\ messages[d] = <<>> /\ DOMAIN messages[d] = {}
    BY DEF InitState
  <2> QED
    BY <2>1 DEF Sent
<1>2. /\ \A g \in Getters : getter[g] = "idle" /\ open[g] = {}
      /\ \A d \in Domains : managerLock[d] = "free" /\ expActivityID[d] = None /\ receiveChan[d] = "nil"
      /\ sending = {} /\ "free" \notin Getters
  BY Constants DEF InitState
<1>3. BegunInv
  BY <1>1, <1>2 DEF BegunInv
<1>4. AnsweredInv
  BY <1>1, <1>2 DEF AnsweredInv
<1>5. CollectedInv
  BY <1>2 DEF CollectedInv
<1> QED
  BY <1>3, <1>4, <1>5 DEF CurrentInv

LEMMA CurrentImplies == BegunInv /\ CollectedInv => AnswersAreCurrent
  BY DEF BegunInv, CollectedInv, AnswersAreCurrent

\* While the router goroutine is never kept by a request of the backend or by feedback it
\* handles itself, what Get collects for a request is no older than the request, unless an
\* agent could not be asked or was not in time.  (When it is kept, this is false: the answers
\* wait for the router, and the router for them.)
THEOREM AnswersAreCurrentHolds == SpecState /\ []routerDelivers => []AnswersAreCurrent
<1>1. TypeOKState /\ ChannelInv /\ OrderInv /\ routerDelivers /\ CurrentInv /\ [NextState]_stateVars => CurrentInv'
  BY CurrentStep
<1>2. CurrentInv => AnswersAreCurrent
  BY CurrentImplies DEF CurrentInv
<1> QED
  BY <1>1, <1>2, InitCurrent, ChannelInvariant, OrderInvariant, PTL DEF SpecState

\* The end of an activity and the request after connecting are on goroutines of their own:
\* without a request of the backend, and commands that keep feedback waiting, their
\* answers are current.
THEOREM OwnGoroutinesAreCurrent ==
    ASSUME "backend" \notin Getters, MaxCommands = 0
    PROVE  SpecState => []AnswersAreCurrent
<1> DEFINE quietInv == commands = {} /\ issued = 0 /\ ~feedback
<1>1. InitState => quietInv
  BY DEF InitState
<1>2. quietInv /\ [NextState]_stateVars => quietInv'
  <2> SUFFICES ASSUME quietInv, [NextState]_stateVars
               PROVE  quietInv'
    OBVIOUS
  <2>1. ~HandleCommandSignal /\ ~ReceiveFeedback /\ ~HandleDesiredStateFeedback /\ ~\E d \in Domains : Command(d)
    BY DEF HandleCommandSignal, ReceiveFeedback, HandleDesiredStateFeedback, Command
  <2>2. UNCHANGED commandVars
    BY <2>1, ZenonT(60)
       DEF NextState, ReportStep, NotifyEvent, ReportApplied, StopNotifier, SendCurrentState, CancelContext, Get,
           StateChanges, AgentReplies, GetStep, ReceiveReply, GetCancelled, LeaveGet, leaveUnchanged,
           SendCurrentStateGet, ReadTimeout, HandleCurrentState, SendReply, stateVars
  <2> QED
    BY <2>2 DEF commandVars
<1>3. quietInv => routerDelivers
  BY DEF routerDelivers, routerGets
<1> QED
  BY <1>1, <1>2, <1>3, AnswersAreCurrentHolds, PTL DEF SpecState

=============================================================================
