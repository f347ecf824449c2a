-------------------------- MODULE SessionFlowProofs --------------------------
(***************************************************************************)
(* Theorems of SessionFlow, for every set of sessions and every value of   *)
(* the constants that satisfies the assumptions.                           *)
(***************************************************************************)
EXTENDS SessionFlow, SequenceTheorems, TLAPS

-----------------------------------------------------------------------------
(* The reducer. *)

USE SessionAssumption DEF Kinds, URLs

\* An event the bridge raises is well-formed.
LEMMA EventOfType ==
  ASSUME NEW s \in Session, NEW type \in EventType
  PROVE  /\ EventOf(type, s) \in Event
         /\ EventOf(type, s).id = s
         /\ EventOf(type, s).type = type
         /\ \A w \in Wallet : [EventOf(type, s) EXCEPT !.wallet = w] \in Event
         /\ \A n \in Nat : [EventOf(type, s) EXCEPT !.left = n] \in Event
         /\ \A c \in ClientStatus : [EventOf(type, s) EXCEPT !.status = c] \in Event
BY DEF EventOf, Event, Wallet, ClientStatus, EventType

\* A session starts in a state of the repository.
LEMMA NewSessionStateType == Absent \in State /\ NewSessionState \in State
BY DEF Absent, NewSessionState, State, Statuses, SessionStatus, Wallet, Choice

\* Every operator of the reducer maps states to states.
LEMMA ReducerType ==
  ASSUME NEW st \in State
  PROVE  /\ OpenFailed(st) \in State
         /\ \A c \in Choice : ContinuedToIssuance(st, c) \in State
         /\ \A proceed \in BOOLEAN, c \in Choice :
              PermissionResponded(st, proceed, c) \in State
         /\ \A e \in Event : EventHandler(st, e) \in State
<1>1. OpenFailed(st) \in State /\ Failed(st) \in State
  BY DEF OpenFailed, Failed, State, Statuses, SessionStatus
<1>2. \A c \in Choice : ContinuedToIssuance(st, c) \in State
  BY DEF ContinuedToIssuance, State, Statuses, SessionStatus
<1>3. \A proceed \in BOOLEAN, c \in Choice : PermissionResponded(st, proceed, c) \in State
  BY DEF PermissionResponded, State, Statuses, SessionStatus
<1>4. \A e \in Event : EventHandler(st, e) \in State
  <2> SUFFICES ASSUME NEW e \in Event PROVE EventHandler(st, e) \in State
    OBVIOUS
  <2>1. StatusUpdated(st, e.status) \in State
    BY DEF StatusUpdated, State, Statuses
  <2>2. PermissionRequested(st, e.id, e.wallet) \in State
    <3>1. e.id \in Session /\ e.wallet \in Wallet
      BY DEF Event
    <3>2. \A status \in {"requestIssuancePermission", "requestDisclosurePermission"} :
            [st EXCEPT !.asked = TRUE, !.candidates = e.wallet, !.status = status] \in State
      BY <3>1 DEF State, Statuses, SessionStatus
    <3> QED
      BY <1>1, <3>2 DEF PermissionRequested
  <2>3. [st EXCEPT !.url = ReturnURL[e.id]] \in State
    BY DEF State, Event
  <2>4. /\ [st EXCEPT !.status = "pairing"] \in State
        /\ [st EXCEPT !.status = "success"] \in State
        /\ [st EXCEPT !.status = "canceled"] \in State
        /\ [st EXCEPT !.status = "requestPin"] \in State
    BY DEF State, Statuses, SessionStatus
  <2> QED
    BY <1>1, <2>1, <2>2, <2>3, <2>4 DEF EventHandler
<1> QED
  BY <1>1, <1>2, <1>3, <1>4

-----------------------------------------------------------------------------
(* Type correctness of the app's steps. *)

ChannelsTypeOK == toGo \in Seq(Message) /\ toDart \in Seq(Event)

\* Messages the app sends are well-formed.
LEMMA MessagesType ==
  ASSUME NEW s \in Session
  PROVE  /\ \A type \in MessageType : MessageOf(type, s) \in Message
         /\ \A type \in MessageType, proceed \in BOOLEAN, c \in Choice :
              Respond(type, s, proceed, c) \in Message
BY DEF MessageOf, Respond, Message, Choice

\* The operators the app's actions share keep the types.
LEMMA SetStateType ==
  ASSUME AppTypeOK, NEW s \in Session, NEW st \in State, SetState(s, st)
  PROVE  states' \in [Session -> State] /\ emitted' \in [Session -> State]
BY DEF AppTypeOK, SetState

LEMMA BridgeType ==
  ASSUME ChannelsTypeOK, NEW m \in Message, Bridge(m)
  PROVE  toGo' \in Seq(Message)
BY AppendProperties DEF ChannelsTypeOK, Bridge

LEMMA NavigationType ==
  ASSUME AppTypeOK,
         Stay \/ GoHome \/ (PopTop /\ stack # <<>>)
  PROVE  stack' \in Seq(Session) /\ leaving' \subseteq Session
<1>1. DOMAIN stack = 1 .. Len(stack) /\ \A i \in DOMAIN stack : stack[i] \in Session
  BY LenProperties, ElementOfSeq DEF AppTypeOK
<1>2. CASE Stay
  BY <1>2 DEF Stay, AppTypeOK
<1>3. CASE GoHome
  BY <1>1, <1>3 DEF GoHome, AppTypeOK
<1>4. CASE PopTop /\ stack # <<>>
  <2>1. Len(stack) \in Nat \ {0}
    BY <1>4, EmptySeq DEF AppTypeOK
  <2>2. SubSeq(stack, 1, Len(stack) - 1) \in Seq(Session)
    BY <1>1, <2>1, SubSeqProperties
  <2> QED
    BY <1>1, <1>4, <2>1, <2>2 DEF PopTop, AppTypeOK
<1> QED
  BY <1>2, <1>3, <1>4

LEMMA OnStackNotEmpty ==
  ASSUME AppTypeOK, NEW s, OnStack(s)
  PROVE  stack # <<>>
BY LenProperties DEF OnStack, AppTypeOK

\* A frame, with its navigation.
LEMMA PaintType ==
  ASSUME AppTypeOK, ChannelsTypeOK, NEW s \in Session, Paint(s)
  PROVE  AppTypeOK' /\ ChannelsTypeOK'
<1>1. stack # <<>>
  BY OnStackNotEmpty DEF Paint
<1>2. /\ painted' \in [Session -> State]
      /\ pin' \in [Session -> PinState]
      /\ backs' \subseteq Session
  BY DEF Paint, AppTypeOK, PinAfterFrame, PinState
<1>3. /\ states' \in [Session -> State] /\ emitted' \in [Session -> State]
      /\ Stay \/ GoHome \/ PopTop
  <2>1. CASE UNCHANGED <<states, emitted>> /\ (Stay \/ GoHome \/ PopTop)
    BY <2>1 DEF AppTypeOK
  <2>2. CASE OpenReturnURL(s)
    <3>1. OpenFailed(states[s]) \in State
      BY ReducerType DEF AppTypeOK
    <3>2. UNCHANGED <<states, emitted>> \/ SetState(s, OpenFailed(states[s]))
      BY <2>2 DEF OpenReturnURL
    <3>3. Stay \/ GoHome \/ PopTop
      BY <2>2 DEF OpenReturnURL, PopToUnderlyingOrHome
    <3> QED
      BY <3>1, <3>2, <3>3, SetStateType DEF AppTypeOK
  <2> QED
    BY <2>1, <2>2 DEF Paint
<1>4. stack' \in Seq(Session) /\ leaving' \subseteq Session
  BY <1>1, <1>3, NavigationType
<1> QED
  BY <1>2, <1>3, <1>4 DEF Paint, AppTypeOK, ChannelsTypeOK, channels

LEMMA DisposeType ==
  ASSUME AppTypeOK, ChannelsTypeOK, NEW s \in Session, Dispose(s)
  PROVE  AppTypeOK' /\ ChannelsTypeOK'
<1>1. toGo' \in Seq(Message)
  BY BridgeType, MessagesType DEF Dispose, ChannelsTypeOK, MessageType
<1> QED
  BY <1>1 DEF Dispose, AppTypeOK, ChannelsTypeOK, PinState

\* What the user does.
LEMMA UserType ==
  ASSUME AppTypeOK, ChannelsTypeOK, User
  PROVE  AppTypeOK' /\ ChannelsTypeOK'
<1> USE DEF AppTypeOK, ChannelsTypeOK
<1> PICK s \in Session :
       \/ StartSession(s) \/ DismissSession(s) \/ ConfirmDisclosure(s)
       \/ DeclineDisclosure(s) \/ GiveIssuancePermission(s) \/ SubmitPin(s)
       \/ CancelPin(s) \/ GoBackFromPin(s) \/ CloseScreen(s) \/ FailToCall(s)
       \/ GoBack(s)
  BY DEF User
<1>1. /\ MessageOf("NewSession", s) \in Message
      /\ MessageOf("DismissSession", s) \in Message
      /\ \A type \in {"RespondPermission", "RespondPin"} :
           \A proceed \in BOOLEAN, c \in Choice : Respond(type, s, proceed, c) \in Message
  BY MessagesType DEF MessageType
<1>2. NoChoice \in Choice /\ \A w \in Wallet : w \in Choice
  BY DEF Choice
<1>3. /\ \A c \in Choice : ContinuedToIssuance(states[s], c) \in State
      /\ \A proceed \in BOOLEAN, c \in Choice :
           PermissionResponded(states[s], proceed, c) \in State
  BY ReducerType
<1>4. states[s].candidates \in Wallet /\ painted[s].choices \in Choice
  BY DEF State
<1>5. CASE StartSession(s)
  <2>1. toGo' \in Seq(Message)
    BY <1>1, <1>5, BridgeType DEF StartSession
  <2>2. HasActiveSessions(states) \in BOOLEAN
    BY DEF HasActiveSessions
  <2>3. underlying' \in [Session -> BOOLEAN]
    BY <1>5, <2>2 DEF StartSession
  <2>4. stack' \in Seq(Session)
    BY <1>5, AppendProperties DEF StartSession
  <2> QED
    BY <1>5, <2>1, <2>3, <2>4, NewSessionStateType DEF StartSession
<1>6. CASE DismissSession(s)
  BY <1>1, <1>6, BridgeType DEF DismissSession, appVars
<1>7. CASE ConfirmDisclosure(s)
  <2>1. toGo' \in Seq(Message)
    BY <1>1, <1>2, <1>4, <1>7, BridgeType DEF ConfirmDisclosure
  <2>2. states' \in [Session -> State] /\ emitted' \in [Session -> State]
    BY <1>2, <1>3, <1>4, <1>7, SetStateType DEF ConfirmDisclosure
  <2>3. confirmed' \in [Session -> SUBSET Wallet]
    BY <1>4, <1>7 DEF ConfirmDisclosure
  <2> QED
    BY <1>7, <2>1, <2>2, <2>3 DEF ConfirmDisclosure
<1>8. CASE DeclineDisclosure(s)
  <2>1. toGo' \in Seq(Message)
    BY <1>1, <1>2, <1>8, BridgeType DEF DeclineDisclosure
  <2>2. states' \in [Session -> State] /\ emitted' \in [Session -> State]
    BY <1>2, <1>3, <1>8, SetStateType DEF DeclineDisclosure
  <2> QED
    BY <1>8, <2>1, <2>2 DEF DeclineDisclosure
<1>9. CASE GiveIssuancePermission(s)
  <2>1. toGo' \in Seq(Message)
    BY <1>1, <1>4, <1>9, BridgeType DEF GiveIssuancePermission
  <2>2. states' \in [Session -> State] /\ emitted' \in [Session -> State]
    BY <1>3, <1>4, <1>9, SetStateType DEF GiveIssuancePermission
  <2> QED
    BY <1>9, <2>1, <2>2 DEF GiveIssuancePermission
<1>10. CASE SubmitPin(s)
  <2>1. toGo' \in Seq(Message)
    BY <1>1, <1>2, <1>10, BridgeType DEF SubmitPin
  <2> QED
    BY <1>10, <2>1 DEF SubmitPin, PinState
<1>11. CASE CancelPin(s)
  BY <1>1, <1>2, <1>11, BridgeType DEF CancelPin, appVars
<1>12. CASE GoBackFromPin(s)
  BY <1>12 DEF GoBackFromPin, channels
<1>13. CASE CloseScreen(s)
  BY <1>13, NavigationType DEF CloseScreen, channels
<1>14. CASE GoBack(s)
  BY <1>14, NavigationType DEF GoBack, CanTap, channels
<1>15. CASE FailToCall(s)
  <2>1. states' \in [Session -> State] /\ emitted' \in [Session -> State]
    BY <1>15, <1>3, SetStateType, ReducerType DEF FailToCall
  <2> QED
    BY <1>15, <2>1 DEF FailToCall, channels
<1> QED
  BY <1>5, <1>6, <1>7, <1>8, <1>9, <1>10, <1>11, <1>12, <1>13, <1>14, <1>15

\* An event of Go is received.
LEMMA ReceiveEventType ==
  ASSUME AppTypeOK, ChannelsTypeOK, ReceiveEvent
  PROVE  AppTypeOK' /\ ChannelsTypeOK'
<1> DEFINE e == Head(toDart)
<1>1. e \in Event /\ toDart' \in Seq(Event)
  BY HeadTailProperties DEF ReceiveEvent, ChannelsTypeOK
<1>2. e.id \in Session
  BY <1>1 DEF Event
<1>3. EventHandler(states[e.id], e) \in State
  BY <1>1, <1>2, ReducerType DEF AppTypeOK
<1>4. states' \in [Session -> State] /\ emitted' \in [Session -> State]
  BY <1>2, <1>3, SetStateType DEF ReceiveEvent, AppTypeOK
<1>5. pin' \in [Session -> PinState]
  BY <1>2 DEF ReceiveEvent, AppTypeOK, PinAfterEvent, PinState
<1>6. backs' \subseteq Session /\ toGo' \in Seq(Message)
  BY <1>2, BridgeType, MessagesType
  DEF ReceiveEvent, ReleaseBacks, AppTypeOK, ChannelsTypeOK, MessageType, Choice
<1>7. stack' \in Seq(Session) /\ leaving' \subseteq Session
  BY NavigationType DEF ReceiveEvent
<1> QED
  BY <1>1, <1>4, <1>5, <1>6, <1>7 DEF ReceiveEvent, AppTypeOK, ChannelsTypeOK

-----------------------------------------------------------------------------
(* Type correctness of the steps of the bridge and of irmaclient. *)

LEMMA DispatchEventType ==
  ASSUME ChannelsTypeOK, NEW e \in Event, DispatchEvent(e)
  PROVE  toDart' \in Seq(Event)
BY AppendProperties DEF ChannelsTypeOK, DispatchEvent

\* The state of irmaclient, with the events it sends.
ClientTypeOK ==
  /\ phase \in [Session -> Phase]
  /\ attempts \in [Session -> 0 .. MaxAttempts]
  /\ wallet \in Wallet
  /\ used \in [Session -> SUBSET Choice]
  /\ stale \subseteq Session
  /\ toDart \in Seq(Event)

LEMMA FinishType ==
  ASSUME BridgeTypeOK, ChannelsTypeOK, NEW s \in Session, NEW end \in Ended,
         NEW type \in EventType, Finish(s, end, EventOf(type, s))
  PROVE  /\ phase' \in [Session -> Phase]
         /\ stale' \subseteq Session
         /\ toDart' \in Seq(Event)
<1>1. toDart' \in Seq(Event)
  BY EventOfType, DispatchEventType DEF Finish
<1> QED
  BY <1>1 DEF Finish, BridgeTypeOK, Phase

LEMMA CancelType ==
  ASSUME BridgeTypeOK, ChannelsTypeOK, NEW s \in Session, Cancel(s)
  PROVE  ClientTypeOK'
BY FinishType DEF Cancel, Ended, EventType, ClientTypeOK, BridgeTypeOK

LEMMA IgnoreType ==
  ASSUME BridgeTypeOK, ChannelsTypeOK, Ignore
  PROVE  ClientTypeOK'
BY DEF Ignore, ClientTypeOK, BridgeTypeOK, ChannelsTypeOK, clientVars

LEMMA AnswerPermissionType ==
  ASSUME BridgeTypeOK, ChannelsTypeOK, NEW s \in Session, NEW proceed \in BOOLEAN,
         NEW c \in Choice, AnswerPermission(s, proceed, c)
  PROVE  ClientTypeOK'
<1>1. CASE /\ phase' = [phase EXCEPT ![s] = "communicating"]
           /\ used' = [used EXCEPT ![s] = @ \union {c}]
           /\ stale' = stale \ {s}
           /\ DispatchEvent(EventOf("StatusUpdate", s))
           /\ UNCHANGED <<attempts, wallet>>
  <2>1. toDart' \in Seq(Event)
    BY <1>1, EventOfType, DispatchEventType DEF EventType
  <2> QED
    BY <1>1, <2>1 DEF ClientTypeOK, BridgeTypeOK, Phase, Running
<1> QED
  BY <1>1, CancelType, IgnoreType DEF AnswerPermission

LEMMA AnswerPinType ==
  ASSUME BridgeTypeOK, ChannelsTypeOK, NEW s \in Session, NEW proceed \in BOOLEAN,
         AnswerPin(s, proceed)
  PROVE  ClientTypeOK'
<1> USE BridgeAssumption DEF BridgeTypeOK
<1>1. CASE /\ phase' = [phase EXCEPT ![s] = "finishing"]
           /\ UNCHANGED <<attempts, wallet, used, stale, toDart>>
  BY <1>1 DEF ClientTypeOK, ChannelsTypeOK, Phase, Running
<1>2. CASE /\ attempts[s] > 1
           /\ attempts' = [attempts EXCEPT ![s] = @ - 1]
           /\ DispatchEvent([EventOf("RequestPin", s) EXCEPT !.left = attempts[s] - 1])
           /\ UNCHANGED <<phase, wallet, used, stale>>
  <2>1. attempts[s] - 1 \in Nat /\ attempts[s] - 1 \in 0 .. MaxAttempts
    BY <1>2
  <2>2. toDart' \in Seq(Event)
    BY <1>2, <2>1, EventOfType, DispatchEventType DEF EventType
  <2> QED
    BY <1>2, <2>1, <2>2 DEF ClientTypeOK
<1>3. CASE /\ attempts' = [attempts EXCEPT ![s] = 0]
           /\ Finish(s, "blocked", EventOf("KeyshareBlocked", s))
           /\ UNCHANGED <<wallet, used>>
  <2>1. /\ phase' \in [Session -> Phase]
        /\ stale' \subseteq Session
        /\ toDart' \in Seq(Event)
    BY <1>3, FinishType DEF Ended, EventType
  <2>2. attempts' \in [Session -> 0 .. MaxAttempts]
    BY <1>3
  <2>3. wallet' \in Wallet /\ used' \in [Session -> SUBSET Choice]
    BY <1>3
  <2> QED
    BY <2>1, <2>2, <2>3 DEF ClientTypeOK
<1> QED
  BY <1>1, <1>2, <1>3, CancelType, IgnoreType DEF AnswerPin

\* DispatchFromNative and the goroutines.
LEMMA BridgeSystemType ==
  ASSUME BridgeTypeOK, ChannelsTypeOK, BridgeSystem
  PROVE  BridgeTypeOK' /\ ChannelsTypeOK'
<1>1. CASE DispatchFromNative
  <2> DEFINE m == Head(toGo)
  <2>1. m \in Message /\ toGo' \in Seq(Message)
    BY <1>1, HeadTailProperties DEF DispatchFromNative, ChannelsTypeOK
  <2>2. m.id \in Session /\ m.type \in MessageType
    BY <2>1 DEF Message
  <2>3. CASE NewSession(m)
    BY <2>1, <2>2, <2>3
    DEF NewSession, BridgeTypeOK, ChannelsTypeOK, Phase, Running
  <2>4. CASE RespondGo(m)
    <3>1. m \in Call
      BY <2>1, <2>4 DEF RespondGo, Message, Call
    <3>2. Refusal(m) \subseteq {"sessionID", "permissionHandler", "pinHandler"}
      BY <2>4 DEF Refusal
    <3> QED
      BY <2>1, <2>4, <3>1, <3>2
      DEF RespondGo, BridgeTypeOK, ChannelsTypeOK, clientVars
  <2>5. CASE DismissGo(m)
    <3>1. ClientTypeOK'
      BY <2>2, <2>5, CancelType, IgnoreType DEF DismissGo, Dismiss
    <3> QED
      BY <2>1, <2>5, <3>1 DEF DismissGo, ClientTypeOK, BridgeTypeOK, ChannelsTypeOK
  <2> QED
    BY <1>1, <2>3, <2>4, <2>5 DEF DispatchFromNative
<1>2. ASSUME NEW c \in calls, RunCall(c)
      PROVE  BridgeTypeOK' /\ ChannelsTypeOK'
  <2>1. /\ c.id \in Session /\ c.proceed \in BOOLEAN /\ c.choice \in Choice
    BY DEF BridgeTypeOK, Call
  <2>2. ClientTypeOK'
    BY <1>2, <2>1, AnswerPermissionType, AnswerPinType DEF RunCall
  <2> QED
    BY <1>2, <2>2 DEF RunCall, ClientTypeOK, BridgeTypeOK, ChannelsTypeOK
<1> QED
  BY <1>1, <1>2 DEF BridgeSystem

\* irmaclient and its callbacks on the session handler.
LEMMA ClientStepType ==
  ASSUME BridgeTypeOK, ChannelsTypeOK, NEW s \in Session, ClientStep(s)
  PROVE  BridgeTypeOK' /\ ChannelsTypeOK'
<1> USE DEF BridgeTypeOK, Phase, Running, EventType
<1>1. /\ lookup' = lookup /\ calls' = calls /\ errors' = errors
      /\ toGo' \in Seq(Message)
  BY DEF ClientStep, ChannelsTypeOK
<1>2. ASSUME RequestPermission(s)
      PROVE  permissionHandler' \subseteq Session /\ toDart' \in Seq(Event)
  BY <1>2, EventOfType, DispatchEventType DEF RequestPermission
<1>3. ASSUME RequestPin(s)
      PROVE  pinHandler' \subseteq Session /\ toDart' \in Seq(Event)
  <2>1. attempts[s] \in Nat
    BY BridgeAssumption
  <2> QED
    BY <1>3, <2>1, EventOfType, DispatchEventType DEF RequestPin
<1>4. CASE ClientConnect(s)
  <2>1. toDart' \in Seq(Event)
    <3>1. /\ [EventOf("StatusUpdate", s) EXCEPT !.status = "connected"] \in Event
          /\ EventOf("ClientReturnURLSet", s) \in Event
      BY EventOfType DEF ClientStatus
    <3> QED
      BY <1>4, <3>1, AppendProperties DEF ClientConnect, ChannelsTypeOK
  <2> QED
    BY <1>1, <1>4, <2>1 DEF ClientConnect, ChannelsTypeOK
<1>5. CASE ClientPair(s)
  <2>1. toDart' \in Seq(Event)
    BY <1>5, EventOfType, DispatchEventType DEF ClientPair
  <2> QED
    BY <1>1, <1>5, <2>1 DEF ClientPair, ChannelsTypeOK
<1>6. CASE ClientAsk(s)
  BY <1>1, <1>2, <1>6 DEF ClientAsk, ChannelsTypeOK
<1>7. CASE ClientRefresh(s)
  BY <1>1, <1>2, <1>7 DEF ClientRefresh, ChannelsTypeOK
<1>8. CASE ClientAskPin(s)
  BY <1>1, <1>3, <1>8 DEF ClientAskPin, ChannelsTypeOK
<1>9. CASE ClientNotEnrolled(s)
  <2>1. phase' \in [Session -> Phase] /\ stale' \subseteq Session /\ toDart' \in Seq(Event)
    BY <1>9, FinishType DEF ClientNotEnrolled, Ended
  <2> QED
    BY <1>1, <1>9, <2>1 DEF ClientNotEnrolled, ChannelsTypeOK
<1>10. CASE ClientSucceed(s)
  <2>1. phase' \in [Session -> Phase] /\ stale' \subseteq Session /\ toDart' \in Seq(Event)
    BY <1>10, FinishType DEF ClientSucceed, Ended
  <2>2. wallet' \in Wallet
    BY <1>10 DEF ClientSucceed, Wallet
  <2> QED
    BY <1>1, <1>10, <2>1, <2>2 DEF ClientSucceed, ChannelsTypeOK
<1>11. CASE ClientFail(s)
  <2>1. phase' \in [Session -> Phase] /\ stale' \subseteq Session /\ toDart' \in Seq(Event)
    BY <1>11, FinishType DEF ClientFail, Ended
  <2> QED
    BY <1>1, <1>11, <2>1 DEF ClientFail, ChannelsTypeOK
<1> QED
  BY <1>4, <1>5, <1>6, <1>7, <1>8, <1>9, <1>10, <1>11 DEF ClientStep

-----------------------------------------------------------------------------
(* The composition is type-correct. *)

LEMMA TypeOKInit == Init => TypeOK
BY NewSessionStateType, EmptySeq, BridgeAssumption
DEF Init, AppInit, BridgeInit, ChannelsInit, TypeOK, AppTypeOK, BridgeTypeOK,
    PinState, Phase, Wallet

LEMMA TypeOKStep == TypeOK /\ [Next]_vars => TypeOK'
<1> SUFFICES ASSUME TypeOK, [Next]_vars PROVE TypeOK'
  OBVIOUS
<1>0. AppTypeOK /\ BridgeTypeOK /\ ChannelsTypeOK
  BY DEF TypeOK, ChannelsTypeOK
<1>1. CASE AppStep
  <2>1. AppTypeOK' /\ ChannelsTypeOK'
    BY <1>0, <1>1, PaintType, DisposeType, UserType, ReceiveEventType
    DEF AppStep, AppSystem
  <2>2. BridgeTypeOK'
    BY <1>0, <1>1 DEF AppStep, BridgeTypeOK, bridgeVars, clientVars
  <2> QED
    BY <2>1, <2>2 DEF TypeOK, ChannelsTypeOK
<1>2. CASE BridgeStep \/ IrmaClientStep
  <2>1. BridgeTypeOK' /\ ChannelsTypeOK'
    BY <1>0, <1>2, BridgeSystemType, ClientStepType DEF BridgeStep, IrmaClientStep
  <2>2. AppTypeOK'
    BY <1>0, <1>2 DEF BridgeStep, IrmaClientStep, AppTypeOK, appVars
  <2> QED
    BY <2>1, <2>2 DEF TypeOK, ChannelsTypeOK
<1>3. CASE UNCHANGED vars
  BY <1>3 DEF TypeOK, AppTypeOK, BridgeTypeOK, vars, appVars, bridgeVars, clientVars,
              channels
<1> QED
  BY <1>1, <1>2, <1>3 DEF Next

\* Every variable of the app, the bridge and the channels keeps its type.
THEOREM TypeCorrect == Spec => []TypeOK
BY TypeOKInit, TypeOKStep, PTL DEF Spec

-----------------------------------------------------------------------------
(* Consent.                                                                *)
(*                                                                         *)
(* ConsentBeforeDisclosure is not inductive: an answer is on its way in    *)
(* the channel, then in a goroutine, before irmaclient acts on it, and the *)
(* answer to a combined session takes its choices from what is painted.    *)

\* The messages that let no session proceed without the consent of the user.
ConsentedMessage ==
  {m \in Message :
     m.type = "RespondPermission" /\ m.proceed => Consented(m.id, m.choice)}

\* A state that asks for the issuance permission of a combined session holds
\* choices the user confirmed, and no state asks for what its session lacks.
ChoicesConfirmed(s, st, choices) ==
  /\ Kind[s] = "issuing" =>
       st.choices = NoChoice /\ st.status # "requestDisclosurePermission"
  /\ Kind[s] = "disclosing" => st.status # "requestIssuancePermission"
  /\ Kind[s] = "combined" /\ st.status = "requestIssuancePermission" =>
       st.choices \in choices

StatesConfirmed(all, choices) == \A s \in Session : ChoicesConfirmed(s, all[s], choices[s])

ConsentInv ==
  /\ toGo \in Seq(ConsentedMessage)
  /\ calls \subseteq ConsentedMessage
  /\ ConsentBeforeDisclosure
  /\ StatesConfirmed(states, confirmed)
  /\ StatesConfirmed(emitted, confirmed)
  /\ StatesConfirmed(painted, confirmed)

\* The reducer keeps the choices of a session.
LEMMA ReducerConfirmed ==
  ASSUME NEW s \in Session, NEW st \in State, NEW C, ChoicesConfirmed(s, st, C)
  PROVE  /\ ChoicesConfirmed(s, OpenFailed(st), C)
         /\ \A e \in Event : e.id = s => ChoicesConfirmed(s, EventHandler(st, e), C)
         /\ \A c : IsIssuanceSession(s) /\ Kind[s] # "issuing" /\ c \in C =>
              ChoicesConfirmed(s, ContinuedToIssuance(st, c), C)
         /\ \A proceed \in BOOLEAN : \A c : (Kind[s] = "issuing" /\ proceed => c = NoChoice) =>
              ChoicesConfirmed(s, PermissionResponded(st, proceed, c), C)
<1> USE DEF ChoicesConfirmed, State
<1>1. ChoicesConfirmed(s, OpenFailed(st), C) /\ ChoicesConfirmed(s, Failed(st), C)
  BY DEF OpenFailed, Failed
<1>2. ASSUME NEW e \in Event, e.id = s
      PROVE  ChoicesConfirmed(s, EventHandler(st, e), C)
  <2>1. ChoicesConfirmed(s, StatusUpdated(st, e.status), C)
    BY DEF StatusUpdated, Event, ClientStatus
  <2>2. ChoicesConfirmed(s, PermissionRequested(st, e.id, e.wallet), C)
    <3>1. CASE s \in Unsupported
      BY <1>1, <1>2, <3>1 DEF PermissionRequested
    <3>2. CASE s \notin Unsupported /\ Kind[s] = "issuing"
      BY <1>2, <3>2 DEF PermissionRequested
    <3>3. CASE s \notin Unsupported /\ Kind[s] # "issuing"
      BY <1>2, <3>3 DEF PermissionRequested
    <3> QED
      BY <3>1, <3>2, <3>3
  <2>3. /\ ChoicesConfirmed(s, [st EXCEPT !.url = ReturnURL[e.id]], C)
        /\ ChoicesConfirmed(s, [st EXCEPT !.status = "pairing"], C)
        /\ ChoicesConfirmed(s, [st EXCEPT !.status = "success"], C)
        /\ ChoicesConfirmed(s, [st EXCEPT !.status = "canceled"], C)
        /\ ChoicesConfirmed(s, [st EXCEPT !.status = "requestPin"], C)
    OBVIOUS
  <2> HIDE DEF ChoicesConfirmed, State
  <2> QED
    BY <1>1, <2>1, <2>2, <2>3 DEF EventHandler
<1>3. ASSUME NEW c, IsIssuanceSession(s), Kind[s] # "issuing", c \in C
      PROVE  ChoicesConfirmed(s, ContinuedToIssuance(st, c), C)
  BY <1>3 DEF ContinuedToIssuance, IsIssuanceSession
<1>4. ASSUME NEW proceed \in BOOLEAN, NEW c, Kind[s] = "issuing" /\ proceed => c = NoChoice
      PROVE  ChoicesConfirmed(s, PermissionResponded(st, proceed, c), C)
  BY <1>4 DEF PermissionResponded
<1> QED
  BY <1>1, <1>2, <1>3, <1>4

\* Consent is never withdrawn: what the user did stays done.
LEMMA HistoryGrows ==
  ASSUME TypeOK, [Next]_vars
  PROVE  given \subseteq given' /\ \A s \in Session : confirmed[s] \subseteq confirmed'[s]
<1> USE DEF TypeOK, AppTypeOK
<1>1. CASE AppSystem
  BY <1>1 DEF AppSystem, Paint, Dispose, ReceiveEvent
<1>2. CASE User
  <2> PICK s \in Session :
         \/ StartSession(s) \/ DismissSession(s) \/ ConfirmDisclosure(s)
         \/ DeclineDisclosure(s) \/ GiveIssuancePermission(s) \/ SubmitPin(s)
         \/ CancelPin(s) \/ GoBackFromPin(s) \/ CloseScreen(s) \/ FailToCall(s)
         \/ GoBack(s)
    BY <1>2 DEF User
  <2>1. CASE ConfirmDisclosure(s)
    BY <2>1 DEF ConfirmDisclosure
  <2>2. CASE GiveIssuancePermission(s)
    BY <2>2 DEF GiveIssuancePermission
  <2> QED
    BY <2>1, <2>2 DEF StartSession, DismissSession, DeclineDisclosure, SubmitPin, CancelPin,
                      GoBackFromPin, CloseScreen, FailToCall, GoBack, appVars
<1>3. CASE UNCHANGED appVars
  BY <1>3 DEF appVars
<1> QED
  BY <1>1, <1>2, <1>3 DEF Next, AppStep, BridgeStep, IrmaClientStep, vars

LEMMA ConsentStays ==
  ASSUME TypeOK, [Next]_vars
  PROVE  /\ \A s \in Session : \A c : Consented(s, c) => Consented(s, c)'
         /\ ConsentedMessage \subseteq ConsentedMessage'
         /\ toGo \in Seq(ConsentedMessage) => toGo \in Seq(ConsentedMessage')
<1>1. \A s \in Session : \A c : Consented(s, c) => Consented(s, c)'
  BY HistoryGrows DEF Consented
<1>2. ConsentedMessage \subseteq ConsentedMessage'
  BY <1>1 DEF ConsentedMessage, Message
<1> QED
  BY <1>1, <1>2, SeqMonotonic

LEMMA ConfirmedWiden ==
  ASSUME NEW all, NEW C, NEW D, StatesConfirmed(all, C),
         \A s \in Session : C[s] \subseteq D[s]
  PROVE  StatesConfirmed(all, D)
BY DEF StatesConfirmed, ChoicesConfirmed

LEMMA SetStateConfirmed ==
  ASSUME AppTypeOK, NEW C, StatesConfirmed(states, C), StatesConfirmed(emitted, C),
         NEW s \in Session, NEW st, ChoicesConfirmed(s, st, C[s]), SetState(s, st)
  PROVE  StatesConfirmed(states', C) /\ StatesConfirmed(emitted', C)
BY DEF AppTypeOK, SetState, StatesConfirmed

\* The app's steps: what they put on the channel and into the states.
LEMMA UserConsent ==
  ASSUME TypeOK, ConsentInv, [Next]_vars, User
  PROVE  /\ toGo' \in Seq(ConsentedMessage')
         /\ StatesConfirmed(states', confirmed')
         /\ StatesConfirmed(emitted', confirmed')
         /\ StatesConfirmed(painted', confirmed')
<1> PICK s \in Session :
       \/ StartSession(s) \/ DismissSession(s) \/ ConfirmDisclosure(s)
       \/ DeclineDisclosure(s) \/ GiveIssuancePermission(s) \/ SubmitPin(s)
       \/ CancelPin(s) \/ GoBackFromPin(s) \/ CloseScreen(s) \/ FailToCall(s)
       \/ GoBack(s)
  BY DEF User
<1>0. AppTypeOK
  BY DEF TypeOK
<1>1. /\ toGo \in Seq(ConsentedMessage')
      /\ StatesConfirmed(states, confirmed')
      /\ StatesConfirmed(emitted, confirmed')
      /\ StatesConfirmed(painted, confirmed')
  BY ConsentStays, HistoryGrows, ConfirmedWiden DEF ConsentInv
<1>2. \A m \in Message : m \in ConsentedMessage' /\ Bridge(m) =>
                           toGo' \in Seq(ConsentedMessage')
  BY <1>1, AppendProperties DEF Bridge
<1>3. \A m \in Message : m.type # "RespondPermission" \/ ~m.proceed =>
                           m \in ConsentedMessage'
  BY DEF ConsentedMessage
<1>4. /\ MessageOf("NewSession", s) \in ConsentedMessage'
      /\ MessageOf("DismissSession", s) \in ConsentedMessage'
      /\ Respond("RespondPermission", s, FALSE, NoChoice) \in ConsentedMessage'
      /\ \A proceed \in BOOLEAN :
           Respond("RespondPin", s, proceed, NoChoice) \in ConsentedMessage'
  BY <1>3, MessagesType DEF MessageType, MessageOf, Respond, Choice
<1>5. \A st : ChoicesConfirmed(s, st, confirmed'[s]) /\ SetState(s, st) =>
         StatesConfirmed(states', confirmed') /\ StatesConfirmed(emitted', confirmed')
  BY <1>0, <1>1, SetStateConfirmed
<1>6. /\ states[s] \in State /\ painted[s] \in State
      /\ ChoicesConfirmed(s, states[s], confirmed'[s])
      /\ ChoicesConfirmed(s, painted[s], confirmed'[s])
  BY <1>0, <1>1 DEF AppTypeOK, StatesConfirmed
<1>7. CASE StartSession(s)
  <2>1. ChoicesConfirmed(s, NewSessionState, confirmed'[s])
    BY DEF ChoicesConfirmed, NewSessionState, Absent
  <2> QED
    BY <1>0, <1>1, <1>2, <1>4, <1>7, <2>1
    DEF StartSession, AppTypeOK, StatesConfirmed, ConsentedMessage
<1>8. CASE DismissSession(s) \/ CancelPin(s) \/ SubmitPin(s)
  BY <1>1, <1>2, <1>4, <1>8
  DEF DismissSession, CancelPin, SubmitPin, appVars, ConsentedMessage
<1>9. CASE ConfirmDisclosure(s)
  <2> DEFINE c == states[s].candidates
             answer == Respond("RespondPermission", s, TRUE, c)
  <2>1. c \in confirmed'[s] /\ c \in Choice
    BY <1>0, <1>6, <1>9 DEF ConfirmDisclosure, AppTypeOK, State, Choice
  <2>2. Kind[s] # "issuing"
    BY <1>6, <1>9 DEF ConfirmDisclosure, ChoicesConfirmed
  <2>3. CASE IsIssuanceSession(s)
    <3>1. ChoicesConfirmed(s, ContinuedToIssuance(states[s], c), confirmed'[s])
      BY <1>6, <2>1, <2>2, <2>3, ReducerConfirmed
    <3> QED
      BY <1>1, <1>5, <1>9, <2>3, <3>1 DEF ConfirmDisclosure
  <2>4. CASE ~IsIssuanceSession(s)
    <3>1. ChoicesConfirmed(s, PermissionResponded(states[s], TRUE, c), confirmed'[s])
      BY <1>6, <2>2, ReducerConfirmed
    <3>2. answer \in ConsentedMessage'
      BY <2>1, <2>2, <2>4, MessagesType
      DEF ConsentedMessage, Consented, Respond, MessageType, IsIssuanceSession
    <3> QED
      BY <1>1, <1>2, <1>5, <1>9, <2>4, <3>1, <3>2 DEF ConfirmDisclosure, ConsentedMessage
  <2> QED
    BY <2>3, <2>4
<1>10. CASE DeclineDisclosure(s)
  <2>1. ChoicesConfirmed(s, PermissionResponded(states[s], FALSE, NoChoice), confirmed'[s])
    BY <1>6, ReducerConfirmed
  <2> QED
    BY <1>1, <1>2, <1>4, <1>5, <1>10, <2>1 DEF DeclineDisclosure, ConsentedMessage
<1>11. CASE GiveIssuancePermission(s)
  <2> DEFINE c == painted[s].choices
             answer == Respond("RespondPermission", s, TRUE, c)
  <2>1. /\ Kind[s] # "disclosing"
        /\ Kind[s] = "issuing" => c = NoChoice
        /\ Kind[s] # "issuing" => c \in confirmed'[s]
        /\ s \in given'
        /\ c \in Choice
    BY <1>6, <1>11 DEF GiveIssuancePermission, ChoicesConfirmed, State
  <2>2. ChoicesConfirmed(s, PermissionResponded(states[s], TRUE, c), confirmed'[s])
    BY <1>6, <2>1, ReducerConfirmed
  <2>3. answer \in ConsentedMessage'
    BY <2>1, MessagesType DEF ConsentedMessage, Consented, Respond, MessageType
  <2> QED
    BY <1>1, <1>2, <1>5, <1>11, <2>2, <2>3 DEF GiveIssuancePermission, ConsentedMessage
<1>12. CASE GoBackFromPin(s) \/ CloseScreen(s) \/ GoBack(s)
  BY <1>1, <1>12 DEF GoBackFromPin, CloseScreen, GoBack, channels
<1>13. CASE FailToCall(s)
  <2>1. ChoicesConfirmed(s, OpenFailed(states[s]), confirmed'[s])
    BY <1>6, ReducerConfirmed
  <2> QED
    BY <1>1, <1>5, <1>13, <2>1 DEF FailToCall, channels
<1> QED
  BY <1>7, <1>8, <1>9, <1>10, <1>11, <1>12, <1>13

LEMMA AppSystemConsent ==
  ASSUME TypeOK, ConsentInv, [Next]_vars, AppSystem
  PROVE  /\ toGo' \in Seq(ConsentedMessage')
         /\ StatesConfirmed(states', confirmed')
         /\ StatesConfirmed(emitted', confirmed')
         /\ StatesConfirmed(painted', confirmed')
<1>0. AppTypeOK
  BY DEF TypeOK
<1>1. /\ toGo \in Seq(ConsentedMessage')
      /\ StatesConfirmed(states, confirmed')
      /\ StatesConfirmed(emitted, confirmed')
      /\ StatesConfirmed(painted, confirmed')
  BY ConsentStays, HistoryGrows, ConfirmedWiden DEF ConsentInv
<1>2. \A m \in Message : m \in ConsentedMessage' /\ Bridge(m) =>
                           toGo' \in Seq(ConsentedMessage')
  BY <1>1, AppendProperties DEF Bridge
<1>3. \A s \in Session :
        /\ MessageOf("DismissSession", s) \in ConsentedMessage'
        /\ Respond("RespondPin", s, FALSE, NoChoice) \in ConsentedMessage'
  BY MessagesType DEF ConsentedMessage, MessageType, MessageOf, Respond, Choice
<1>4. \A s \in Session : \A st : ChoicesConfirmed(s, st, confirmed'[s]) /\ SetState(s, st) =>
         StatesConfirmed(states', confirmed') /\ StatesConfirmed(emitted', confirmed')
  BY <1>0, <1>1, SetStateConfirmed
<1>5. \A s \in Session :
        states[s] \in State /\ ChoicesConfirmed(s, states[s], confirmed'[s])
  BY <1>0, <1>1 DEF AppTypeOK, StatesConfirmed
<1>6. ASSUME NEW s \in Session, Paint(s)
      PROVE  /\ toGo' \in Seq(ConsentedMessage')
             /\ StatesConfirmed(states', confirmed')
             /\ StatesConfirmed(emitted', confirmed')
             /\ StatesConfirmed(painted', confirmed')
  <2>1. toGo' \in Seq(ConsentedMessage')
    BY <1>1, <1>6 DEF Paint, channels
  <2>2. StatesConfirmed(painted', confirmed')
    BY <1>0, <1>1, <1>6 DEF Paint, AppTypeOK, StatesConfirmed
  <2>3. ChoicesConfirmed(s, OpenFailed(states[s]), confirmed'[s])
    BY <1>5, ReducerConfirmed
  <2>4. UNCHANGED <<states, emitted>> \/ SetState(s, OpenFailed(states[s]))
    BY <1>6 DEF Paint, OpenReturnURL
  <2>5. StatesConfirmed(states', confirmed') /\ StatesConfirmed(emitted', confirmed')
    BY <1>1, <1>4, <2>3, <2>4
  <2> QED
    BY <2>1, <2>2, <2>5
<1>7. ASSUME NEW s \in Session, Dispose(s)
      PROVE  /\ toGo' \in Seq(ConsentedMessage')
             /\ StatesConfirmed(states', confirmed')
             /\ StatesConfirmed(emitted', confirmed')
             /\ StatesConfirmed(painted', confirmed')
  BY <1>1, <1>2, <1>3, <1>7 DEF Dispose, ConsentedMessage
<1>8. CASE ReceiveEvent
  <2> DEFINE e == Head(toDart)
  <2>1. e \in Event /\ e.id \in Session
    <3>1. toDart # <<>> /\ toDart \in Seq(Event)
      BY <1>8 DEF ReceiveEvent, TypeOK
    <3>2. e \in Event
      BY <3>1, HeadTailProperties
    <3> HIDE DEF e
    <3> QED
      BY <3>2 DEF Event
  <2>2. ChoicesConfirmed(e.id, EventHandler(states[e.id], e), confirmed'[e.id])
    BY <1>5, <2>1, ReducerConfirmed
  <2>3. UNCHANGED <<states, emitted>> \/ SetState(e.id, EventHandler(states[e.id], e))
    BY <1>8 DEF ReceiveEvent
  <2>4. StatesConfirmed(states', confirmed') /\ StatesConfirmed(emitted', confirmed')
    BY <1>1, <1>4, <2>1, <2>2, <2>3
  <2>5. toGo' \in Seq(ConsentedMessage')
    BY <1>1, <1>2, <1>3, <1>8, <2>1 DEF ReceiveEvent, ReleaseBacks, ConsentedMessage
  <2> QED
    BY <1>1, <1>8, <2>4, <2>5 DEF ReceiveEvent
<1> QED
  BY <1>6, <1>7, <1>8 DEF AppSystem

\* The bridge: it passes on what it was given, and irmaclient proceeds with
\* nothing else.
LEMMA BridgeSystemConsent ==
  ASSUME TypeOK, ConsentInv, BridgeSystem
  PROVE  /\ toGo' \in Seq(ConsentedMessage)
         /\ calls' \subseteq ConsentedMessage
         /\ \A s \in Session : \A c \in used'[s] : Consented(s, c)
<1>1. \A s \in Session : \A c \in used[s] : Consented(s, c)
  BY DEF ConsentInv, ConsentBeforeDisclosure
<1>2. CASE DispatchFromNative
  <2>1. Head(toGo) \in ConsentedMessage /\ toGo' \in Seq(ConsentedMessage)
    BY <1>2, HeadTailProperties DEF DispatchFromNative, ConsentInv
  <2>2. used' = used
    BY <1>2 DEF DispatchFromNative, NewSession, RespondGo, DismissGo, Dismiss, Cancel,
                Ignore, clientVars
  <2>3. calls' \subseteq ConsentedMessage
    BY <1>2, <2>1 DEF DispatchFromNative, NewSession, RespondGo, DismissGo, ConsentInv
  <2> QED
    BY <1>1, <2>1, <2>2, <2>3
<1>3. ASSUME NEW m \in calls, RunCall(m)
      PROVE  /\ toGo' \in Seq(ConsentedMessage)
             /\ calls' \subseteq ConsentedMessage
             /\ \A s \in Session : \A c \in used'[s] : Consented(s, c)
  <2>1. m \in ConsentedMessage
    BY DEF ConsentInv
  <2>2. CASE used' = used
    BY <1>1, <1>3, <2>2 DEF RunCall, ConsentInv
  <2>3. CASE /\ m.type = "RespondPermission" /\ m.proceed
             /\ used' = [used EXCEPT ![m.id] = @ \union {m.choice}]
    <3>1. Consented(m.id, m.choice)
      BY <2>1, <2>3 DEF ConsentedMessage
    <3>2. used \in [Session -> SUBSET Choice]
      BY DEF TypeOK, BridgeTypeOK
    <3> QED
      BY <1>1, <1>3, <2>3, <3>1, <3>2 DEF RunCall, ConsentInv
  <2> QED
    BY <1>3, <2>2, <2>3
    DEF RunCall, AnswerPermission, AnswerPin, Cancel, Ignore, clientVars
<1> QED
  BY <1>2, <1>3 DEF BridgeSystem

LEMMA ConsentInit == Init => ConsentInv
BY EmptySeq DEF Init, AppInit, BridgeInit, ChannelsInit, ConsentInv,
  ConsentBeforeDisclosure, StatesConfirmed, ChoicesConfirmed, Absent

LEMMA ConsentStep == TypeOK /\ ConsentInv /\ [Next]_vars => ConsentInv'
<1> SUFFICES ASSUME TypeOK, ConsentInv, [Next]_vars PROVE ConsentInv'
  OBVIOUS
<1>1. CASE AppStep
  <2>1. calls' = calls /\ used' = used
    BY <1>1 DEF AppStep, bridgeVars, clientVars
  <2>2. calls' \subseteq ConsentedMessage'
    BY <2>1, ConsentStays DEF ConsentInv
  <2>3. ConsentBeforeDisclosure'
    BY <2>1, ConsentStays DEF ConsentInv, ConsentBeforeDisclosure
  <2> QED
    BY <1>1, <2>2, <2>3, UserConsent, AppSystemConsent DEF AppStep, ConsentInv
<1>2. CASE BridgeStep
  <2>1. ConsentedMessage' = ConsentedMessage
    BY <1>2 DEF BridgeStep, appVars, ConsentedMessage, Consented
  <2>2. /\ toGo' \in Seq(ConsentedMessage)
        /\ calls' \subseteq ConsentedMessage
        /\ \A s \in Session : \A c \in used'[s] : Consented(s, c)
    BY <1>2, BridgeSystemConsent DEF BridgeStep
  <2>3. ConsentBeforeDisclosure'
    BY <1>2, <2>2 DEF BridgeStep, appVars, ConsentBeforeDisclosure, Consented
  <2> QED
    BY <1>2, <2>1, <2>2, <2>3 DEF BridgeStep, appVars, ConsentInv, StatesConfirmed
<1>3. CASE IrmaClientStep \/ UNCHANGED vars
  <2>1. UNCHANGED <<appVars, toGo, calls, used>>
    BY <1>3 DEF IrmaClientStep, ClientStep, ClientConnect, ClientPair, ClientAsk,
                ClientRefresh, ClientAskPin, ClientNotEnrolled, ClientSucceed, ClientFail,
                vars, bridgeVars, clientVars, channels
  <2>2. ConsentedMessage' = ConsentedMessage
    BY <2>1 DEF appVars, ConsentedMessage, Consented
  <2> QED
    BY <2>1, <2>2 DEF appVars, ConsentInv, ConsentBeforeDisclosure, Consented, StatesConfirmed
<1> QED
  BY <1>1, <1>2, <1>3 DEF Next

\* No session proceeds without the consent of the user, whatever the sessions,
\* the candidates, the interleaving and the taps.
THEOREM ConsentTheorem == Spec => []ConsentBeforeDisclosure
<1>1. Init => TypeOK /\ ConsentInv
  BY TypeOKInit, ConsentInit
<1>2. TypeOK /\ ConsentInv /\ [Next]_vars => (TypeOK /\ ConsentInv)'
  BY TypeOKStep, ConsentStep
<1>3. TypeOK /\ ConsentInv => ConsentBeforeDisclosure
  BY DEF ConsentInv
<1> QED
  BY <1>1, <1>2, <1>3, PTL DEF Spec

-----------------------------------------------------------------------------
(* What a step of the app or of the bridge can do to one session: the      *)
(* lemmas the inductive invariants about states, screens and messages rest *)
(* on.                                                                     *)

\* The actions of the user on the screen of session s.
Taps(s) ==
  \/ StartSession(s) \/ DismissSession(s) \/ ConfirmDisclosure(s)
  \/ DeclineDisclosure(s) \/ GiveIssuancePermission(s) \/ SubmitPin(s)
  \/ CancelPin(s) \/ GoBackFromPin(s) \/ CloseScreen(s) \/ FailToCall(s)
  \/ GoBack(s)

\* A step of the app is one of the system or of the user, on one session.
LEMMA AppCases ==
  ASSUME AppStep
  PROVE  ReceiveEvent \/ \E s \in Session : Paint(s) \/ Dispose(s) \/ Taps(s)
BY DEF AppStep, AppSystem, User, Taps

\* The event of Go the app takes next, and those that stay.
LEMMA NextEvent ==
  ASSUME TypeOK, toDart # <<>>
  PROVE  /\ Len(toDart) \in Nat \ {0}
         /\ DOMAIN toDart = 1 .. Len(toDart)
         /\ Head(toDart) = toDart[1]
         /\ Head(toDart) \in Event /\ Head(toDart).id \in Session
         /\ Tail(toDart) \in Seq(Event)
         /\ DOMAIN Tail(toDart) = 1 .. Len(toDart) - 1
         /\ \A i \in 1 .. Len(toDart) - 1 : Tail(toDart)[i] = toDart[i + 1]
<1>1. toDart \in Seq(Event) /\ toDart # <<>>
  BY DEF TypeOK
<1>2. Head(toDart) \in Event
  BY <1>1, HeadTailProperties
<1>3. Head(toDart).id \in Session
  BY <1>2 DEF Event
<1>4. Len(toDart) \in Nat \ {0} /\ DOMAIN toDart = 1 .. Len(toDart)
  BY <1>1, EmptySeq, LenProperties
<1>5. Tail(toDart) \in Seq(Event)
  BY <1>1, HeadTailProperties
<1>6. /\ Len(Tail(toDart)) = Len(toDart) - 1
      /\ \A i \in 1 .. Len(toDart) - 1 : Tail(toDart)[i] = toDart[i + 1]
  BY <1>1, HeadTailProperties
<1>7. DOMAIN Tail(toDart) = 1 .. Len(toDart) - 1
  BY <1>5, <1>6, LenProperties
<1> QED
  BY <1>1, <1>2, <1>3, <1>4, <1>5, <1>6, <1>7

-----------------------------------------------------------------------------
(* The states. *)

\* The repository hears the next event of session x.
Hears(x) == ReceiveEvent /\ Head(toDart).id = x /\ states[x].status # "absent"

\* The state st that a step makes of the state of session x, other than the
\* first one.
Becomes(x, st) ==
  \/ Hears(x) /\ st = EventHandler(states[x], Head(toDart))
  \/ /\ ConfirmDisclosure(x)
     /\ LET c == states[x].candidates
        IN  \/ st = ContinuedToIssuance(states[x], c) /\ IsIssuanceSession(x)
            \/ st = PermissionResponded(states[x], TRUE, c) /\ ~IsIssuanceSession(x)
  \/ DeclineDisclosure(x) /\ st = PermissionResponded(states[x], FALSE, NoChoice)
  \/ GiveIssuancePermission(x) /\ st = PermissionResponded(states[x], TRUE, painted[x].choices)
  \/ /\ Paint(x) /\ emitted[x].status \in {"success", "canceled"}
     /\ st = OpenFailed(states[x])
  \/ FailToCall(x) /\ st = OpenFailed(states[x])

\* What an event makes of a state, told by what the events do to the status.
LEMMA EventHandlerStatus ==
  ASSUME NEW st \in State, NEW e \in Event
  PROVE  LET after == EventHandler(st, e)
         IN  /\ after.choices = st.choices
             /\ after.status =
                  CASE e.type \in {"Failure", "KeyshareEnrollment"} -> "error"
                    [] e.type = "StatusUpdate" ->
                         IF e.status = "communicating" THEN "communicating" ELSE st.status
                    [] e.type = "PairingRequired" -> "pairing"
                    [] e.type = "RequestPermission" ->
                         IF e.id \in Unsupported THEN "error"
                         ELSE IF Kind[e.id] = "issuing" THEN "requestIssuancePermission"
                         ELSE "requestDisclosurePermission"
                    [] e.type = "Success" -> "success"
                    [] e.type = "Canceled" -> "canceled"
                    [] e.type = "RequestPin" -> "requestPin"
                    [] OTHER -> st.status
             /\ e.type = "KeyshareBlocked" => after = st
             /\ after.status = "error" /\ st.status # "error" => after.error = "session"
<1> USE DEF State
<1>1. e.type \in EventType /\ e.status \in ClientStatus /\ e.id \in Session
  BY DEF Event
<1>2. /\ Failed(st).choices = st.choices /\ Failed(st).status = "error"
      /\ Failed(st).error = "session"
  BY DEF Failed
<1>3. /\ StatusUpdated(st, e.status).choices = st.choices
      /\ StatusUpdated(st, e.status).status =
           IF e.status = "communicating" THEN "communicating" ELSE st.status
  BY <1>1 DEF StatusUpdated, ClientStatus, SessionStatus
<1>4. /\ PermissionRequested(st, e.id, e.wallet).choices = st.choices
      /\ PermissionRequested(st, e.id, e.wallet).status =
           IF e.id \in Unsupported THEN "error"
           ELSE IF Kind[e.id] = "issuing" THEN "requestIssuancePermission"
           ELSE "requestDisclosurePermission"
      /\ e.id \in Unsupported => PermissionRequested(st, e.id, e.wallet).error = "session"
  BY <1>2 DEF PermissionRequested
<1>5. \A v : /\ [st EXCEPT !.status = v].choices = st.choices
             /\ [st EXCEPT !.status = v].status = v
  OBVIOUS
<1>6. /\ [st EXCEPT !.url = ReturnURL[e.id]].choices = st.choices
      /\ [st EXCEPT !.url = ReturnURL[e.id]].status = st.status
  OBVIOUS
<1> HIDE DEF State
<1> QED
  BY <1>1, <1>2, <1>3, <1>4, <1>5, <1>6 DEF EventHandler, EventType

\* The other operators of the reducer.
LEMMA ReducerStatus ==
  ASSUME NEW st \in State, NEW c, NEW proceed
  PROVE  /\ ContinuedToIssuance(st, c).status = "requestIssuancePermission"
         /\ PermissionResponded(st, proceed, c).status = "communicating"
         /\ OpenFailed(st).status = "error"
         /\ OpenFailed(st).error = "clientReturnUrl"
BY DEF State, ContinuedToIssuance, PermissionResponded, OpenFailed

LEMMA BecomesState ==
  ASSUME TypeOK, NEW x \in Session, NEW st, Becomes(x, st)
  PROVE  st \in State
<1>1. /\ states[x] \in State /\ painted[x].choices \in Choice
      /\ states[x].candidates \in Choice /\ NoChoice \in Choice
  BY DEF TypeOK, AppTypeOK, State, Choice
<1>2. toDart # <<>> => Head(toDart) \in Event
  BY NextEvent
<1>3. CASE Hears(x) /\ st = EventHandler(states[x], Head(toDart))
  BY <1>1, <1>2, <1>3, ReducerType DEF Hears, ReceiveEvent
<1>4. CASE ~(Hears(x) /\ st = EventHandler(states[x], Head(toDart)))
  <2>1. OpenFailed(states[x]) \in State
    BY <1>1, ReducerType
  <2>2. \A c \in Choice : /\ ContinuedToIssuance(states[x], c) \in State
                         /\ PermissionResponded(states[x], TRUE, c) \in State
                         /\ PermissionResponded(states[x], FALSE, c) \in State
    BY <1>1, ReducerType
  <2> QED
    BY <1>1, <1>4, <2>1, <2>2 DEF Becomes
<1> QED
  BY <1>3, <1>4

\* A step of the app keeps what the repository and the stream hold of session
\* x, starts x, or publishes the state it becomes.
LEMMA StatesMove ==
  ASSUME TypeOK, AppStep, NEW x \in Session
  PROVE  \/ states'[x] = states[x] /\ emitted'[x] = emitted[x]
         \/ StartSession(x)
         \/ \E st \in State : Becomes(x, st) /\ SetState(x, st)
<1>1. \A s \in Session : \A st : SetState(s, st) /\ s # x =>
                               states'[x] = states[x] /\ emitted'[x] = emitted[x]
  BY DEF SetState, TypeOK, AppTypeOK
<1>2. \A st : Becomes(x, st) => st \in State
  BY BecomesState
<1>3. CASE ReceiveEvent
  <2>1. Head(toDart) \in Event /\ Head(toDart).id \in Session
    BY <1>3, NextEvent DEF ReceiveEvent
  <2>2. CASE Hears(x)
    BY <1>2, <1>3, <2>2 DEF ReceiveEvent, Becomes, Hears
  <2> QED
    BY <1>1, <1>3, <2>1, <2>2 DEF ReceiveEvent, Hears
<1>4. ASSUME NEW s \in Session, Paint(s)
      PROVE  \/ states'[x] = states[x] /\ emitted'[x] = emitted[x]
             \/ \E st \in State : Becomes(x, st) /\ SetState(x, st)
  <2>1. \/ UNCHANGED <<states, emitted>>
        \/ /\ SetState(s, OpenFailed(states[s]))
           /\ emitted[s].status \in {"success", "canceled"}
    BY <1>4 DEF Paint, OpenReturnURL
  <2> QED
    BY <1>1, <1>2, <1>4, <2>1 DEF Becomes
<1>5. ASSUME NEW s \in Session, Taps(s)
      PROVE  \/ states'[x] = states[x] /\ emitted'[x] = emitted[x]
             \/ StartSession(x)
             \/ \E st \in State : Becomes(x, st) /\ SetState(x, st)
  <2>1. CASE StartSession(s)
    BY <2>1 DEF StartSession, TypeOK, AppTypeOK
  <2>2. CASE ConfirmDisclosure(s)
    BY <1>1, <1>2, <2>2 DEF ConfirmDisclosure, Becomes
  <2>3. CASE DeclineDisclosure(s)
    BY <1>1, <1>2, <2>3 DEF DeclineDisclosure, Becomes
  <2>4. CASE GiveIssuancePermission(s)
    BY <1>1, <1>2, <2>4 DEF GiveIssuancePermission, Becomes
  <2>5. CASE FailToCall(s)
    BY <1>1, <1>2, <2>5 DEF FailToCall, Becomes
  <2> QED
    BY <1>5, <2>1, <2>2, <2>3, <2>4, <2>5
    DEF Taps, DismissSession, SubmitPin, CancelPin, GoBackFromPin, CloseScreen, GoBack,
        appVars
<1> QED
  BY <1>3, <1>4, <1>5, AppCases DEF Dispose

\* What is painted of session x changes in its frames and when it starts.
LEMMA PaintedMove ==
  ASSUME TypeOK, AppStep, NEW x \in Session
  PROVE  \/ painted'[x] = painted[x]
         \/ Paint(x) /\ painted'[x] = emitted[x]
         \/ StartSession(x)
<1>1. CASE ReceiveEvent
  BY <1>1 DEF ReceiveEvent
<1>2. ASSUME NEW s \in Session, Paint(s) \/ Dispose(s)
      PROVE  painted'[x] = painted[x] \/ (Paint(x) /\ painted'[x] = emitted[x])
  BY <1>2 DEF Paint, Dispose, TypeOK, AppTypeOK
<1>3. ASSUME NEW s \in Session, Taps(s)
      PROVE  painted'[x] = painted[x] \/ StartSession(x)
  BY <1>3 DEF Taps, StartSession, DismissSession, ConfirmDisclosure, DeclineDisclosure,
              GiveIssuancePermission, SubmitPin, CancelPin, GoBackFromPin, CloseScreen,
              FailToCall, GoBack, appVars, TypeOK, AppTypeOK
<1> QED
  BY <1>1, <1>2, <1>3, AppCases

\* The state session x starts in.
LEMMA Starting ==
  ASSUME TypeOK, NEW x \in Session, StartSession(x)
  PROVE  /\ states[x].status = "absent"
         /\ states'[x] = NewSessionState
         /\ emitted'[x] = NewSessionState
         /\ painted'[x] = NewSessionState
         /\ NewSessionState.status = "initialized"
BY DEF StartSession, TypeOK, AppTypeOK, NewSessionState, Absent

-----------------------------------------------------------------------------
(* The screens. *)

\* Only a start puts a screen on the stack, and screens leave from the stack.
LEMMA StackMove ==
  ASSUME TypeOK, AppStep, NEW x \in Session
  PROVE  /\ OnStack(x)' => OnStack(x) \/ StartSession(x)
         /\ x \in leaving' => OnStack(x) \/ x \in leaving
<1>0. /\ stack \in Seq(Session) /\ Len(stack) \in Nat
      /\ DOMAIN stack = 1 .. Len(stack)
  BY LenProperties DEF TypeOK, AppTypeOK
<1>1. CASE Stay
  BY <1>1 DEF Stay, OnStack
<1>2. CASE GoHome
  BY <1>2 DEF GoHome, OnStack
<1>3. CASE PopTop /\ stack # <<>>
  <2>1. Len(stack) \in Nat \ {0}
    BY <1>0, <1>3, EmptySeq
  <2>2. \A i \in 1 .. Len(stack) - 1 : stack[i] \in Session
    BY <1>0, <2>1, ElementOfSeq
  <2>3. /\ stack' \in Seq(Session) /\ Len(stack') = Len(stack) - 1
        /\ \A i \in 1 .. Len(stack) - 1 : stack'[i] = stack[i]
    BY <1>0, <1>3, <2>1, <2>2, SubSeqProperties DEF PopTop
  <2>4. DOMAIN stack' = 1 .. Len(stack) - 1
    BY <2>3, LenProperties
  <2> QED
    BY <1>0, <1>3, <2>1, <2>3, <2>4 DEF PopTop, OnStack
<1>4. ASSUME NEW s \in Session, StartSession(s)
      PROVE  /\ OnStack(x)' => OnStack(x) \/ StartSession(x)
             /\ x \in leaving' => OnStack(x) \/ x \in leaving
  <2>1. /\ stack' \in Seq(Session) /\ Len(stack') = Len(stack) + 1
        /\ \A i \in 1 .. Len(stack) : stack'[i] = stack[i]
        /\ stack'[Len(stack) + 1] = s
    BY <1>0, <1>4, AppendProperties DEF StartSession
  <2>2. DOMAIN stack' = 1 .. Len(stack) + 1
    BY <2>1, LenProperties
  <2>3. OnStack(x)' => OnStack(x) \/ x = s
    BY <1>0, <2>1, <2>2 DEF OnStack
  <2> QED
    BY <1>4, <2>3 DEF StartSession
<1>5. ASSUME NEW s \in Session, Paint(s)
      PROVE  stack # <<>> /\ (Stay \/ GoHome \/ PopTop)
  <2>1. stack # <<>>
    BY <1>5, OnStackNotEmpty DEF Paint, TypeOK
  <2> QED
    BY <1>5, <2>1 DEF Paint, OpenReturnURL, PopToUnderlyingOrHome
<1>6. ASSUME NEW s \in Session, Dispose(s)
      PROVE  /\ OnStack(x)' => OnStack(x)
             /\ x \in leaving' => x \in leaving
  BY <1>6 DEF Dispose, OnStack
<1>7. ASSUME NEW s \in Session, Taps(s), ~StartSession(s)
      PROVE  stack # <<>> /\ (Stay \/ GoHome \/ PopTop)
  BY <1>7 DEF Taps, DismissSession, ConfirmDisclosure, DeclineDisclosure,
              GiveIssuancePermission, SubmitPin, CancelPin, GoBackFromPin, CloseScreen,
              FailToCall, GoBack, CanTap, Stay, appVars
<1> QED
  BY <1>1, <1>2, <1>3, <1>4, <1>5, <1>6, <1>7, AppCases DEF ReceiveEvent

\* The PIN bloc of session x is made by a frame, closed with the screen, and
\* moved by the user and by events of the session.
LEMMA PinMove ==
  ASSUME TypeOK, AppStep, NEW x \in Session
  PROVE  \/ pin'[x] = pin[x]
         \/ Paint(x) /\ pin'[x] = PinAfterFrame(x, emitted[x])
         \/ Dispose(x) /\ pin'[x] = "closed"
         \/ SubmitPin(x) /\ pin[x] = "idle" /\ pin'[x] = "busy"
         \/ /\ ReceiveEvent /\ Head(toDart).id = x /\ pin[x] = "busy"
            /\ pin'[x] = IF Head(toDart).type \in {"RequestPin", "KeyshareBlocked"}
                          THEN "idle" ELSE "authenticated"
<1> USE DEF TypeOK, AppTypeOK
<1>1. CASE ReceiveEvent
  BY <1>1, NextEvent DEF ReceiveEvent, PinAfterEvent
<1>2. ASSUME NEW s \in Session, Paint(s)
      PROVE  pin'[x] = pin[x] \/ (Paint(x) /\ pin'[x] = PinAfterFrame(x, emitted[x]))
  BY <1>2 DEF Paint
<1>3. ASSUME NEW s \in Session, Dispose(s)
      PROVE  pin'[x] = pin[x] \/ (Dispose(x) /\ pin'[x] = "closed")
  BY <1>3 DEF Dispose
<1>4. ASSUME NEW s \in Session, Taps(s)
      PROVE  pin'[x] = pin[x] \/ (SubmitPin(x) /\ pin[x] = "idle" /\ pin'[x] = "busy")
  BY <1>4 DEF Taps, StartSession, DismissSession, ConfirmDisclosure, DeclineDisclosure,
              GiveIssuancePermission, SubmitPin, CancelPin, GoBackFromPin, CloseScreen,
              FailToCall, GoBack, appVars
<1> QED
  BY <1>1, <1>2, <1>3, <1>4, AppCases

-----------------------------------------------------------------------------
(* The messages. *)

\* What lets the app send message m.
MaySend(m) ==
  \/ m.type = "NewSession" /\ StartSession(m.id)
  \/ m.type = "DismissSession" /\ (OnStack(m.id) \/ m.id \in leaving)
  \/ /\ m.type = "RespondPermission" /\ OnStack(m.id)
     /\ painted[m.id].status \in
          {"requestDisclosurePermission", "requestIssuancePermission"}
  \/ m.type = "RespondPin" /\ pin[m.id] # "closed"

\* A tap is on a screen of the stack.
LEMMA TapOnStack ==
  ASSUME TypeOK, NEW s \in Session, CanTap(s)
  PROVE  OnStack(s) /\ (~FrameLag => painted[s] = emitted[s])
<1>1. Len(stack) \in DOMAIN stack /\ stack[Len(stack)] = s
  BY EmptySeq, LenProperties DEF CanTap, TypeOK, AppTypeOK
<1> QED
  BY <1>1 DEF CanTap, OnStack, Settled

\* A step of the app sends one message at most, and a tap has the screen for
\* it.
LEMMA Sends ==
  ASSUME TypeOK, AppStep
  PROVE  \/ toGo' = toGo
         \/ \E m \in Message : toGo' = Append(toGo, m) /\ MaySend(m)
<1>1. \A s \in Session :
        /\ MessageOf("NewSession", s) \in Message
        /\ MessageOf("DismissSession", s) \in Message
        /\ \A type \in {"RespondPermission", "RespondPin"} :
             \A proceed \in BOOLEAN, c \in Choice : Respond(type, s, proceed, c) \in Message
  BY MessagesType DEF MessageType
<1>2. NoChoice \in Choice /\ \A w \in Wallet : w \in Choice
  BY DEF Choice
<1>3. \A s \in Session : \A proceed, c :
        /\ StartSession(s) => MaySend(MessageOf("NewSession", s))
        /\ OnStack(s) \/ s \in leaving => MaySend(MessageOf("DismissSession", s))
        /\ /\ OnStack(s)
           /\ painted[s].status \in
                {"requestDisclosurePermission", "requestIssuancePermission"}
           => MaySend(Respond("RespondPermission", s, proceed, c))
        /\ pin[s] # "closed" => MaySend(Respond("RespondPin", s, proceed, c))
  BY DEF MaySend, MessageOf, Respond
<1> DEFINE Sent == \E m \in Message : toGo' = Append(toGo, m) /\ MaySend(m)
<1>4. \A m \in Message : MaySend(m) /\ Bridge(m) => Sent
  BY DEF Bridge
<1> HIDE DEF Sent
<1>5. ASSUME ReceiveEvent
      PROVE  toGo' = toGo \/ Sent
  <2>1. PICK s \in Session : s = Head(toDart).id
    BY <1>5, NextEvent DEF ReceiveEvent
  <2>2. \/ toGo' = toGo
        \/ pin[s] = "busy" /\ Bridge(Respond("RespondPin", s, FALSE, NoChoice))
    BY <1>5, <2>1 DEF ReceiveEvent, ReleaseBacks
  <2>3. Respond("RespondPin", s, FALSE, NoChoice) \in Message
    BY <1>1, <1>2
  <2>4. pin[s] = "busy" => MaySend(Respond("RespondPin", s, FALSE, NoChoice))
    BY <1>3
  <2> QED
    BY <1>4, <2>2, <2>3, <2>4
<1>6. ASSUME NEW s \in Session, Paint(s)
      PROVE  toGo' = toGo
  BY <1>6 DEF Paint, channels
<1>7. ASSUME NEW s \in Session, Dispose(s)
      PROVE  toGo' = toGo \/ Sent
  BY <1>1, <1>3, <1>4, <1>7 DEF Dispose
<1>8. ASSUME NEW s \in Session, Taps(s)
      PROVE  toGo' = toGo \/ Sent
  <2>1. CASE StartSession(s)
    BY <1>1, <1>3, <1>4, <2>1 DEF StartSession
  <2>2. CASE DismissSession(s)
    BY <1>1, <1>3, <1>4, <2>2, TapOnStack DEF DismissSession
  <2>3. CASE ConfirmDisclosure(s)
    <3>1. states[s].candidates \in Choice
      BY <1>2 DEF TypeOK, AppTypeOK, State
    <3> QED
      BY <1>1, <1>3, <1>4, <2>3, <3>1, TapOnStack DEF ConfirmDisclosure
  <2>4. CASE DeclineDisclosure(s)
    BY <1>1, <1>2, <1>3, <1>4, <2>4, TapOnStack DEF DeclineDisclosure
  <2>5. CASE GiveIssuancePermission(s)
    <3>1. painted[s].choices \in Choice
      BY DEF TypeOK, AppTypeOK, State
    <3> QED
      BY <1>1, <1>3, <1>4, <2>5, <3>1, TapOnStack DEF GiveIssuancePermission
  <2>6. CASE SubmitPin(s)
    BY <1>1, <1>2, <1>3, <1>4, <2>6 DEF SubmitPin
  <2>7. CASE CancelPin(s)
    BY <1>1, <1>2, <1>3, <1>4, <2>7 DEF CancelPin
  <2> QED
    BY <1>8, <2>1, <2>2, <2>3, <2>4, <2>5, <2>6, <2>7
    DEF Taps, GoBackFromPin, CloseScreen, FailToCall, GoBack, channels
<1> QED
  BY <1>5, <1>6, <1>7, <1>8, AppCases DEF Sent

\* Events leave the channel to the app one by one.
LEMMA Takes ==
  ASSUME AppStep
  PROVE  toDart' = toDart \/ (ReceiveEvent /\ toDart # <<>> /\ toDart' = Tail(toDart))
BY AppCases
DEF ReceiveEvent, Paint, Dispose, Taps, StartSession, DismissSession, ConfirmDisclosure,
    DeclineDisclosure, GiveIssuancePermission, SubmitPin, CancelPin, GoBackFromPin,
    CloseScreen, FailToCall, GoBack, channels

-----------------------------------------------------------------------------
(* irmaclient. *)

\* The message the bridge handles next, and those that stay.
LEMMA NextMessage ==
  ASSUME TypeOK, toGo # <<>>
  PROVE  /\ Len(toGo) \in Nat \ {0}
         /\ DOMAIN toGo = 1 .. Len(toGo)
         /\ Head(toGo) = toGo[1]
         /\ Head(toGo) \in Message /\ Head(toGo).id \in Session
         /\ Tail(toGo) \in Seq(Message)
         /\ DOMAIN Tail(toGo) = 1 .. Len(toGo) - 1
         /\ \A i \in 1 .. Len(toGo) - 1 : Tail(toGo)[i] = toGo[i + 1]
<1>1. toGo \in Seq(Message) /\ toGo # <<>>
  BY DEF TypeOK
<1>2. Head(toGo) \in Message
  BY <1>1, HeadTailProperties
<1>3. Head(toGo).id \in Session
  BY <1>2 DEF Message
<1>4. Len(toGo) \in Nat \ {0} /\ DOMAIN toGo = 1 .. Len(toGo)
  BY <1>1, EmptySeq, LenProperties
<1>5. Tail(toGo) \in Seq(Message)
  BY <1>1, HeadTailProperties
<1>6. /\ Len(Tail(toGo)) = Len(toGo) - 1
      /\ \A i \in 1 .. Len(toGo) - 1 : Tail(toGo)[i] = toGo[i + 1]
  BY <1>1, HeadTailProperties
<1>7. DOMAIN Tail(toGo) = 1 .. Len(toGo) - 1
  BY <1>5, <1>6, LenProperties
<1> QED
  BY <1>1, <1>2, <1>3, <1>4, <1>5, <1>6, <1>7

\* irmaclient raises an event of this type for session s.
Tells(s, type) ==
  \E e \in Event : /\ e.id = s /\ e.type = type
                   /\ e.type = "StatusUpdate" => e.status = "communicating"
                   /\ DispatchEvent(e)

Moves(s, p) == phase' = [phase EXCEPT ![s] = p]

\* The events that end a session, each with the end it stands for.
EndEvents == {<<"Success", "succeeded">>, <<"Canceled", "canceled">>, <<"Failure", "failed">>,
              <<"KeyshareEnrollment", "failed">>, <<"KeyshareBlocked", "blocked">>}

\* Session s ends: only a session that proceeded succeeds, and only one that
\* checks a PIN is blocked.
Ends(s, type, end) ==
  /\ <<type, end>> \in EndEvents
  /\ phase[s] \in Running
  /\ end = "succeeded" => phase[s] \in {"communicating", "finishing"}
  /\ end = "blocked" => phase[s] = "awaitPin"
  /\ Moves(s, end) /\ used' = used /\ Tells(s, type)

\* What a step of the bridge or of irmaclient does to session s.
GoMove(s) ==
  \/ UNCHANGED <<phase, used, toDart>>
  \/ /\ toGo # <<>> /\ toGo' = Tail(toGo)
     /\ Head(toGo).type = "NewSession" /\ Head(toGo).id = s
     /\ Moves(s, "starting") /\ UNCHANGED <<used, toDart>>
  \/ ClientConnect(s)
  \/ phase[s] = "preparing" /\ Moves(s, "pairing") /\ used' = used /\ Tells(s, "PairingRequired")
  \/ /\ phase[s] \in {"preparing", "pairing", "awaitPermission"}
     /\ Moves(s, "awaitPermission") /\ used' = used /\ Tells(s, "RequestPermission")
     /\ s \in permissionHandler'
  \/ /\ phase[s] = "awaitPermission" /\ Moves(s, "communicating") /\ Tells(s, "StatusUpdate")
     /\ \E c \in calls : /\ c.type = "RespondPermission" /\ c.id = s /\ c.proceed
                         /\ used' = [used EXCEPT ![s] = @ \union {c.choice}]
  \/ /\ phase[s] = "awaitPin" \/ (phase[s] = "communicating" /\ s \in pinHandler')
     /\ Moves(s, "awaitPin") /\ used' = used /\ Tells(s, "RequestPin")
  \/ phase[s] = "awaitPin" /\ Moves(s, "finishing") /\ UNCHANGED <<used, toDart>>
  \/ \E type, end : Ends(s, type, end)

\* The events irmaclient raises are the ones told.
LEMMA Telling ==
  ASSUME NEW s \in Session, NEW type \in EventType
  PROVE  /\ DispatchEvent(EventOf(type, s)) => Tells(s, type)
         /\ \A w \in Wallet :
              DispatchEvent([EventOf(type, s) EXCEPT !.wallet = w]) => Tells(s, type)
         /\ \A n \in Nat : DispatchEvent([EventOf(type, s) EXCEPT !.left = n]) => Tells(s, type)
<1>1. \A w \in Wallet : LET e == [EventOf(type, s) EXCEPT !.wallet = w]
                        IN  e.id = s /\ e.type = type /\ e.status = "communicating"
  BY DEF EventOf
<1>2. \A n \in Nat : LET e == [EventOf(type, s) EXCEPT !.left = n]
                     IN  e.id = s /\ e.type = type /\ e.status = "communicating"
  BY DEF EventOf
<1>3. EventOf(type, s).status = "communicating"
  BY DEF EventOf
<1> QED
  BY <1>1, <1>2, <1>3, EventOfType DEF Tells

\* A step of Go, told as a move of one session.
LEMMA FinishEnds ==
  ASSUME NEW s \in Session, NEW type, NEW end,
         <<type, end>> \in EndEvents, phase[s] \in Running,
         end = "succeeded" => phase[s] \in {"communicating", "finishing"},
         end = "blocked" => phase[s] = "awaitPin",
         Finish(s, end, EventOf(type, s)), used' = used
  PROVE  GoMove(s)
<1>1. type \in EventType
  BY DEF EndEvents, EventType
<1>2. Tells(s, type)
  BY <1>1, Telling DEF Finish
<1>3. Ends(s, type, end)
  BY <1>2 DEF Ends, Finish, Moves
<1> QED
  BY <1>3 DEF GoMove

LEMMA CancelEnds ==
  ASSUME NEW s \in Session, phase[s] \in Running, Cancel(s)
  PROVE  GoMove(s)
BY FinishEnds DEF Cancel, EndEvents

LEMMA GoCases ==
  ASSUME TypeOK, BridgeStep \/ IrmaClientStep
  PROVE  \E s \in Session : GoMove(s)
<1> USE DEF EventType
<1>0. phase \in [Session -> Phase] /\ attempts \in [Session -> Nat] /\ wallet \in Wallet
  BY BridgeAssumption DEF TypeOK, BridgeTypeOK
<1>1. ASSUME NEW s \in Session, Ignore
      PROVE  GoMove(s)
  BY <1>1 DEF Ignore, clientVars, GoMove
<1>2. CASE DispatchFromNative
  <2> DEFINE m == Head(toGo)
  <2>1. m.id \in Session /\ toGo # <<>>
    BY <1>2, NextMessage DEF DispatchFromNative
  <2>2. CASE NewSession(m)
    BY <1>2, <2>1, <2>2 DEF DispatchFromNative, NewSession, GoMove, Moves
  <2>3. CASE RespondGo(m)
    BY <2>1, <2>3 DEF RespondGo, GoMove, clientVars
  <2>4. CASE DismissGo(m)
    BY <1>1, <2>1, <2>4, CancelEnds DEF DismissGo, Dismiss
  <2> QED
    BY <1>2, <2>2, <2>3, <2>4 DEF DispatchFromNative
<1>3. ASSUME NEW c \in calls, RunCall(c)
      PROVE  GoMove(c.id)
  <2>1. c.id \in Session
    BY DEF TypeOK, BridgeTypeOK, Call
  <2>2. CASE c.type = "RespondPermission" /\ AnswerPermission(c.id, c.proceed, c.choice)
    <3>1. CASE /\ phase[c.id] = "awaitPermission" /\ c.proceed
               /\ phase' = [phase EXCEPT ![c.id] = "communicating"]
               /\ used' = [used EXCEPT ![c.id] = @ \union {c.choice}]
               /\ DispatchEvent(EventOf("StatusUpdate", c.id))
      <4>1. Tells(c.id, "StatusUpdate")
        BY <2>1, <3>1, Telling
      <4> QED
        BY <2>2, <3>1, <4>1 DEF GoMove, Moves
    <3> QED
      BY <1>1, <2>1, <2>2, <3>1, CancelEnds DEF AnswerPermission
  <2>3. CASE c.type = "RespondPin" /\ AnswerPin(c.id, c.proceed)
    <3>1. CASE /\ phase[c.id] = "awaitPin"
               /\ phase' = [phase EXCEPT ![c.id] = "finishing"]
               /\ UNCHANGED <<attempts, wallet, used, stale, toDart>>
      BY <3>1 DEF GoMove, Moves
    <3>2. CASE /\ phase[c.id] = "awaitPin" /\ attempts[c.id] > 1
               /\ DispatchEvent([EventOf("RequestPin", c.id) EXCEPT !.left = attempts[c.id] - 1])
               /\ UNCHANGED <<phase, wallet, used, stale>>
      <4>1. attempts[c.id] - 1 \in Nat
        BY <1>0, <2>1, <3>2
      <4>2. Tells(c.id, "RequestPin")
        BY <2>1, <3>2, <4>1, Telling
      <4>3. Moves(c.id, "awaitPin")
        BY <1>0, <2>1, <3>2 DEF Moves
      <4> QED
        BY <3>2, <4>2, <4>3 DEF GoMove
    <3>3. CASE /\ phase[c.id] = "awaitPin"
               /\ Finish(c.id, "blocked", EventOf("KeyshareBlocked", c.id))
               /\ UNCHANGED <<wallet, used>>
      <4>1. phase[c.id] \in Running /\ <<"KeyshareBlocked", "blocked">> \in EndEvents
        BY <3>3 DEF Running, EndEvents
      <4> QED
        BY <2>1, <3>3, <4>1, FinishEnds
    <3> QED
      BY <1>1, <2>1, <2>3, <3>1, <3>2, <3>3, CancelEnds DEF AnswerPin
  <2> QED
    BY <1>3, <2>2, <2>3 DEF RunCall
<1>4. ASSUME NEW s \in Session, ClientStep(s)
      PROVE  GoMove(s)
  <2>1. CASE ClientConnect(s)
    BY <2>1 DEF GoMove
  <2>2. CASE ClientPair(s)
    <3>1. Tells(s, "PairingRequired")
      BY <2>2, Telling DEF ClientPair
    <3> QED
      BY <2>2, <3>1 DEF ClientPair, GoMove, Moves
  <2>3. ASSUME RequestPermission(s)
        PROVE  s \in permissionHandler' /\ Tells(s, "RequestPermission")
    BY <1>0, <2>3, Telling DEF RequestPermission
  <2>4. CASE ClientAsk(s)
    BY <2>3, <2>4 DEF ClientAsk, GoMove, Moves
  <2>5. CASE ClientRefresh(s)
    <3>1. Moves(s, "awaitPermission")
      BY <1>0, <2>5 DEF ClientRefresh, Moves
    <3> QED
      BY <2>3, <2>5, <3>1 DEF ClientRefresh, GoMove
  <2>6. CASE ClientAskPin(s)
    <3>1. s \in pinHandler' /\ Tells(s, "RequestPin")
      BY <1>0, <2>6, Telling DEF ClientAskPin, RequestPin
    <3> QED
      BY <2>6, <3>1 DEF ClientAskPin, GoMove, Moves
  <2>7. /\ <<"KeyshareEnrollment", "failed">> \in EndEvents
        /\ <<"Success", "succeeded">> \in EndEvents
        /\ <<"Failure", "failed">> \in EndEvents
    BY DEF EndEvents
  <2>8. CASE ClientNotEnrolled(s)
    <3>1. phase[s] \in Running
      BY <2>8 DEF ClientNotEnrolled, Running
    <3> QED
      BY <2>7, <2>8, <3>1, FinishEnds DEF ClientNotEnrolled
  <2>9. CASE ClientSucceed(s)
    <3>1. phase[s] \in {"communicating", "finishing"} /\ phase[s] \in Running
      BY <2>9 DEF ClientSucceed, Running
    <3> QED
      BY <2>7, <2>9, <3>1, FinishEnds DEF ClientSucceed
  <2>10. CASE ClientFail(s)
    <3>1. phase[s] \in Running
      BY <2>10 DEF ClientFail, Running
    <3> QED
      BY <2>7, <2>10, <3>1, FinishEnds DEF ClientFail
  <2> QED
    BY <1>4, <2>1, <2>2, <2>4, <2>5, <2>6, <2>8, <2>9, <2>10 DEF ClientStep
<1>5. \A c \in calls : c.id \in Session
  BY DEF TypeOK, BridgeTypeOK, Call
<1> QED
  BY <1>2, <1>3, <1>4, <1>5 DEF BridgeStep, BridgeSystem, IrmaClientStep

\* The events irmaclient raises when a session enters phase p.
Fits(e, p) ==
  \/ /\ p = "preparing"
     /\ \/ e.type = "ClientReturnURLSet"
        \/ e.type = "StatusUpdate" /\ e.status = "connected"
  \/ p = "pairing" /\ e.type = "PairingRequired"
  \/ p = "awaitPermission" /\ e.type = "RequestPermission"
  \/ p = "communicating" /\ e.type = "StatusUpdate" /\ e.status = "communicating"
  \/ p = "awaitPin" /\ e.type = "RequestPin"
  \/ <<e.type, p>> \in EndEvents

\* A move of session s appends events of s to the channel to the app, one at
\* most unless the session is still connecting.
LEMMA Raised ==
  ASSUME TypeOK, NEW s \in Session, GoMove(s)
  PROVE  /\ Len(toDart) \in Nat /\ DOMAIN toDart = 1 .. Len(toDart)
         /\ Len(toDart') \in Nat /\ DOMAIN toDart' = 1 .. Len(toDart')
         /\ Len(toDart) <= Len(toDart')
         /\ \A i \in 1 .. Len(toDart) : toDart'[i] = toDart[i]
         /\ \A i \in Len(toDart) + 1 .. Len(toDart') :
              /\ toDart'[i].id = s
              /\ Fits(toDart'[i], phase'[s])
              /\ toDart'[i].type = "RequestPermission" => s \in permissionHandler'
              /\ toDart'[i].type = "RequestPin" => phase[s] = "awaitPin" \/ s \in pinHandler'
         /\ phase'[s] # "preparing" => Len(toDart') <= Len(toDart) + 1
<1>0. /\ toDart \in Seq(Event) /\ phase \in [Session -> Phase]
      /\ Len(toDart) \in Nat /\ DOMAIN toDart = 1 .. Len(toDart)
  BY LenProperties DEF TypeOK, BridgeTypeOK
<1> DEFINE Goal(e) ==
             /\ e.id = s
             /\ Fits(e, phase'[s])
             /\ e.type = "RequestPermission" => s \in permissionHandler'
             /\ e.type = "RequestPin" => phase[s] = "awaitPin" \/ s \in pinHandler'
<1>1. ASSUME NEW e \in Event, DispatchEvent(e)
      PROVE  /\ Len(toDart') \in Nat /\ DOMAIN toDart' = 1 .. Len(toDart')
             /\ Len(toDart') = Len(toDart) + 1
             /\ \A i \in 1 .. Len(toDart) : toDart'[i] = toDart[i]
             /\ toDart'[Len(toDart')] = e
  BY <1>0, <1>1, AppendProperties, LenProperties DEF DispatchEvent
<1>2. CASE toDart' = toDart
  BY <1>0, <1>2
<1>3. CASE ClientConnect(s)
  <2> DEFINE connected == [EventOf("StatusUpdate", s) EXCEPT !.status = "connected"]
             url == EventOf("ClientReturnURLSet", s)
  <2>1. /\ connected \in Event /\ connected.id = s /\ connected.type = "StatusUpdate"
        /\ connected.status = "connected"
        /\ url \in Event /\ url.id = s /\ url.type = "ClientReturnURLSet"
    BY EventOfType DEF ClientStatus, EventType, EventOf
  <2>2. phase'[s] = "preparing"
    BY <1>0, <1>3 DEF ClientConnect
  <2>3. Goal(connected) /\ Goal(url)
    BY <2>1, <2>2 DEF Fits
  <2>4. toDart' = Append(toDart, connected) \/ toDart' = Append(Append(toDart, url), connected)
    BY <1>3 DEF ClientConnect
  <2> HIDE DEF connected, url, Goal
  <2>5. CASE toDart' = Append(toDart, connected)
    <3>1. /\ Len(toDart') \in Nat /\ DOMAIN toDart' = 1 .. Len(toDart')
          /\ Len(toDart') = Len(toDart) + 1
          /\ \A i \in 1 .. Len(toDart) : toDart'[i] = toDart[i]
          /\ toDart'[Len(toDart')] = connected
      BY <1>1, <2>1, <2>5 DEF DispatchEvent
    <3>2. \A i \in Len(toDart) + 1 .. Len(toDart') : Goal(toDart'[i])
      BY <1>0, <2>3, <3>1
    <3> QED
      BY <1>0, <2>2, <3>1, <3>2 DEF Goal
  <2>6. CASE toDart' = Append(Append(toDart, url), connected)
    <3> DEFINE mid == Append(toDart, url)
    <3>1. /\ mid \in Seq(Event) /\ Len(mid) = Len(toDart) + 1
          /\ \A i \in 1 .. Len(toDart) : mid[i] = toDart[i]
          /\ mid[Len(toDart) + 1] = url
      BY <1>0, <2>1, AppendProperties
    <3> HIDE DEF mid
    <3>2. /\ toDart' \in Seq(Event) /\ Len(toDart') = Len(mid) + 1
          /\ \A i \in 1 .. Len(mid) : toDart'[i] = mid[i]
          /\ toDart'[Len(mid) + 1] = connected
      BY <2>1, <2>6, <3>1, AppendProperties DEF mid
    <3>3. DOMAIN toDart' = 1 .. Len(toDart')
      BY <3>2, LenProperties
    <3>4. \A i \in Len(toDart) + 1 .. Len(toDart') : Goal(toDart'[i])
      BY <1>0, <2>3, <3>1, <3>2
    <3>5. \A i \in 1 .. Len(toDart) : toDart'[i] = toDart[i]
      BY <1>0, <3>1, <3>2
    <3> QED
      BY <1>0, <2>2, <3>1, <3>2, <3>3, <3>4, <3>5 DEF Goal
  <2> QED
    BY <2>4, <2>5, <2>6
<1>4. ASSUME NEW type, Tells(s, type),
             \A e \in Event :
               /\ e.id = s /\ e.type = type
               /\ e.type = "StatusUpdate" => e.status = "communicating"
               => Goal(e)
      PROVE  /\ Len(toDart') \in Nat /\ DOMAIN toDart' = 1 .. Len(toDart')
             /\ Len(toDart') = Len(toDart) + 1
             /\ \A i \in 1 .. Len(toDart) : toDart'[i] = toDart[i]
             /\ \A i \in Len(toDart) + 1 .. Len(toDart') : Goal(toDart'[i])
  <2> HIDE DEF Goal
  <2> PICK e \in Event : Goal(e) /\ DispatchEvent(e)
    BY <1>4 DEF Tells
  <2> QED
    BY <1>0, <1>1
<1>5. CASE \E type : /\ Tells(s, type)
                     /\ \A e \in Event :
                          /\ e.id = s /\ e.type = type
                          /\ e.type = "StatusUpdate" => e.status = "communicating"
                          => Goal(e)
  <2> HIDE DEF Goal
  <2>1. PICK type : /\ Tells(s, type)
                    /\ \A e \in Event :
                         /\ e.id = s /\ e.type = type
                         /\ e.type = "StatusUpdate" => e.status = "communicating"
                         => Goal(e)
    BY <1>5
  <2>2. /\ Len(toDart') \in Nat /\ DOMAIN toDart' = 1 .. Len(toDart')
        /\ Len(toDart') = Len(toDart) + 1
        /\ \A i \in 1 .. Len(toDart) : toDart'[i] = toDart[i]
        /\ \A i \in Len(toDart) + 1 .. Len(toDart') : Goal(toDart'[i])
    BY <1>4, <2>1
  <2> QED
    BY <1>0, <2>2 DEF Goal
<1>6. \A p : Moves(s, p) => phase'[s] = p
  BY <1>0 DEF Moves
<1>7. CASE phase[s] = "preparing" /\ Moves(s, "pairing") /\ Tells(s, "PairingRequired")
  BY <1>5, <1>6, <1>7 DEF Fits
<1>8. CASE /\ Moves(s, "awaitPermission") /\ Tells(s, "RequestPermission")
           /\ s \in permissionHandler'
  BY <1>5, <1>6, <1>8 DEF Fits
<1>9. CASE Moves(s, "communicating") /\ Tells(s, "StatusUpdate")
  BY <1>5, <1>6, <1>9 DEF Fits
<1>10. CASE /\ phase[s] = "awaitPin" \/ (phase[s] = "communicating" /\ s \in pinHandler')
            /\ Moves(s, "awaitPin") /\ Tells(s, "RequestPin")
  BY <1>5, <1>6, <1>10 DEF Fits
<1>11. ASSUME NEW type, NEW end, Ends(s, type, end)
       PROVE  \E t : /\ Tells(s, t)
                     /\ \A e \in Event : e.id = s /\ e.type = t => Goal(e)
  BY <1>6, <1>11 DEF Fits, Ends, EndEvents
<1>12. CASE \E type, end : Ends(s, type, end)
  <2> HIDE DEF Goal
  <2> QED
    BY <1>5, <1>11, <1>12
<1> QED
  BY <1>2, <1>3, <1>7, <1>8, <1>9, <1>10, <1>12 DEF GoMove

\* What becomes of the messages and the handlers in a step of Go.
LEMMA GoHandles ==
  ASSUME TypeOK, BridgeStep \/ IrmaClientStep
  PROVE  /\ appVars' = appVars
         /\ toGo' = toGo \/ (DispatchFromNative /\ toGo # <<>> /\ toGo' = Tail(toGo))
         /\ lookup \subseteq lookup'
         /\ permissionHandler \subseteq permissionHandler'
         /\ pinHandler \subseteq pinHandler'
<1>1. CASE BridgeStep
  BY <1>1
  DEF BridgeStep, BridgeSystem, DispatchFromNative, RunCall, NewSession, RespondGo, DismissGo
<1>2. CASE IrmaClientStep
  BY <1>2
  DEF IrmaClientStep, ClientStep, ClientConnect, ClientPair, ClientAsk, ClientRefresh,
      ClientAskPin, ClientNotEnrolled, ClientSucceed, ClientFail, RequestPermission,
      RequestPin
<1> QED
  BY <1>1, <1>2

=============================================================================
