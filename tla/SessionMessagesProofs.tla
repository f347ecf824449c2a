------------------------ MODULE SessionMessagesProofs ------------------------
(***************************************************************************)
(* Messages and the sessions they are about, for every set of sessions and *)
(* with taps on outdated frames: a painted request is the one the          *)
(* repository holds, the bridge never lacks the handler for a message of   *)
(* the app, the events of a session arrive in the order of what irmaclient *)
(* is doing, and a request the app refuses never proceeds.                 *)
(***************************************************************************)
EXTENDS SessionFlowProofs

\* What publishing a state does to the session it is published for.
LEMMA Published ==
  ASSUME TypeOK, NEW x \in Session, NEW st \in State, SetState(x, st)
  PROVE  /\ states'[x] = st
         /\ \/ emitted'[x] = st
            \/ emitted'[x] = emitted[x] /\ (st = states[x] \/ ~Emits(emitted[x], st))
BY DEF SetState, TypeOK, AppTypeOK

-----------------------------------------------------------------------------
(* What the screen shows.                                                  *)
(*                                                                         *)
(* ShownRequestIsCurrent compares the frame with the repository; what      *)
(* relates them is the stream, whose filter lets a change of the status    *)
(* and every change of a disclosure request through.                       *)

StreamInv ==
  \A x \in Session :
    /\ emitted[x].status = states[x].status
    /\ states[x].status = "requestDisclosurePermission" => emitted[x] = states[x]
    /\ states[x].status = "requestIssuancePermission" =>
         emitted[x].choices = states[x].choices

LEMMA StreamInit == Init => StreamInv
BY DEF Init, AppInit, StreamInv

\* A state that asks for the issuance permission keeps its choices.
LEMMA ChoicesStay ==
  ASSUME TypeOK, NEW x \in Session, NEW st, Becomes(x, st),
         st.status = "requestIssuancePermission",
         states[x].status = "requestIssuancePermission"
  PROVE  st.choices = states[x].choices
<1>1. states[x] \in State
  BY DEF TypeOK, AppTypeOK
<1>2. \A c, proceed : /\ PermissionResponded(states[x], proceed, c).status = "communicating"
                      /\ OpenFailed(states[x]).status = "error"
  BY <1>1, ReducerStatus
<1>3. toDart # <<>> => Head(toDart) \in Event
  BY NextEvent
<1>4. CASE Hears(x) /\ st = EventHandler(states[x], Head(toDart))
  BY <1>1, <1>3, <1>4, EventHandlerStatus DEF Hears, ReceiveEvent
<1>5. ~ConfirmDisclosure(x)
  BY DEF ConfirmDisclosure
<1> QED
  BY <1>2, <1>4, <1>5 DEF Becomes

LEMMA StreamStep == TypeOK /\ StreamInv /\ [Next]_vars => StreamInv'
<1> SUFFICES ASSUME TypeOK, StreamInv, [Next]_vars, NEW x \in Session
             PROVE  /\ emitted'[x].status = states'[x].status
                    /\ states'[x].status = "requestDisclosurePermission" =>
                         emitted'[x] = states'[x]
                    /\ states'[x].status = "requestIssuancePermission" =>
                         emitted'[x].choices = states'[x].choices
  BY DEF StreamInv
<1>1. CASE AppStep
  <2>1. CASE states'[x] = states[x] /\ emitted'[x] = emitted[x]
    BY <2>1 DEF StreamInv
  <2>2. CASE StartSession(x)
    BY <2>2, Starting
  <2>3. ASSUME NEW st \in State, Becomes(x, st), SetState(x, st)
        PROVE  /\ emitted'[x].status = states'[x].status
               /\ states'[x].status = "requestDisclosurePermission" =>
                    emitted'[x] = states'[x]
               /\ states'[x].status = "requestIssuancePermission" =>
                    emitted'[x].choices = states'[x].choices
    BY <2>3, Published, ChoicesStay DEF Emits, StreamInv
  <2> QED
    BY <1>1, <2>1, <2>2, <2>3, StatesMove
<1>2. CASE UNCHANGED appVars
  BY <1>2 DEF appVars, StreamInv
<1> QED
  BY <1>1, <1>2 DEF Next, BridgeStep, IrmaClientStep, vars

\* Whatever is published while a frame is due, a screen that paints a request
\* for permission paints the candidates and the choices an answer would use.
THEOREM ShownRequestTheorem == Spec => []ShownRequestIsCurrent
<1>1. Init => TypeOK /\ StreamInv
  BY TypeOKInit, StreamInit
<1>2. TypeOK /\ StreamInv /\ [Next]_vars => (TypeOK /\ StreamInv)'
  BY TypeOKStep, StreamStep
<1>3. StreamInv => ShownRequestIsCurrent
  BY DEF StreamInv, ShownRequestIsCurrent
<1> QED
  BY <1>1, <1>2, <1>3, PTL DEF Spec

-----------------------------------------------------------------------------
(* The handlers.                                                           *)
(*                                                                         *)
(* HandlersInPlace is not inductive: that the bridge knows the session of  *)
(* the next message follows from the order of the channel, and that        *)
(* irmaclient has asked for the answer it carries from what the app shows, *)
(* hence from the requests on their way to it.                             *)

Opens(m, x) == m.type = "NewSession" /\ m.id = x

\* A message about a session comes after the one that starts it.
Introduced ==
  \A i \in DOMAIN toGo :
    \/ toGo[i].type = "NewSession"
    \/ toGo[i].id \in lookup
    \/ \E k \in 1 .. i - 1 : Opens(toGo[k], toGo[i].id)

\* The bridge knows the sessions of the repository, or will, and the app has
\* screens for no others.
Known ==
  \A x \in Session :
    /\ states[x].status # "absent" =>
         x \in lookup \/ \E k \in DOMAIN toGo : Opens(toGo[k], x)
    /\ OnStack(x) \/ x \in leaving \/ pin[x] # "closed" => states[x].status # "absent"

\* The answers and the requests under way, and the requests the app shows, are
\* about requests irmaclient has made.
AnswersFit ==
  \A i \in DOMAIN toGo :
    /\ toGo[i].type = "RespondPermission" => toGo[i].id \in permissionHandler
    /\ toGo[i].type = "RespondPin" => toGo[i].id \in pinHandler

RequestsFit ==
  \A i \in DOMAIN toDart :
    /\ toDart[i].type = "RequestPermission" => toDart[i].id \in permissionHandler
    /\ toDart[i].type = "RequestPin" => toDart[i].id \in pinHandler

StatusFits(x, st) ==
  /\ st.status \in {"requestDisclosurePermission", "requestIssuancePermission"} =>
       x \in permissionHandler
  /\ st.status = "requestPin" => x \in pinHandler

ShownFits ==
  \A x \in Session :
    /\ StatusFits(x, states[x])
    /\ StatusFits(x, emitted[x])
    /\ StatusFits(x, painted[x])
    /\ pin[x] # "closed" => x \in pinHandler
    /\ phase[x] = "awaitPin" => x \in pinHandler

HandlersInv ==
  /\ Introduced
  /\ Known
  /\ AnswersFit
  /\ RequestsFit
  /\ ShownFits
  /\ HandlersInPlace

LEMMA HandlersInit == Init => HandlersInv
BY DEF Init, AppInit, BridgeInit, ChannelsInit, HandlersInv, Introduced, Known, AnswersFit,
  RequestsFit, ShownFits, StatusFits, HandlersInPlace, Absent, OnStack

\* A session that becomes another state is one of the repository, and stays so.
LEMMA BecomesPresent ==
  ASSUME TypeOK, Known, NEW x \in Session, NEW st \in State, Becomes(x, st)
  PROVE  states[x].status # "absent" /\ st.status # "absent"
<1>1. states[x].status # "absent"
  BY TapOnStack
  DEF Becomes, Known, Hears, ConfirmDisclosure, DeclineDisclosure, GiveIssuancePermission,
      FailToCall, Paint
<1>2. states[x] \in State
  BY DEF TypeOK, AppTypeOK
<1>3. \A c, proceed :
        /\ ContinuedToIssuance(states[x], c).status = "requestIssuancePermission"
        /\ PermissionResponded(states[x], proceed, c).status = "communicating"
        /\ OpenFailed(states[x]).status = "error"
  BY <1>2, ReducerStatus
<1>4. CASE Hears(x) /\ st = EventHandler(states[x], Head(toDart))
  <2>1. Head(toDart) \in Event
    BY <1>4, NextEvent DEF Hears, ReceiveEvent
  <2> QED
    BY <1>1, <1>2, <1>4, <2>1, EventHandlerStatus
<1> QED
  BY <1>1, <1>3, <1>4 DEF Becomes

\* The channel to Go after a step of the app.
LEMMA Grown ==
  ASSUME TypeOK, AppStep
  PROVE  /\ DOMAIN toGo = 1 .. Len(toGo) /\ Len(toGo) \in Nat
         /\ DOMAIN toGo' = 1 .. Len(toGo') /\ Len(toGo') \in Nat
         /\ Len(toGo) <= Len(toGo')
         /\ \A i \in DOMAIN toGo : toGo'[i] = toGo[i]
         /\ \A i \in Len(toGo) + 1 .. Len(toGo') :
              i = Len(toGo) + 1 /\ toGo'[i] \in Message /\ MaySend(toGo'[i])
<1>1. toGo \in Seq(Message) /\ Len(toGo) \in Nat /\ DOMAIN toGo = 1 .. Len(toGo)
  BY LenProperties DEF TypeOK
<1>2. CASE toGo' = toGo
  BY <1>1, <1>2
<1>3. CASE \E m \in Message : toGo' = Append(toGo, m) /\ MaySend(m)
  <2>1. PICK m \in Message : toGo' = Append(toGo, m) /\ MaySend(m)
    BY <1>3
  <2>2. /\ toGo' \in Seq(Message) /\ Len(toGo') = Len(toGo) + 1
        /\ \A i \in 1 .. Len(toGo) : toGo'[i] = toGo[i]
        /\ toGo'[Len(toGo) + 1] = m
    BY <1>1, <2>1, AppendProperties
  <2> QED
    BY <1>1, <2>1, <2>2, LenProperties
<1> QED
  BY <1>2, <1>3, Sends

\* The app's half of the invariant.
LEMMA AppHandlers ==
  ASSUME TypeOK, HandlersInv, AppStep
  PROVE  HandlersInv'
<1>0. /\ UNCHANGED <<lookup, permissionHandler, pinHandler, errors, phase>>
      /\ toGo \in Seq(Message) /\ Len(toGo) \in Nat /\ DOMAIN toGo = 1 .. Len(toGo)
  BY LenProperties DEF AppStep, bridgeVars, clientVars, TypeOK
<1>1. ASSUME NEW x \in Session
      PROVE  states[x].status # "absent" => states'[x].status # "absent"
  <2>1. StartSession(x) => states'[x].status # "absent"
    BY Starting
  <2> QED
    BY <2>1, StatesMove, BecomesPresent, Published DEF HandlersInv
<1>2. /\ DOMAIN toGo' = 1 .. Len(toGo')
      /\ Len(toGo') \in Nat /\ Len(toGo) <= Len(toGo')
      /\ \A i \in DOMAIN toGo : toGo'[i] = toGo[i]
      /\ \A i \in Len(toGo) + 1 .. Len(toGo') :
           i = Len(toGo) + 1 /\ toGo'[i] \in Message /\ MaySend(toGo'[i])
  BY Grown
<1>3. \A m \in Message : m.id \in Session
  BY DEF Message
<1>4. Introduced'
  <2> SUFFICES ASSUME NEW i \in 1 .. Len(toGo')
               PROVE  \/ toGo'[i].type = "NewSession"
                      \/ toGo'[i].id \in lookup
                      \/ \E k \in 1 .. i - 1 : Opens(toGo'[k], toGo'[i].id)
    BY <1>0, <1>2 DEF Introduced
  <2>1. CASE i \in 1 .. Len(toGo)
    BY <1>0, <1>2, <2>1 DEF HandlersInv, Introduced
  <2>2. CASE i \in Len(toGo) + 1 .. Len(toGo')
    <3>1. /\ i = Len(toGo) + 1
          /\ toGo'[i].id \in Session
          /\ toGo'[i].type = "NewSession" \/ states[toGo'[i].id].status # "absent"
      BY <1>2, <1>3, <2>2 DEF MaySend, HandlersInv, Known
    <3> QED
      BY <1>0, <1>2, <3>1 DEF HandlersInv, Known
  <2> QED
    BY <1>0, <1>2, <2>1, <2>2
<1>5. Known'
  <2> SUFFICES ASSUME NEW x \in Session
               PROVE  /\ states'[x].status # "absent" =>
                           x \in lookup \/ \E k \in DOMAIN toGo' : Opens(toGo'[k], x)
                      /\ OnStack(x)' \/ x \in leaving' \/ pin'[x] # "closed" =>
                           states'[x].status # "absent"
    BY <1>0 DEF Known
  <2>1. CASE states[x].status # "absent"
    BY <1>0, <1>1, <1>2, <2>1 DEF HandlersInv, Known
  <2>2. CASE StartSession(x)
    <3>1. MessageOf("NewSession", x) \in Message /\ Opens(MessageOf("NewSession", x), x)
      BY MessagesType DEF MessageType, Opens, MessageOf
    <3>2. toGo' = Append(toGo, MessageOf("NewSession", x))
      BY <2>2 DEF StartSession, Bridge
    <3>3. \E k \in DOMAIN toGo' : Opens(toGo'[k], x)
      BY <1>0, <1>2, <3>1, <3>2, AppendProperties
    <3> QED
      BY <2>2, <3>3, Starting
  <2>3. CASE states[x].status = "absent" /\ ~StartSession(x)
    <3>1. ~OnStack(x) /\ x \notin leaving /\ pin[x] = "closed"
      BY <2>3 DEF HandlersInv, Known
    <3>2. states'[x] = states[x]
      BY <2>3, StatesMove, BecomesPresent DEF HandlersInv
    <3>3. ~OnStack(x)' /\ x \notin leaving'
      BY <2>3, <3>1, StackMove
    <3>4. pin'[x] = "closed"
      BY <3>1, PinMove DEF Paint
    <3> QED
      BY <2>3, <3>2, <3>3, <3>4
  <2> QED
    BY <2>1, <2>2, <2>3
<1>6. AnswersFit'
  <2>1. \A i \in 1 .. Len(toGo') :
          /\ toGo'[i].type = "RespondPermission" => toGo'[i].id \in permissionHandler
          /\ toGo'[i].type = "RespondPin" => toGo'[i].id \in pinHandler
    BY <1>0, <1>2, <1>3 DEF HandlersInv, AnswersFit, MaySend, ShownFits, StatusFits
  <2> QED
    BY <1>0, <1>2, <2>1 DEF AnswersFit
<1>7. RequestsFit'
  <2>1. CASE toDart' = toDart
    BY <1>0, <2>1 DEF HandlersInv, RequestsFit
  <2>2. CASE toDart # <<>> /\ toDart' = Tail(toDart)
    BY <1>0, <2>2, NextEvent DEF HandlersInv, RequestsFit
  <2> QED
    BY <2>1, <2>2, Takes
<1>8. ShownFits'
  <2> SUFFICES ASSUME NEW x \in Session
               PROVE  /\ StatusFits(x, states'[x])
                      /\ StatusFits(x, emitted'[x])
                      /\ StatusFits(x, painted'[x])
                      /\ pin'[x] # "closed" => x \in pinHandler
                      /\ phase[x] = "awaitPin" => x \in pinHandler
    BY <1>0 DEF ShownFits, StatusFits
  <2>1. /\ StatusFits(x, states[x]) /\ StatusFits(x, emitted[x]) /\ StatusFits(x, painted[x])
        /\ pin[x] # "closed" => x \in pinHandler
        /\ phase[x] = "awaitPin" => x \in pinHandler
    BY DEF HandlersInv, ShownFits
  <2>2. StatusFits(x, NewSessionState)
    BY DEF StatusFits, NewSessionState, Absent
  <2>3. ASSUME NEW st \in State, Becomes(x, st)
        PROVE  StatusFits(x, st)
    <3>1. states[x] \in State
      BY DEF TypeOK, AppTypeOK
    <3>2. \A c, proceed :
            /\ ContinuedToIssuance(states[x], c).status = "requestIssuancePermission"
            /\ PermissionResponded(states[x], proceed, c).status = "communicating"
            /\ OpenFailed(states[x]).status = "error"
      BY <3>1, ReducerStatus
    <3>3. CASE Hears(x) /\ st = EventHandler(states[x], Head(toDart))
      <4>1. /\ Head(toDart) \in Event
            /\ Head(toDart).id = x
            /\ Head(toDart).type = "RequestPermission" => x \in permissionHandler
            /\ Head(toDart).type = "RequestPin" => x \in pinHandler
        BY <3>3, NextEvent DEF Hears, ReceiveEvent, HandlersInv, RequestsFit
      <4> QED
        BY <2>1, <3>1, <3>3, <4>1, EventHandlerStatus DEF StatusFits
    <3> QED
      BY <2>1, <2>3, <3>2, <3>3 DEF Becomes, StatusFits, ConfirmDisclosure
  <2>4. StatusFits(x, states'[x]) /\ StatusFits(x, emitted'[x])
    BY <2>1, <2>2, <2>3, StatesMove, Published, Starting
  <2>5. StatusFits(x, painted'[x])
    BY <2>1, <2>2, PaintedMove, Starting
  <2>6. pin'[x] # "closed" => x \in pinHandler
    BY <2>1, PinMove DEF PinAfterFrame, StatusFits
  <2> QED
    BY <2>1, <2>4, <2>5, <2>6
<1>9. HandlersInPlace'
  BY <1>0 DEF HandlersInv, HandlersInPlace
<1> QED
  BY <1>4, <1>5, <1>6, <1>7, <1>8, <1>9 DEF HandlersInv

\* The bridge's half: what it takes from the channel, and the handlers
\* irmaclient gives it.
LEMMA GoHandlers ==
  ASSUME TypeOK, HandlersInv, BridgeStep \/ IrmaClientStep
  PROVE  HandlersInv'
<1> USE DEF HandlersInv
<1>0. /\ UNCHANGED appVars
      /\ lookup \subseteq lookup'
      /\ permissionHandler \subseteq permissionHandler'
      /\ pinHandler \subseteq pinHandler'
      /\ toGo \in Seq(Message) /\ Len(toGo) \in Nat /\ DOMAIN toGo = 1 .. Len(toGo)
      /\ \A i \in DOMAIN toGo : toGo[i].id \in Session
  <2>1. toGo \in Seq(Message) /\ Len(toGo) \in Nat /\ DOMAIN toGo = 1 .. Len(toGo)
    BY LenProperties DEF TypeOK
  <2>2. \A i \in DOMAIN toGo : toGo[i] \in Message
    BY <2>1, ElementOfSeq
  <2>3. \A i \in DOMAIN toGo : toGo[i].id \in Session
    BY <2>2 DEF Message
  <2> QED
    BY <2>1, <2>3, GoHandles
<1>1. PICK s \in Session : GoMove(s)
  BY GoCases
<1>2. Introduced' /\ Known' /\ AnswersFit'
  <2>1. CASE toGo' = toGo
    BY <1>0, <2>1 DEF Introduced, AnswersFit, Known, appVars, OnStack
  <2>2. CASE DispatchFromNative /\ toGo # <<>> /\ toGo' = Tail(toGo)
    <3>1. /\ DOMAIN toGo' = 1 .. Len(toGo) - 1
          /\ \A i \in 1 .. Len(toGo) - 1 : toGo'[i] = toGo[i + 1]
          /\ Head(toGo) = toGo[1]
      BY <2>2, NextMessage
    <3>2. \A x : Opens(toGo[1], x) => x \in lookup'
      BY <2>2, <3>1 DEF DispatchFromNative, NewSession, RespondGo, DismissGo, Opens
    <3>3. ASSUME NEW x, NEW i \in 1 .. Len(toGo),
                 \E k \in 1 .. i : Opens(toGo[k], x)
          PROVE  x \in lookup' \/ \E k \in 1 .. i - 1 : Opens(toGo'[k], x)
      <4>1. PICK k \in 1 .. i : Opens(toGo[k], x)
        BY <3>3
      <4>2. CASE k = 1
        BY <3>2, <4>1, <4>2
      <4>3. CASE k # 1
        <5>1. k - 1 \in 1 .. i - 1 /\ k - 1 \in 1 .. Len(toGo) - 1 /\ (k - 1) + 1 = k
          BY <1>0, <4>3
        <5>2. toGo'[k - 1] = toGo[k]
          BY <3>1, <5>1
        <5> QED
          BY <4>1, <5>1, <5>2
      <4> QED
        BY <4>2, <4>3
    <3>4. Introduced'
      <4> SUFFICES ASSUME NEW i \in 1 .. Len(toGo) - 1, toGo[i + 1].type # "NewSession"
                   PROVE  \/ toGo[i + 1].id \in lookup'
                          \/ \E k \in 1 .. i - 1 : Opens(toGo'[k], toGo[i + 1].id)
        BY <3>1 DEF Introduced
      <4>1. i + 1 \in DOMAIN toGo /\ (i + 1) - 1 = i /\ i \in 1 .. Len(toGo)
        BY <1>0
      <4>2. toGo[i + 1].id \in lookup \/ \E k \in 1 .. i : Opens(toGo[k], toGo[i + 1].id)
        BY <4>1 DEF Introduced
      <4> QED
        BY <1>0, <3>3, <4>1, <4>2
    <3>5. Known'
      <4> SUFFICES ASSUME NEW x \in Session, states[x].status # "absent"
                   PROVE  x \in lookup' \/ \E k \in DOMAIN toGo' : Opens(toGo'[k], x)
        BY <1>0 DEF Known, appVars, OnStack
      <4>1. x \in lookup \/ \E k \in 1 .. Len(toGo) : Opens(toGo[k], x)
        BY <1>0 DEF Known
      <4>2. Len(toGo) \in 1 .. Len(toGo)
        BY <2>2, NextMessage
      <4> QED
        BY <1>0, <3>1, <3>3, <4>1, <4>2
    <3>6. AnswersFit'
      BY <1>0, <3>1 DEF AnswersFit
    <3> QED
      BY <3>4, <3>5, <3>6
  <2> QED
    BY <2>1, <2>2, GoHandles
<1>3. RequestsFit'
  <2>1. /\ DOMAIN toDart = 1 .. Len(toDart)
        /\ DOMAIN toDart' = 1 .. Len(toDart')
        /\ \A i \in 1 .. Len(toDart) : toDart'[i] = toDart[i]
        /\ \A i \in Len(toDart) + 1 .. Len(toDart') :
             /\ toDart'[i].id = s
             /\ toDart'[i].type = "RequestPermission" => s \in permissionHandler'
             /\ toDart'[i].type = "RequestPin" => phase[s] = "awaitPin" \/ s \in pinHandler'
        /\ \A i \in 1 .. Len(toDart') : i \in 1 .. Len(toDart) \/ i \in Len(toDart) + 1 .. Len(toDart')
    BY <1>1, Raised
  <2>2. phase[s] = "awaitPin" => s \in pinHandler'
    BY <1>0 DEF ShownFits
  <2> QED
    BY <1>0, <2>1, <2>2 DEF RequestsFit
<1>4. ShownFits'
  <2>1. \A x \in Session : phase'[x] = "awaitPin" => phase[x] = "awaitPin" \/ x \in pinHandler'
    <3>1. phase \in [Session -> Phase]
      BY DEF TypeOK, BridgeTypeOK
    <3> QED
      BY <1>1, <3>1 DEF GoMove, Moves, ClientConnect, Ends, EndEvents
  <2> QED
    BY <1>0, <2>1 DEF ShownFits, StatusFits, appVars
<1>5. HandlersInPlace'
  <2>1. CASE DispatchFromNative
    <3> DEFINE m == Head(toGo)
    <3>1. /\ m.id \in Session /\ m = toGo[1] /\ 1 \in DOMAIN toGo
      BY <2>1, NextMessage DEF DispatchFromNative
    <3>2. m.type = "NewSession" \/ m.id \in lookup
      BY <3>1 DEF Introduced
    <3>3. CASE RespondGo(m)
      <4>1. m.type \in {"RespondPermission", "RespondPin"}
        BY <3>3 DEF RespondGo
      <4>2. Refusal(m) = {}
        BY <3>1, <3>2, <4>1 DEF AnswersFit, Refusal, Respondents
      <4> QED
        BY <3>3, <4>2 DEF RespondGo, HandlersInPlace
    <3>4. CASE NewSession(m) \/ DismissGo(m)
      BY <3>2, <3>4 DEF NewSession, DismissGo, HandlersInPlace
    <3> QED
      BY <2>1, <3>3, <3>4 DEF DispatchFromNative
  <2>2. CASE errors' = errors
    BY <2>2 DEF HandlersInPlace
  <2> QED
    BY <2>1, <2>2 DEF BridgeStep, BridgeSystem, RunCall, IrmaClientStep, ClientStep
<1> QED
  BY <1>2, <1>3, <1>4, <1>5

LEMMA HandlersStep == TypeOK /\ HandlersInv /\ [Next]_vars => HandlersInv'
<1>1. TypeOK /\ HandlersInv /\ Next => HandlersInv'
  BY AppHandlers, GoHandlers DEF Next
<1>2. HandlersInv /\ UNCHANGED vars => HandlersInv'
  BY DEF HandlersInv, Introduced, Known, AnswersFit, RequestsFit, ShownFits, StatusFits,
         HandlersInPlace, OnStack, vars, appVars, bridgeVars, clientVars, channels
<1> QED
  BY <1>1, <1>2

\* No event of a session is turned down for want of a handler, whatever the
\* sessions, the taps and the interleaving.
THEOREM HandlersTheorem == Spec => []HandlersInPlace
<1>1. Init => TypeOK /\ HandlersInv
  BY TypeOKInit, HandlersInit
<1>2. TypeOK /\ HandlersInv /\ [Next]_vars => (TypeOK /\ HandlersInv)'
  BY TypeOKStep, HandlersStep
<1>3. HandlersInv => HandlersInPlace
  BY DEF HandlersInv
<1> QED
  BY <1>1, <1>2, <1>3, PTL DEF Spec

-----------------------------------------------------------------------------
(* The order of the events of one session on their way to the app, against *)
(* what irmaclient is doing.                                               *)

\* How far into the protocol an event belongs, and how far a phase is.
Rank(e) ==
  CASE e.type = "ClientReturnURLSet" -> 1
    [] e.type = "StatusUpdate" /\ e.status = "connected" -> 1
    [] e.type = "PairingRequired" -> 2
    [] e.type = "RequestPermission" -> 3
    [] e.type = "StatusUpdate" /\ e.status = "communicating" -> 4
    [] e.type = "RequestPin" -> 5
    [] OTHER -> 6

Reach(p) ==
  CASE p \in {"none", "starting"} -> 0
    [] p = "preparing" -> 1
    [] p = "pairing" -> 2
    [] p = "awaitPermission" -> 3
    [] p = "communicating" -> 4
    [] p \in {"awaitPin", "finishing"} -> 5
    [] OTHER -> 6

\* The events of session x the app has not seen.
Pending(x) == {toDart[i] : i \in {j \in DOMAIN toDart : toDart[j].id = x}}

\* An answer of this type is on its way to irmaclient.
Answering(x, type) ==
  \/ \E i \in DOMAIN toGo : toGo[i].id = x /\ toGo[i].type = type
  \/ \E c \in calls : c.id = x /\ c.type = type

LEMMA RankReach ==
  /\ \A e : Rank(e) \in 1 .. 6
  /\ \A p : Reach(p) \in 0 .. 6
  /\ \A e, p : Fits(e, p) => Rank(e) = Reach(p)
  /\ \A e, p : Fits(e, p) /\ Rank(e) = 6 => <<e.type, p>> \in EndEvents
  /\ \A p \in Phase : Reach(p) = 6 <=> p \in Ended
<1>1. \A e : Rank(e) \in 1 .. 6
  BY DEF Rank
<1>2. \A p : Reach(p) \in 0 .. 6
  BY DEF Reach
<1>3. ASSUME NEW e, NEW p, <<e.type, p>> \in EndEvents
      PROVE  Rank(e) = 6 /\ Reach(p) = 6
  BY <1>3 DEF EndEvents, Rank, Reach
<1>4. ASSUME NEW e, NEW p, Fits(e, p)
      PROVE  Rank(e) = Reach(p) /\ (Rank(e) = 6 => <<e.type, p>> \in EndEvents)
  BY <1>3, <1>4 DEF Fits, Rank, Reach
<1>5. \A p \in Phase : Reach(p) = 6 <=> p \in Ended
  BY DEF Phase, Running, Ended, Reach
<1> QED
  BY <1>1, <1>2, <1>4, <1>5

-----------------------------------------------------------------------------
(* Sessions start once. *)

Starts ==
  /\ \A i \in DOMAIN toGo : toGo[i].type = "NewSession" =>
       /\ phase[toGo[i].id] = "none"
       /\ states[toGo[i].id].status # "absent"
       /\ \A j \in DOMAIN toGo : Opens(toGo[j], toGo[i].id) => i = j
  /\ \A x \in Session : phase[x] # "none" => states[x].status # "absent"

\* The repository keeps the sessions it has.
LEMMA PresentStays ==
  ASSUME TypeOK, Known, AppStep, NEW x \in Session, states[x].status # "absent"
  PROVE  states'[x].status # "absent"
<1>1. StartSession(x) => states'[x].status # "absent"
  BY Starting
<1> QED
  BY <1>1, StatesMove, BecomesPresent, Published

LEMMA StartsInit == Init => Starts
BY DEF Init, AppInit, BridgeInit, ChannelsInit, Starts

\* A move of session s leaves the others alone, does not lead back, and raises
\* nothing once the session has ended.
LEMMA MoveForward ==
  ASSUME TypeOK, Starts, NEW s \in Session, GoMove(s)
  PROVE  /\ \A x \in Session \ {s} : phase'[x] = phase[x] /\ used'[x] = used[x]
         /\ Reach(phase[s]) <= Reach(phase'[s])
         /\ phase[s] \in Ended => UNCHANGED <<phase, used, toDart>>
         /\ phase[s] = "none" => UNCHANGED <<used, toDart>> /\ phase'[s] \in {"none", "starting"}
<1>0. phase \in [Session -> Phase] /\ used \in [Session -> SUBSET Choice]
  BY DEF TypeOK, BridgeTypeOK
<1>1. CASE UNCHANGED <<phase, used, toDart>>
  BY <1>0, <1>1, RankReach
<1>2. CASE /\ toGo # <<>> /\ Head(toGo).type = "NewSession" /\ Head(toGo).id = s
           /\ Moves(s, "starting") /\ UNCHANGED <<used, toDart>>
  <2>1. Head(toGo) = toGo[1] /\ 1 \in DOMAIN toGo
    BY <1>2, NextMessage
  <2>2. phase[s] = "none"
    BY <1>2, <2>1 DEF Starts
  <2> QED
    BY <1>0, <1>2, <2>2 DEF Moves, Reach, Ended
<1>3. CASE ClientConnect(s)
  BY <1>0, <1>3 DEF ClientConnect, Reach, Ended
<1>4. CASE \E type, end : Ends(s, type, end)
  <2>1. PICK type, end : Ends(s, type, end)
    BY <1>4
  <2>2. /\ phase[s] \in Running /\ phase'[s] \in Ended /\ used' = used
        /\ \A x \in Session \ {s} : phase'[x] = phase[x]
    BY <1>0, <2>1 DEF Ends, EndEvents, Moves, Ended
  <2>3. Reach(phase'[s]) = 6 /\ Reach(phase[s]) \in 0 .. 6
    BY <2>2, RankReach DEF Phase
  <2> QED
    BY <2>2, <2>3 DEF Running, Ended
<1>5. CASE /\ phase[s] \in {"preparing", "pairing", "awaitPermission", "communicating", "awaitPin"}
           /\ \/ phase[s] = "preparing" /\ Moves(s, "pairing") /\ used' = used
              \/ /\ phase[s] \in {"preparing", "pairing", "awaitPermission"}
                 /\ Moves(s, "awaitPermission") /\ used' = used
              \/ /\ phase[s] = "awaitPermission" /\ Moves(s, "communicating")
                 /\ \E c \in calls : used' = [used EXCEPT ![s] = @ \union {c.choice}]
              \/ /\ phase[s] \in {"awaitPin", "communicating"}
                 /\ Moves(s, "awaitPin") /\ used' = used
              \/ phase[s] = "awaitPin" /\ Moves(s, "finishing") /\ used' = used
  BY <1>0, <1>5 DEF Moves, Reach, Ended
<1> QED
  BY <1>1, <1>2, <1>3, <1>4, <1>5 DEF GoMove

LEMMA StartsStep == TypeOK /\ HandlersInv /\ Starts /\ [Next]_vars => Starts'
<1> SUFFICES ASSUME TypeOK, HandlersInv, Starts, [Next]_vars PROVE Starts'
  OBVIOUS
<1>0. /\ toGo \in Seq(Message) /\ Len(toGo) \in Nat /\ DOMAIN toGo = 1 .. Len(toGo)
      /\ \A m \in Message : m.id \in Session
      /\ \A i \in DOMAIN toGo : toGo[i].id \in Session
  <2>1. toGo \in Seq(Message) /\ Len(toGo) \in Nat /\ DOMAIN toGo = 1 .. Len(toGo)
    BY LenProperties DEF TypeOK
  <2>2. \A m \in Message : m.id \in Session
    BY DEF Message
  <2> QED
    BY <2>1, <2>2, ElementOfSeq
<1>1. CASE AppStep
  <2>1. phase' = phase
    BY <1>1 DEF AppStep, clientVars
  <2>2. \A x \in Session : states[x].status # "absent" => states'[x].status # "absent"
    BY <1>1, PresentStays DEF HandlersInv
  <2>3. /\ DOMAIN toGo' = 1 .. Len(toGo') /\ Len(toGo') \in Nat
        /\ \A i \in DOMAIN toGo : toGo'[i] = toGo[i]
        /\ \A i \in Len(toGo) + 1 .. Len(toGo') :
             i = Len(toGo) + 1 /\ toGo'[i] \in Message /\ MaySend(toGo'[i])
    BY <1>1, Grown
  <2>4. \A x \in Session : StartSession(x) => /\ states[x].status = "absent"
                                              /\ states'[x].status # "absent"
    BY Starting
  <2>5. ASSUME NEW i \in DOMAIN toGo', NEW j \in DOMAIN toGo',
               toGo'[i].type = "NewSession", Opens(toGo'[j], toGo'[i].id)
        PROVE  /\ phase[toGo'[i].id] = "none"
               /\ states'[toGo'[i].id].status # "absent"
               /\ i = j
    <3>1. CASE i \in DOMAIN toGo /\ j \in DOMAIN toGo
      BY <1>0, <2>2, <2>3, <2>5, <3>1 DEF Starts
    <3>2. ASSUME NEW k \in DOMAIN toGo', k \notin DOMAIN toGo, toGo'[k].type = "NewSession"
          PROVE  /\ k = Len(toGo) + 1
                 /\ phase[toGo'[k].id] = "none"
                 /\ states[toGo'[k].id].status = "absent"
                 /\ states'[toGo'[k].id].status # "absent"
      <4>1. k = Len(toGo) + 1 /\ toGo'[k].id \in Session /\ StartSession(toGo'[k].id)
        BY <1>0, <2>3, <3>2 DEF MaySend
      <4> QED
        BY <2>4, <4>1 DEF Starts
    <3>3. CASE i \notin DOMAIN toGo
      BY <1>0, <2>3, <2>5, <3>2, <3>3 DEF Starts, Opens
    <3>4. CASE i \in DOMAIN toGo /\ j \notin DOMAIN toGo
      BY <1>0, <2>3, <2>5, <3>2, <3>4 DEF Starts, Opens
    <3> QED
      BY <3>1, <3>3, <3>4
  <2>6. \A i \in DOMAIN toGo' : toGo'[i].type = "NewSession" => Opens(toGo'[i], toGo'[i].id)
    BY DEF Opens
  <2> QED
    BY <2>1, <2>2, <2>5, <2>6 DEF Starts
<1>2. CASE BridgeStep \/ IrmaClientStep
  <2>0. states' = states
    BY <1>2, GoHandles DEF appVars
  <2>1. PICK s \in Session : GoMove(s)
    BY <1>2, GoCases
  <2>2. /\ \A x \in Session \ {s} : phase'[x] = phase[x]
        /\ phase[s] = "none" => phase'[s] \in {"none", "starting"}
    BY <2>1, MoveForward
  <2>3. ASSUME phase[s] = "none", phase'[s] # "none"
        PROVE  /\ states[s].status # "absent"
               /\ toGo' = Tail(toGo) /\ toGo # <<>>
               /\ \A i \in 2 .. Len(toGo) : ~Opens(toGo[i], s)
    <3>1. toGo # <<>> /\ toGo' = Tail(toGo) /\ Opens(Head(toGo), s)
      BY <2>1, <2>3 DEF GoMove, ClientConnect, Ends, Running, Opens
    <3>2. Opens(toGo[1], s) /\ 1 \in DOMAIN toGo
      BY <3>1, NextMessage
    <3> QED
      BY <1>0, <3>1, <3>2 DEF Starts, Opens
  <2>4. \A x \in Session : phase'[x] # "none" => states'[x].status # "absent"
    BY <2>0, <2>2, <2>3 DEF Starts
  <2>5. CASE toGo' = toGo
    <3>1. phase[s] = "none" => phase'[s] = "none"
      <4>1. toGo # <<>> =>
              Len(toGo) \in DOMAIN toGo /\ Len(toGo) \notin DOMAIN Tail(toGo)
        BY NextMessage
      <4> QED
        BY <2>3, <2>5, <4>1
    <3> QED
      BY <1>0, <2>0, <2>2, <2>4, <2>5, <3>1 DEF Starts
  <2>6. CASE toGo # <<>> /\ toGo' = Tail(toGo)
    <3>1. /\ DOMAIN toGo' = 1 .. Len(toGo) - 1
          /\ \A i \in 1 .. Len(toGo) - 1 : toGo'[i] = toGo[i + 1] /\ i + 1 \in DOMAIN toGo
      BY <1>0, <2>6, NextMessage
    <3>2. ASSUME NEW i \in DOMAIN toGo', toGo'[i].type = "NewSession"
          PROVE  /\ phase'[toGo'[i].id] = "none"
                 /\ states'[toGo'[i].id].status # "absent"
                 /\ \A j \in DOMAIN toGo' : Opens(toGo'[j], toGo'[i].id) => i = j
      <4>1. i + 1 \in 2 .. Len(toGo) /\ toGo'[i] = toGo[i + 1] /\ toGo[i + 1].id \in Session
        BY <1>0, <3>1
      <4>2. phase[toGo[i + 1].id] = "none" /\ states[toGo[i + 1].id].status # "absent"
        BY <1>0, <3>1, <3>2, <4>1 DEF Starts
      <4>3. phase'[toGo[i + 1].id] = "none"
        BY <2>2, <2>3, <3>2, <4>1, <4>2 DEF Opens
      <4>4. ASSUME NEW j \in DOMAIN toGo', Opens(toGo'[j], toGo'[i].id)
            PROVE  i = j
        <5>1. j + 1 \in DOMAIN toGo /\ toGo'[j] = toGo[j + 1]
          BY <3>1
        <5>2. i + 1 = j + 1
          BY <1>0, <3>1, <3>2, <4>1, <4>4, <5>1 DEF Starts
        <5> QED
          BY <1>0, <3>1, <5>2
      <4> QED
        BY <2>0, <4>1, <4>2, <4>3, <4>4
    <3> QED
      BY <2>4, <3>2 DEF Starts
  <2> QED
    BY <1>2, <2>5, <2>6, GoHandles
<1>3. CASE UNCHANGED vars
  BY <1>3 DEF Starts, vars, appVars, clientVars, channels
<1> QED
  BY <1>1, <1>2, <1>3 DEF Next

-----------------------------------------------------------------------------
(* The events of a session arrive in the order of the protocol, and the    *)
(* last one with the end of the session.                                   *)

Ordered ==
  \A i \in DOMAIN toDart :
    /\ Rank(toDart[i]) <= Reach(phase[toDart[i].id])
    /\ Rank(toDart[i]) = 6 => <<toDart[i].type, phase[toDart[i].id]>> \in EndEvents
    /\ \A j \in DOMAIN toDart : i < j /\ toDart[j].id = toDart[i].id =>
         Rank(toDart[i]) <= Rank(toDart[j]) /\ Rank(toDart[i]) < 6

LEMMA OrderedInit == Init => Ordered
BY DEF Init, ChannelsInit, Ordered

LEMMA EventsType ==
  ASSUME TypeOK
  PROVE  /\ toDart \in Seq(Event) /\ Len(toDart) \in Nat /\ DOMAIN toDart = 1 .. Len(toDart)
         /\ \A i \in DOMAIN toDart : toDart[i] \in Event /\ toDart[i].id \in Session
<1>1. toDart \in Seq(Event) /\ Len(toDart) \in Nat /\ DOMAIN toDart = 1 .. Len(toDart)
  BY LenProperties DEF TypeOK
<1>2. \A i \in DOMAIN toDart : toDart[i] \in Event
  BY <1>1, ElementOfSeq
<1>3. \A e \in Event : e.id \in Session
  BY DEF Event
<1> QED
  BY <1>1, <1>2, <1>3

LEMMA OrderedGo ==
  ASSUME TypeOK, Starts, Ordered, BridgeStep \/ IrmaClientStep
  PROVE  Ordered'
<1>0. /\ DOMAIN toDart = 1 .. Len(toDart) /\ Len(toDart) \in Nat
      /\ \A i \in DOMAIN toDart : toDart[i].id \in Session
      /\ phase \in [Session -> Phase]
  BY EventsType DEF TypeOK, BridgeTypeOK
<1>1. PICK s \in Session : GoMove(s)
  BY GoCases
<1>2. /\ \A x \in Session \ {s} : phase'[x] = phase[x]
      /\ Reach(phase[s]) <= Reach(phase'[s])
      /\ phase[s] \in Ended => UNCHANGED <<phase, toDart>>
  BY <1>1, MoveForward
<1>3. /\ Len(toDart') \in Nat /\ DOMAIN toDart' = 1 .. Len(toDart')
      /\ \A i \in 1 .. Len(toDart) : toDart'[i] = toDart[i]
      /\ \A i \in Len(toDart) + 1 .. Len(toDart') :
           toDart'[i].id = s /\ Fits(toDart'[i], phase'[s])
      /\ phase'[s] # "preparing" => Len(toDart') <= Len(toDart) + 1
  BY <1>1, Raised
<1>4. /\ \A x \in Session : Reach(phase[x]) \in 0 .. 6 /\ Reach(phase'[x]) \in 0 .. 6
      /\ \A e : Rank(e) \in 1 .. 6
      /\ \A x \in Session : Reach(phase[x]) <= Reach(phase'[x])
      /\ Reach(phase[s]) = 6 => UNCHANGED <<phase, toDart>>
      /\ Reach("preparing") = 1
  BY <1>0, <1>2, RankReach DEF Reach
<1>5. \A i \in Len(toDart) + 1 .. Len(toDart') :
        /\ Rank(toDart'[i]) = Reach(phase'[s])
        /\ Rank(toDart'[i]) = 6 => <<toDart'[i].type, phase'[s]>> \in EndEvents
  BY <1>3, RankReach
<1>6. ASSUME NEW i \in 1 .. Len(toDart')
      PROVE  /\ Rank(toDart'[i]) <= Reach(phase'[toDart'[i].id])
             /\ Rank(toDart'[i]) = 6 => <<toDart'[i].type, phase'[toDart'[i].id]>> \in EndEvents
  <2>1. CASE i \in 1 .. Len(toDart)
    <3>1. toDart'[i] = toDart[i] /\ toDart[i].id \in Session
      BY <1>0, <1>3, <2>1
    <3>2. Rank(toDart[i]) <= Reach(phase[toDart[i].id])
      BY <1>0, <2>1 DEF Ordered
    <3>3. CASE Rank(toDart[i]) = 6
      <4>1. <<toDart[i].type, phase[toDart[i].id]>> \in EndEvents
        BY <1>0, <2>1, <3>3 DEF Ordered
      <4>2. Reach(phase[toDart[i].id]) = 6
        BY <1>4, <3>1, <3>2, <3>3
      <4>3. phase'[toDart[i].id] = phase[toDart[i].id]
        BY <1>2, <1>4, <3>1, <4>2
      <4> QED
        BY <3>1, <3>2, <4>1, <4>3
    <3>4. CASE Rank(toDart[i]) # 6
      BY <1>4, <3>1, <3>2, <3>4
    <3> QED
      BY <3>3, <3>4
  <2>2. CASE i \in Len(toDart) + 1 .. Len(toDart')
    BY <1>3, <1>4, <1>5, <2>2
  <2> QED
    BY <1>0, <1>3, <2>1, <2>2
<1>7. ASSUME NEW i \in 1 .. Len(toDart'), NEW j \in 1 .. Len(toDart'),
             i < j, toDart'[j].id = toDart'[i].id
      PROVE  Rank(toDart'[i]) <= Rank(toDart'[j]) /\ Rank(toDart'[i]) < 6
  <2>1. CASE j \in 1 .. Len(toDart)
    <3>1. /\ i \in DOMAIN toDart /\ j \in DOMAIN toDart
          /\ toDart'[i] = toDart[i] /\ toDart'[j] = toDart[j]
      BY <1>0, <1>3, <1>7, <2>1
    <3> QED
      BY <1>7, <3>1 DEF Ordered
  <2>2. CASE j \in Len(toDart) + 1 .. Len(toDart') /\ i \in 1 .. Len(toDart)
    <3>1. toDart'[i] = toDart[i] /\ toDart[i].id = s /\ i \in DOMAIN toDart
      BY <1>0, <1>3, <1>7, <2>2
    <3>2. Rank(toDart[i]) <= Reach(phase[s])
      BY <3>1 DEF Ordered
    <3>3. Reach(phase[s]) # 6
      BY <1>0, <1>3, <1>4, <2>2
    <3>4. Rank(toDart'[j]) = Reach(phase'[s])
      BY <1>5, <2>2
    <3>5. /\ Reach(phase[s]) \in 0 .. 6 /\ Reach(phase'[s]) \in 0 .. 6
          /\ Reach(phase[s]) <= Reach(phase'[s]) /\ Rank(toDart[i]) \in 1 .. 6
      BY <1>4
    <3> QED
      BY <3>1, <3>2, <3>3, <3>4, <3>5
  <2>3. CASE j \in Len(toDart) + 1 .. Len(toDart') /\ i \in Len(toDart) + 1 .. Len(toDart')
    <3>1. phase'[s] = "preparing"
      BY <1>0, <1>3, <1>7, <2>3
    <3>2. Rank(toDart'[i]) = 1 /\ Rank(toDart'[j]) = 1
      BY <1>4, <1>5, <2>3, <3>1
    <3> QED
      BY <3>2
  <2> QED
    BY <1>0, <1>3, <2>1, <2>2, <2>3
<1> QED
  BY <1>3, <1>6, <1>7 DEF Ordered

LEMMA OrderedStep == TypeOK /\ Starts /\ Ordered /\ [Next]_vars => Ordered'
<1> SUFFICES ASSUME TypeOK, Starts, Ordered, [Next]_vars PROVE Ordered'
  OBVIOUS
<1>1. CASE AppStep
  <2>1. phase' = phase
    BY <1>1 DEF AppStep, clientVars
  <2>2. CASE toDart' = toDart
    BY <2>1, <2>2 DEF Ordered
  <2>3. CASE toDart # <<>> /\ toDart' = Tail(toDart)
    <3>1. /\ DOMAIN toDart = 1 .. Len(toDart) /\ Len(toDart) \in Nat
          /\ DOMAIN toDart' = 1 .. Len(toDart) - 1
          /\ \A i \in 1 .. Len(toDart) - 1 :
               toDart'[i] = toDart[i + 1] /\ i + 1 \in DOMAIN toDart
      BY <2>3, NextEvent
    <3>2. \A i, j \in 1 .. Len(toDart) - 1 : i < j => i + 1 < j + 1
      BY <3>1
    <3> QED
      BY <2>1, <3>1, <3>2 DEF Ordered
  <2> QED
    BY <1>1, <2>2, <2>3, Takes
<1>2. CASE UNCHANGED vars
  BY <1>2 DEF Ordered, vars, clientVars, channels
<1> QED
  BY <1>1, <1>2, OrderedGo DEF Next

\* The events of a session a step of Go leaves to be seen.
LEMMA PendingGo ==
  ASSUME TypeOK, NEW s \in Session, GoMove(s)
  PROVE  /\ \A x \in Session \ {s} : Pending(x)' = Pending(x)
         /\ Pending(s) \subseteq Pending(s)'
         /\ \A e \in Pending(s)' : e \in Pending(s) \/ Fits(e, phase'[s])
         /\ toDart' = toDart => Pending(s)' = Pending(s)
         /\ \A type : Tells(s, type) => \E e \in Pending(s)' : Fits(e, phase'[s])
<1>1. /\ DOMAIN toDart = 1 .. Len(toDart) /\ Len(toDart) \in Nat
      /\ DOMAIN toDart' = 1 .. Len(toDart') /\ Len(toDart') \in Nat
      /\ Len(toDart) <= Len(toDart')
      /\ \A i \in 1 .. Len(toDart) : toDart'[i] = toDart[i]
      /\ \A i \in Len(toDart) + 1 .. Len(toDart') :
           toDart'[i].id = s /\ Fits(toDart'[i], phase'[s])
  BY Raised
<1>2. \A i \in 1 .. Len(toDart') : i \in 1 .. Len(toDart) \/ i \in Len(toDart) + 1 .. Len(toDart')
  BY <1>1
<1>3. /\ \A x : Pending(x) \subseteq Pending(x)'
      /\ \A x : \A e \in Pending(x)' : e \in Pending(x) \/ (x = s /\ Fits(e, phase'[s]))
  BY <1>1, <1>2 DEF Pending
<1>4. ASSUME NEW type, Tells(s, type)
      PROVE  \E e \in Pending(s)' : Fits(e, phase'[s])
  <2>1. Len(toDart') = Len(toDart) + 1
    BY <1>4, AppendProperties DEF Tells, DispatchEvent, TypeOK
  <2>2. Len(toDart') \in Len(toDart) + 1 .. Len(toDart')
    BY <1>1, <2>1
  <2>3. toDart'[Len(toDart')] \in Pending(s)' /\ Fits(toDart'[Len(toDart')], phase'[s])
    BY <1>1, <2>1, <2>2 DEF Pending
  <2> QED
    BY <2>3
<1>5. toDart' = toDart => Pending(s)' = Pending(s)
  BY DEF Pending
<1> QED
  BY <1>3, <1>4, <1>5

\* The app sees the events of session x in order: none is left after the last
\* one, and an event finds the session in the repository.
LEMMA PendingApp ==
  ASSUME TypeOK, Starts, Ordered, AppStep, NEW x \in Session
  PROVE  /\ Pending(x)' \subseteq Pending(x)
         /\ ~(ReceiveEvent /\ Head(toDart).id = x) => Pending(x)' = Pending(x)
         /\ ReceiveEvent /\ Head(toDart).id = x =>
              /\ Hears(x)
              /\ Head(toDart) \in Pending(x)
              /\ Pending(x) \subseteq Pending(x)' \union {Head(toDart)}
              /\ \A e \in Pending(x)' : Rank(Head(toDart)) <= Rank(e) /\ Rank(Head(toDart)) < 6
<1>1. CASE toDart' = toDart /\ ~ReceiveEvent
  BY <1>1 DEF Pending
<1>2. CASE ReceiveEvent
  <2>1. /\ Len(toDart) \in Nat \ {0} /\ DOMAIN toDart = 1 .. Len(toDart)
        /\ Head(toDart) = toDart[1]
        /\ toDart' = Tail(toDart)
        /\ DOMAIN toDart' = 1 .. Len(toDart) - 1
        /\ \A i \in 1 .. Len(toDart) - 1 : toDart'[i] = toDart[i + 1]
    BY <1>2, NextEvent DEF ReceiveEvent
  <2>2. Pending(x)' \subseteq Pending(x)
    <3>1. \A i \in DOMAIN toDart' : i + 1 \in DOMAIN toDart /\ toDart'[i] = toDart[i + 1]
      BY <2>1
    <3> QED
      BY <3>1 DEF Pending
  <2>3. \A e \in Pending(x) : e \in Pending(x)' \/ (e = toDart[1] /\ toDart[1].id = x)
    <3> SUFFICES ASSUME NEW i \in DOMAIN toDart, toDart[i].id = x, i # 1
                 PROVE  toDart[i] \in Pending(x)'
      BY DEF Pending
    <3>1. i - 1 \in DOMAIN toDart' /\ toDart'[i - 1] = toDart[(i - 1) + 1] /\ (i - 1) + 1 = i
      BY <2>1
    <3> QED
      BY <3>1 DEF Pending
  <2>4. ASSUME toDart[1].id = x
        PROVE  /\ toDart[1] \in Pending(x)
               /\ \A e \in Pending(x)' : Rank(toDart[1]) <= Rank(e) /\ Rank(toDart[1]) < 6
               /\ states[x].status # "absent"
    <3>1. 1 \in DOMAIN toDart
      BY <2>1
    <3>2. \A i \in DOMAIN toDart' : /\ 1 < i + 1 /\ i + 1 \in DOMAIN toDart
                                    /\ toDart'[i] = toDart[i + 1]
      BY <2>1
    <3>3. \A e \in Pending(x)' : Rank(toDart[1]) <= Rank(e) /\ Rank(toDart[1]) < 6
      BY <2>4, <3>1, <3>2 DEF Ordered, Pending
    <3>4. Rank(toDart[1]) <= Reach(phase[x]) /\ Rank(toDart[1]) \in 1 .. 6
      BY <2>4, <3>1, RankReach DEF Ordered
    <3>5. phase[x] # "none"
      BY <3>4 DEF Reach
    <3> QED
      BY <2>4, <3>1, <3>3, <3>5 DEF Pending, Starts
  <2> QED
    BY <1>2, <2>1, <2>2, <2>3, <2>4 DEF Hears
<1>3. CASE toDart' = toDart
  <2>1. ~ReceiveEvent
    <3>1. toDart # <<>> => /\ Len(toDart) \in DOMAIN toDart
                           /\ Len(toDart) \notin DOMAIN Tail(toDart)
      BY NextEvent
    <3> QED
      BY <1>3, <3>1 DEF ReceiveEvent
  <2> QED
    BY <1>1, <1>3, <2>1
<1> QED
  BY <1>2, <1>3, Takes

\* What the app makes of the event it hears.
LEMMA Heard ==
  ASSUME TypeOK, NEW x \in Session, Hears(x)
  PROVE  /\ Head(toDart) \in Event /\ Head(toDart).id = x
         /\ EventHandler(states[x], Head(toDart)) \in State
         /\ SetState(x, EventHandler(states[x], Head(toDart)))
         /\ states'[x] = EventHandler(states[x], Head(toDart))
         /\ painted' = painted
<1>1. Head(toDart) \in Event /\ states[x] \in State
  BY NextEvent DEF Hears, ReceiveEvent, TypeOK, AppTypeOK
<1>2. EventHandler(states[x], Head(toDart)) \in State
  BY <1>1, ReducerType
<1>3. SetState(x, EventHandler(states[x], Head(toDart))) /\ painted' = painted
  BY DEF Hears, ReceiveEvent
<1> QED
  BY <1>1, <1>2, <1>3, Published DEF Hears

-----------------------------------------------------------------------------
(* The answers on their way.  An answer the app sends is not lost: it goes *)
(* through the channel, then waits for its goroutine, until irmaclient is  *)
(* called with it.                                                         *)

LEMMA AnswersApp ==
  ASSUME TypeOK, AppStep, NEW x, NEW type
  PROVE  /\ Answering(x, type) => Answering(x, type)'
         /\ Answering(x, type)' =>
              \/ Answering(x, type)
              \/ \E m \in Message : MaySend(m) /\ m.id = x /\ m.type = type
<1>1. calls' = calls
  BY DEF AppStep, bridgeVars
<1>2. /\ DOMAIN toGo = 1 .. Len(toGo) /\ Len(toGo) \in Nat
      /\ DOMAIN toGo' = 1 .. Len(toGo') /\ Len(toGo') \in Nat
      /\ Len(toGo) <= Len(toGo')
      /\ \A i \in DOMAIN toGo : toGo'[i] = toGo[i]
      /\ \A i \in Len(toGo) + 1 .. Len(toGo') : toGo'[i] \in Message /\ MaySend(toGo'[i])
  BY Grown
<1>3. \A i \in DOMAIN toGo : i \in DOMAIN toGo'
  BY <1>2
<1>4. \A i \in DOMAIN toGo' : i \in DOMAIN toGo \/ i \in Len(toGo) + 1 .. Len(toGo')
  BY <1>2
<1> QED
  BY <1>1, <1>2, <1>3, <1>4 DEF Answering

LEMMA AnswersGo ==
  ASSUME TypeOK, HandlersInv, BridgeStep \/ IrmaClientStep, NEW x,
         NEW type \in {"RespondPermission", "RespondPin"}
  PROVE  /\ Answering(x, type)' => Answering(x, type)
         /\ Answering(x, type) =>
              \/ Answering(x, type)'
              \/ \E c \in calls : RunCall(c) /\ c.id = x /\ c.type = type
<1>1. CASE DispatchFromNative
  <2> DEFINE m == Head(toGo)
  <2>1. /\ m = toGo[1] /\ 1 \in DOMAIN toGo /\ m.id \in Session
        /\ DOMAIN toGo = 1 .. Len(toGo) /\ Len(toGo) \in Nat
        /\ DOMAIN toGo' = 1 .. Len(toGo) - 1
        /\ \A i \in 1 .. Len(toGo) - 1 : toGo'[i] = toGo[i + 1] /\ i + 1 \in DOMAIN toGo
    BY <1>1, NextMessage DEF DispatchFromNative
  <2>2. \/ calls' = calls /\ m.type \in {"NewSession", "DismissSession"}
        \/ calls' = calls \union {m}
    <3>1. CASE RespondGo(m)
      <4>1. m.type \in {"RespondPermission", "RespondPin"}
        BY <3>1 DEF RespondGo
      <4>2. m.id \in lookup
        BY <2>1, <4>1 DEF HandlersInv, Introduced
      <4>3. Refusal(m) = {}
        BY <2>1, <4>1, <4>2 DEF HandlersInv, AnswersFit, Refusal, Respondents
      <4> QED
        BY <3>1, <4>3 DEF RespondGo
    <3> QED
      BY <1>1, <3>1 DEF DispatchFromNative, NewSession, DismissGo
  <2>3. ASSUME Answering(x, type)'
        PROVE  Answering(x, type)
    BY <2>1, <2>2, <2>3 DEF Answering
  <2>4. ASSUME Answering(x, type)
        PROVE  Answering(x, type)'
    <3>1. CASE \E c \in calls : c.id = x /\ c.type = type
      BY <2>2, <3>1 DEF Answering
    <3>2. ASSUME NEW i \in DOMAIN toGo, toGo[i].id = x, toGo[i].type = type
          PROVE  Answering(x, type)'
      <4>1. CASE i = 1
        BY <2>1, <2>2, <3>2, <4>1 DEF Answering
      <4>2. CASE i # 1
        <5>1. i - 1 \in DOMAIN toGo' /\ toGo'[i - 1] = toGo[(i - 1) + 1] /\ (i - 1) + 1 = i
          BY <2>1, <4>2
        <5> QED
          BY <3>2, <5>1 DEF Answering
      <4> QED
        BY <4>1, <4>2
    <3> QED
      BY <2>4, <3>1, <3>2 DEF Answering
  <2> QED
    BY <2>3, <2>4
<1>2. ASSUME NEW c \in calls, RunCall(c)
      PROVE  /\ Answering(x, type)' => Answering(x, type)
             /\ Answering(x, type) =>
                  \/ Answering(x, type)'
                  \/ \E d \in calls : RunCall(d) /\ d.id = x /\ d.type = type
  <2>1. toGo' = toGo /\ calls' = calls \ {c}
    BY <1>2 DEF RunCall
  <2> QED
    BY <1>2, <2>1 DEF Answering
<1>3. CASE IrmaClientStep
  BY <1>3 DEF IrmaClientStep, ClientStep, Answering
<1> QED
  BY <1>1, <1>2, <1>3 DEF BridgeStep, BridgeSystem

-----------------------------------------------------------------------------
(* A session proceeds once. *)

UsedInv ==
  \A x \in Session :
    /\ phase[x] \in {"none", "starting", "preparing", "pairing", "awaitPermission"} =>
         used[x] = {}
    /\ phase[x] \in {"communicating", "awaitPin", "finishing", "succeeded"} => used[x] # {}

LEMMA UsedInit == Init => UsedInv
BY DEF Init, BridgeInit, UsedInv

LEMMA UsedStep == TypeOK /\ Starts /\ UsedInv /\ [Next]_vars => UsedInv'
<1> SUFFICES ASSUME TypeOK, Starts, UsedInv, [Next]_vars PROVE UsedInv'
  OBVIOUS
<1>0. phase \in [Session -> Phase] /\ used \in [Session -> SUBSET Choice]
  BY DEF TypeOK, BridgeTypeOK
<1>1. CASE BridgeStep \/ IrmaClientStep
  <2>1. PICK s \in Session : GoMove(s)
    BY <1>1, GoCases
  <2>2. \A x \in Session \ {s} : phase'[x] = phase[x] /\ used'[x] = used[x]
    BY <2>1, MoveForward
  <2>3. /\ phase'[s] \in {"none", "starting", "preparing", "pairing", "awaitPermission"} =>
             used'[s] = {}
        /\ phase'[s] \in {"communicating", "awaitPin", "finishing", "succeeded"} => used'[s] # {}
    <3>1. CASE UNCHANGED <<phase, used, toDart>>
      BY <3>1 DEF UsedInv
    <3>2. CASE toGo # <<>> /\ Head(toGo).type = "NewSession" /\ Head(toGo).id = s
               /\ Moves(s, "starting") /\ UNCHANGED <<used, toDart>>
      <4>1. phase[s] = "none"
        BY <3>2, NextMessage DEF Starts
      <4> QED
        BY <1>0, <3>2, <4>1 DEF UsedInv, Moves
    <3>3. CASE ClientConnect(s)
      BY <1>0, <3>3 DEF UsedInv, ClientConnect
    <3>4. CASE \E type, end : Ends(s, type, end)
      BY <1>0, <3>4 DEF UsedInv, Ends, EndEvents, Moves
    <3>5. CASE /\ phase[s] = "awaitPermission" /\ Moves(s, "communicating")
               /\ \E c \in calls : used' = [used EXCEPT ![s] = @ \union {c.choice}]
      BY <1>0, <3>5 DEF Moves
    <3>6. CASE /\ used' = used
               /\ \/ phase[s] = "preparing" /\ Moves(s, "pairing")
                  \/ /\ phase[s] \in {"preparing", "pairing", "awaitPermission"}
                     /\ Moves(s, "awaitPermission")
                  \/ phase[s] \in {"communicating", "awaitPin"} /\ Moves(s, "awaitPin")
                  \/ phase[s] = "awaitPin" /\ Moves(s, "finishing")
      BY <1>0, <3>6 DEF UsedInv, Moves
    <3> QED
      BY <2>1, <3>1, <3>2, <3>3, <3>4, <3>5, <3>6 DEF GoMove
  <2> QED
    BY <2>2, <2>3 DEF UsedInv
<1>2. CASE AppStep \/ UNCHANGED vars
  BY <1>2 DEF UsedInv, AppStep, clientVars, vars
<1> QED
  BY <1>1, <1>2 DEF Next

\* The invariants that hold whatever is painted when the user taps.
OrderInv == HandlersInv /\ StreamInv /\ Starts /\ Ordered /\ UsedInv

LEMMA OrderInit == Init => OrderInv
BY HandlersInit, StreamInit, StartsInit, OrderedInit, UsedInit DEF OrderInv

LEMMA OrderStep == TypeOK /\ OrderInv /\ [Next]_vars => OrderInv'
BY HandlersStep, StreamStep, StartsStep, OrderedStep, UsedStep DEF OrderInv

-----------------------------------------------------------------------------
(* A session that asks for a whole credential is refused by the app and    *)
(* never proceeds.                                                         *)

Asks(st) == st.status \in {"requestDisclosurePermission", "requestIssuancePermission"}

UnsupportedInv ==
  \A x \in Unsupported :
    /\ ~Asks(states[x]) /\ ~Asks(painted[x])
    /\ ~Answering(x, "RespondPermission")
    /\ phase[x] \notin {"communicating", "awaitPin", "finishing", "succeeded", "blocked"}
    /\ \A e \in Pending(x) : Rank(e) \notin {4, 5}

LEMMA UnsupportedInit == Init => UnsupportedInv
<1> SUFFICES ASSUME Init, NEW x \in Unsupported
             PROVE  /\ ~Asks(states[x]) /\ ~Asks(painted[x])
                    /\ ~Answering(x, "RespondPermission")
                    /\ phase[x] \notin
                         {"communicating", "awaitPin", "finishing", "succeeded", "blocked"}
                    /\ \A e \in Pending(x) : Rank(e) \notin {4, 5}
  BY DEF UnsupportedInv
<1>1. x \in Session
  BY SessionAssumption
<1>2. ~Asks(states[x]) /\ ~Asks(painted[x])
  BY <1>1 DEF Init, AppInit, Asks, Absent
<1>3. ~Answering(x, "RespondPermission") /\ phase[x] = "none"
  BY <1>1 DEF Init, BridgeInit, ChannelsInit, Answering
<1>4. Pending(x) = {}
  BY DEF Init, ChannelsInit, Pending
<1> QED
  BY <1>2, <1>3, <1>4

LEMMA UnsupportedStep == TypeOK /\ OrderInv /\ UnsupportedInv /\ [Next]_vars => UnsupportedInv'
<1> SUFFICES ASSUME TypeOK, OrderInv, UnsupportedInv, [Next]_vars, NEW x \in Unsupported
             PROVE  /\ ~Asks(states'[x]) /\ ~Asks(painted'[x])
                    /\ ~Answering(x, "RespondPermission")'
                    /\ phase'[x] \notin
                         {"communicating", "awaitPin", "finishing", "succeeded", "blocked"}
                    /\ \A e \in Pending(x)' : Rank(e) \notin {4, 5}
  BY DEF UnsupportedInv
<1>0. /\ x \in Session /\ states[x] \in State /\ phase \in [Session -> Phase]
      /\ Starts /\ Ordered /\ HandlersInv
      /\ emitted[x].status = states[x].status
      /\ ~Asks(states[x]) /\ ~Asks(painted[x])
      /\ ~Answering(x, "RespondPermission")
      /\ phase[x] \notin {"communicating", "awaitPin", "finishing", "succeeded", "blocked"}
      /\ \A e \in Pending(x) : Rank(e) \notin {4, 5}
  <2>1. x \in Session
    BY SessionAssumption
  <2>2. states[x] \in State /\ phase \in [Session -> Phase]
    BY <2>1 DEF TypeOK, AppTypeOK, BridgeTypeOK
  <2>3. emitted[x].status = states[x].status /\ Starts /\ Ordered /\ HandlersInv
    BY <2>1 DEF OrderInv, StreamInv
  <2> QED
    BY <2>1, <2>2, <2>3 DEF UnsupportedInv
<1>1. CASE AppStep
  <2>1. phase' = phase
    BY <1>1 DEF AppStep, clientVars
  <2>2. ~Asks(states'[x])
    <3>1. ~Asks(NewSessionState)
      BY DEF Asks, NewSessionState, Absent
    <3>2. ASSUME NEW st \in State, Becomes(x, st)
          PROVE  ~Asks(st)
      <4>1. \A c, proceed : /\ PermissionResponded(states[x], proceed, c).status = "communicating"
                            /\ OpenFailed(states[x]).status = "error"
        BY <1>0, ReducerStatus
      <4>2. ~ConfirmDisclosure(x)
        BY <1>0 DEF ConfirmDisclosure, Asks
      <4>3. CASE Hears(x) /\ st = EventHandler(states[x], Head(toDart))
        <5>1. Head(toDart) \in Event /\ Head(toDart).id = x
          BY <1>0, <4>3, Heard
        <5> QED
          BY <1>0, <4>3, <5>1, EventHandlerStatus DEF Asks
      <4> QED
        BY <3>2, <4>1, <4>2, <4>3 DEF Becomes, Asks
    <3> QED
      BY <1>0, <1>1, <3>1, <3>2, StatesMove, Starting, Published
  <2>3. ~Asks(painted'[x])
    <3>1. ~Asks(NewSessionState)
      BY DEF Asks, NewSessionState, Absent
    <3>2. ~Asks(emitted[x])
      BY <1>0 DEF Asks
    <3> QED
      BY <1>0, <1>1, <3>1, <3>2, PaintedMove, Starting
  <2>4. ~Answering(x, "RespondPermission")'
    <3>1. ~\E m \in Message : MaySend(m) /\ m.id = x /\ m.type = "RespondPermission"
      BY <1>0 DEF MaySend, Asks
    <3> QED
      BY <1>0, <1>1, <3>1, AnswersApp
  <2>5. Pending(x)' \subseteq Pending(x)
    BY <1>0, <1>1, PendingApp
  <2> QED
    BY <1>0, <2>1, <2>2, <2>3, <2>4, <2>5
<1>2. CASE BridgeStep \/ IrmaClientStep
  <2>1. PICK s \in Session : GoMove(s)
    BY <1>2, GoCases
  <2>2. states' = states /\ painted' = painted
    BY <1>2, GoHandles DEF appVars
  <2>3. ~Answering(x, "RespondPermission")'
    BY <1>0, <1>2, AnswersGo
  <2>4. phase'[x] \notin {"communicating", "awaitPin", "finishing", "succeeded", "blocked"}
    <3>1. CASE x # s
      BY <1>0, <2>1, <3>1, MoveForward
    <3>2. CASE x = s
      <4>1. ~\E c \in calls : c.type = "RespondPermission" /\ c.id = x
        BY <1>0 DEF Answering
      <4> QED
        BY <1>0, <2>1, <3>2, <4>1
        DEF GoMove, Moves, ClientConnect, Ends, EndEvents, Running
    <3> QED
      BY <3>1, <3>2
  <2>5. \A e \in Pending(x)' : Rank(e) \notin {4, 5}
    <3>1. CASE x # s
      BY <1>0, <2>1, <3>1, PendingGo
    <3>2. CASE x = s
      <4>1. Reach(phase'[x]) \notin {4, 5}
        BY <2>4 DEF Reach
      <4> QED
        BY <1>0, <2>1, <3>2, <4>1, PendingGo, RankReach
    <3> QED
      BY <3>1, <3>2
  <2> QED
    BY <1>0, <2>2, <2>3, <2>4, <2>5
<1>3. CASE UNCHANGED vars
  BY <1>0, <1>3 DEF vars, appVars, bridgeVars, clientVars, channels, Answering, Pending
<1> QED
  BY <1>1, <1>2, <1>3 DEF Next

\* "Non-attribute disclosures are not supported": a request the app refuses on
\* its own, without a word to Go, is one irmaclient never discloses or issues
\* anything for, whatever the user taps and whatever other sessions do.
THEOREM RefusedTheorem == Spec => [](\A x \in Unsupported : used[x] = {})
<1> DEFINE Unused == \A x \in Unsupported : used[x] = {}
           Inv == TypeOK /\ OrderInv /\ UnsupportedInv /\ Unused
<1>1. Init => Inv
  BY TypeOKInit, OrderInit, UnsupportedInit, SessionAssumption DEF Init, BridgeInit
<1>2. Inv /\ [Next]_vars => Inv'
  <2> SUFFICES ASSUME Inv, [Next]_vars
               PROVE  Inv'
    OBVIOUS
  <2>1. TypeOK' /\ OrderInv' /\ UnsupportedInv'
    BY TypeOKStep, OrderStep, UnsupportedStep
  <2>2. ASSUME NEW x \in Unsupported
        PROVE  used'[x] = {}
    <3>0. /\ x \in Session /\ used[x] = {} /\ used \in [Session -> SUBSET Choice]
          /\ ~\E c \in calls : c.type = "RespondPermission" /\ c.id = x
      BY SessionAssumption DEF UnsupportedInv, Answering, TypeOK, BridgeTypeOK
    <3>1. CASE BridgeStep \/ IrmaClientStep
      <4>1. PICK s \in Session : GoMove(s)
        BY <3>1, GoCases
      <4> QED
        BY <3>0, <4>1 DEF GoMove, Ends, ClientConnect
    <3>2. CASE AppStep \/ UNCHANGED vars
      BY <3>0, <3>2 DEF AppStep, clientVars, vars
    <3> QED
      BY <3>1, <3>2 DEF Next
  <2> QED
    BY <2>1, <2>2
<1> QED
  BY <1>1, <1>2, PTL DEF Spec

=============================================================================
