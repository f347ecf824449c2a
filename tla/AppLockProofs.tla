---------------------------- MODULE AppLockProofs ----------------------------
(***************************************************************************)
(* Proofs about AppLock: types, that an app with an account is open only   *)
(* for who knows its PIN, that answers reach who asked, and that the PIN   *)
(* screen offers as many digits as the PIN has.                            *)
(***************************************************************************)
EXTENDS AppLock, TLAPS

\* What the proof of OpenAfterPin keeps.
\* An app that has just started only waits to be welcomed.
Fresh ==
  status = "undetermined" =>
    /\ screen = "loading"
    /\ calls = {} /\ toGo = <<>> /\ submitted = <<>>
    /\ Len(toApp) <= 1 /\ (Len(toApp) = 1 => toApp[1].kind \in {"status", "fatal"})

\* Open is who has no account, or was let in, or met a fatal error.
Open == ~locked => status = "unenrolled" \/ entitled \/ fatal

\* What lets a user in, or tells of an account made since the start.
Unlocks(m) == m.kind = "verify" /\ m.outcome = "success"
TellsOfAccount(m) == m.kind = "status" /\ m.enrolled

Vouched ==
  \A i \in DOMAIN toApp :
    /\ Unlocks(toApp[i]) => entitled
    /\ status # "undetermined" /\ TellsOfAccount(toApp[i]) => entitled

OpenInv == TypeOK /\ Fresh /\ Open /\ Vouched

-----------------------------------------------------------------------------
(* Types. *)

LEMMA AnswerType ==
  ASSUME NEW c \in Call, NEW o \in Outcome
  PROVE  AnswerTo(c, o) \in Event
BY DEF AnswerTo, Answer, Event, Call

LEMMA StatusType ==
  \A e \in BOOLEAN : Status(e) \in Event
BY DEF Status, Event

LEMMA StatusSeqType ==
  ASSUME NEW e \in BOOLEAN
  PROVE  <<Status(e)>> \in Seq(Event)
<1>1. Status(e) \in Event
  BY StatusType
<1> QED
  BY <1>1

LEMMA WelcomeType ==
  ASSUME NEW e \in BOOLEAN, NEW t \in Welcome(e)
  PROVE  t \in Seq(Event)
<1>1. Fatal \in Event
  BY DEF Event
<1>2. <<Fatal>> \in Seq(Event)
  BY <1>1
<1> QED
  BY <1>2, StatusSeqType DEF Welcome

\* What the app first hears is one event, and no answer.
LEMMA WelcomeFacts ==
  ASSUME NEW e \in BOOLEAN, NEW t \in Welcome(e)
  PROVE  /\ DOMAIN t = {1} /\ Len(t) = 1
         /\ t[1] = Status(e) \/ t[1] = Fatal
         /\ t[1].kind \in {"status", "fatal"}
<1> DEFINE s == Status(e)
           f == Fatal
<1>1. s.kind = "status" /\ f.kind = "fatal"
  BY DEF Status, Fatal
<1>2. t = <<s>> \/ t = <<f>>
  BY DEF Welcome
<1> HIDE DEF s, f
<1>3. DOMAIN t = {1} /\ Len(t) = 1 /\ (t[1] = s \/ t[1] = f)
  BY <1>2
<1> QED
  BY <1>1, <1>3 DEF s, f

LEMMA IsLongType ==
  \A pin : IsLong(pin) \in BOOLEAN
BY DEF IsLong

\* What Dispatch adds keeps the type of the channel.
LEMMA DispatchType ==
  ASSUME toApp \in Seq(Event), NEW events \in Seq(Event), Dispatch(events)
  PROVE  toApp' \in Seq(Event)
BY DEF Dispatch

\* A request keeps the types of what it changes.
LEMMA AskType ==
  ASSUME TypeOK, NEW kind \in Kind, NEW old \in Pin, NEW pin \in Pin,
         NEW by \in {"enrollment", "pin", "modal_pin", "enter_pin", "choose_pin", "gone"},
         Ask(kind, old, pin, by)
  PROVE  /\ KeyshareTypeOK'
         /\ waiting' \in [Kind -> Seq(Waiter)]
         /\ crossed' \in BOOLEAN /\ unsure' \in BOOLEAN /\ entitled' \in BOOLEAN
         /\ fatal' \in BOOLEAN
<1>1. PICK n \in Request :
        /\ toGo' = Append(toGo, [kind |-> kind, req |-> n, old |-> old, pin |-> pin])
        /\ waiting' = [waiting EXCEPT ![kind] = Append(@, [req |-> n, pin |-> pin, by |-> by])]
  BY DEF Ask
<1>2. toGo' \in Seq(Call \cup {ClearAll})
  BY <1>1 DEF TypeOK, KeyshareTypeOK, Call
<1>3. waiting' \in [Kind -> Seq(Waiter)]
  <2> DEFINE w == [req |-> n, pin |-> pin, by |-> by]
  <2>1. w \in Waiter
    BY DEF Waiter
  <2>2. waiting[kind] \in Seq(Waiter) /\ waiting \in [Kind -> Seq(Waiter)]
    BY DEF TypeOK
  <2> HIDE DEF w
  <2>3. Append(waiting[kind], w) \in Seq(Waiter)
    BY <2>1, <2>2
  <2>4. waiting' = [waiting EXCEPT ![kind] = Append(waiting[kind], w)]
    BY <1>1 DEF w
  <2> QED
    BY <2>2, <2>3, <2>4
<1>4. /\ crossed' \in BOOLEAN /\ unsure' \in BOOLEAN /\ entitled' \in BOOLEAN
      /\ fatal' \in BOOLEAN
  BY DEF Ask, TypeOK
<1>5. enrolled' = enrolled /\ serverPin' = serverPin /\ calls' = calls /\ toApp' = toApp
  BY DEF Ask
<1> QED
  BY <1>2, <1>3, <1>4, <1>5 DEF TypeOK, KeyshareTypeOK

LEMMA LeftByType ==
  ASSUME TypeOK, NEW gone
  PROVE  LeftBy(gone) \in [Kind -> Seq(Waiter)]
<1>1. ASSUME NEW k \in Kind
      PROVE  [i \in DOMAIN waiting[k] |->
                IF waiting[k][i].by \in gone
                  THEN [waiting[k][i] EXCEPT !.by = "gone"] ELSE waiting[k][i]] \in Seq(Waiter)
  <2> DEFINE s == waiting[k]
             f == [i \in DOMAIN s |-> IF s[i].by \in gone THEN [s[i] EXCEPT !.by = "gone"] ELSE s[i]]
  <2>1. s \in Seq(Waiter)
    BY <1>1 DEF TypeOK
  <2>2. ASSUME NEW w \in Waiter
        PROVE  (IF w.by \in gone THEN [w EXCEPT !.by = "gone"] ELSE w) \in Waiter
    BY DEF Waiter
  <2>3. f \in [1..Len(s) -> Waiter]
    BY <2>1, <2>2
  <2> HIDE DEF f
  <2>4. f \in Seq(Waiter)
    BY <2>1, <2>3
  <2> QED
    BY <2>4 DEF f
<1> QED
  BY <1>1 DEF LeftBy

\* The answers of the server.
LEMMA ServerType ==
  ASSUME TypeOK, ServerAnswers
  PROVE  KeyshareTypeOK'
<1>1. PICK c \in calls : calls' = calls \ {c} /\ (Enrolled(c) \/ Verified(c) \/ Changed(c))
  BY DEF ServerAnswers
<1>2. c \in Call /\ toApp \in Seq(Event)
  BY DEF TypeOK, KeyshareTypeOK
<1>3. \A o \in Outcome : <<AnswerTo(c, o)>> \in Seq(Event)
  BY <1>2, AnswerType
<1>4. <<Status(TRUE), AnswerTo(c, "success")>> \in Seq(Event)
  <2>1. Status(TRUE) \in Event
    BY StatusType
  <2>2. AnswerTo(c, "success") \in Event
    BY <1>2, AnswerType DEF Outcome
  <2>3. ASSUME NEW a \in Event, NEW b \in Event
        PROVE  <<a, b>> \in Seq(Event)
    OBVIOUS
  <2> QED
    BY <2>1, <2>2, <2>3, Zenon
<1>5. enrolled' \in BOOLEAN /\ serverPin' \in Pin
  BY <1>1, <1>2 DEF TypeOK, KeyshareTypeOK, Enrolled, Verified, Changed, Call
<1>6. toApp' \in Seq(Event)
  <2>1. \E events \in Seq(Event) : Dispatch(events)
    <3>1. CASE Enrolled(c)
      BY <3>1, <1>3, <1>4 DEF Enrolled, EnrollmentSuccess, EnrollmentFailure, Outcome
    <3>2. CASE Verified(c)
      BY <3>2, <1>3 DEF Verified, Refusals, Outcome
    <3>3. CASE Changed(c)
      BY <3>3, <1>3 DEF Changed, ChangePinSuccess, ChangePinFailure,
                        ChangePinIncorrect, ChangePinBlocked, Outcome
    <3> QED
      BY <1>1, <3>1, <3>2, <3>3
  <2> QED
    BY <2>1, <1>2, DispatchType
<1>7. calls' \subseteq Call /\ toGo' \in Seq(Call \cup {ClearAll})
  BY <1>1 DEF TypeOK, KeyshareTypeOK, ServerAnswers
<1> QED
  BY <1>5, <1>6, <1>7 DEF KeyshareTypeOK

\* The handlers of irmagobridge.
LEMMA HandlerType ==
  ASSUME TypeOK, DispatchFromNative
  PROVE  KeyshareTypeOK'
<1> DEFINE c == Head(toGo)
<1>1. toGo \in Seq(Call \cup {ClearAll}) /\ toGo # <<>> /\ toApp \in Seq(Event)
  BY DEF TypeOK, KeyshareTypeOK, DispatchFromNative
<1>2. c \in Call \cup {ClearAll} /\ toGo' \in Seq(Call \cup {ClearAll})
  BY <1>1 DEF DispatchFromNative
<1>3. c.kind # "clear" => c \in Call
  BY <1>2 DEF ClearAll
<1>4. <<Status(FALSE)>> \in Seq(Event)
  BY StatusSeqType
<1>5. c \in Call => <<AnswerTo(c, "error")>> \in Seq(Event)
  BY AnswerType DEF Outcome
<1>6. serverPin' = serverPin
  BY DEF DispatchFromNative
<1>7. enrolled' \in BOOLEAN /\ calls' \subseteq Call /\ toApp' \in Seq(Event)
  <2>1. CASE c.kind = "enroll" /\ enroll(c) /\ UNCHANGED enrolled
    BY <2>1, <1>1, <1>3, <1>5, DispatchType DEF enroll, TypeOK, KeyshareTypeOK
  <2>2. CASE c.kind = "verify" /\ authenticate(c) /\ UNCHANGED enrolled
    BY <2>2, <1>1, <1>3, <1>5, DispatchType DEF authenticate, TypeOK, KeyshareTypeOK
  <2>3. CASE c.kind = "change" /\ changePin(c) /\ UNCHANGED enrolled
    BY <2>3, <1>1, <1>3 DEF changePin, TypeOK, KeyshareTypeOK
  <2>4. CASE c.kind = "clear" /\ clearAllData /\ UNCHANGED calls
    BY <2>4, <1>1, <1>4, DispatchType DEF clearAllData, TypeOK, KeyshareTypeOK
  <2> QED
    BY <2>1, <2>2, <2>3, <2>4 DEF DispatchFromNative
<1> QED
  BY <1>2, <1>6, <1>7 DEF KeyshareTypeOK, TypeOK

\* What the app takes from its channel.
LEMMA ReceiveType ==
  ASSUME TypeOK, ReceiveAnswer
  PROVE  TypeOK'
<1> DEFINE m == Head(toApp)
<1>1. toApp \in Seq(Event) /\ toApp # <<>> /\ m.kind \in Kind
  BY DEF TypeOK, KeyshareTypeOK, ReceiveAnswer, IsAnswer
<1>2. m \in Event /\ toApp' \in Seq(Event)
  BY <1>1 DEF ReceiveAnswer
<1>3. m \in Answer
  BY <1>1, <1>2 DEF Event, Kind, Fatal
<1>4. KeyshareTypeOK'
  BY <1>2 DEF ReceiveAnswer, TypeOK, KeyshareTypeOK
<1>5. waiting' \in [Kind -> Seq(Waiter)]
  <2>1. waiting' = [waiting EXCEPT ![m.kind] = <<>>]
    BY DEF ReceiveAnswer, Tell
  <2> QED
    BY <2>1, <1>1 DEF TypeOK
<1>6. longPin' \in BOOLEAN
  <2> DEFINE takers == waiting[m.kind]
  <2>1. longPin' = longPin \/ longPin' = IsLong(takers[Len(takers)].pin)
    BY DEF ReceiveAnswer, Remember
  <2> HIDE DEF takers
  <2> QED
    BY <2>1, IsLongType, Zenon DEF TypeOK
<1>7. locked' \in BOOLEAN /\ status' = status
  BY DEF ReceiveAnswer, ReceiveVerify, ReceiveChange, ReceiveEnroll, Unlock, TypeOK
<1>8. screen' \in Screen
  <2>1. AfterVerify(m) \in Screen
    BY <1>3 DEF AfterVerify, Screen, ChangeScreens, TypeOK, Answer, Outcome
  <2> QED
    BY <2>1 DEF ReceiveAnswer, ReceiveVerify, ReceiveChange, ReceiveEnroll, TypeOK, Screen,
                ChangeScreens
<1>9. crossed' \in BOOLEAN /\ unsure' \in BOOLEAN /\ fatal' \in BOOLEAN
  BY DEF ReceiveAnswer, ReceiveVerify, ReceiveChange, ReceiveEnroll, TypeOK
<1> QED
  BY <1>4, <1>5, <1>6, <1>7, <1>8, <1>9 DEF ReceiveAnswer, TypeOK

LEMMA StatusStepType ==
  ASSUME TypeOK, ReceiveStatus
  PROVE  TypeOK'
<1>1. toApp' \in Seq(Event)
  BY DEF ReceiveStatus, TypeOK, KeyshareTypeOK
<1>2. KeyshareTypeOK'
  BY <1>1 DEF ReceiveStatus, TypeOK, KeyshareTypeOK
<1>3. waiting' \in [Kind -> Seq(Waiter)]
  BY LeftByType DEF ReceiveStatus, TypeOK
<1>4. /\ locked' \in BOOLEAN /\ longPin' \in BOOLEAN
      /\ status' \in {"undetermined", "enrolled", "unenrolled"} /\ screen' \in Screen
  BY DEF ReceiveStatus, TypeOK, Screen
<1> QED
  BY <1>2, <1>3, <1>4 DEF ReceiveStatus, TypeOK, history

LEMMA FatalType ==
  ASSUME TypeOK, ReceiveFatal \/ TimeOut
  PROVE  TypeOK'
<1>1. toApp' \in Seq(Event)
  <2>1. toApp \in Seq(Event)
    BY DEF TypeOK, KeyshareTypeOK
  <2>2. toApp' = toApp \/ (toApp # <<>> /\ toApp' = Tail(toApp))
    BY Zenon DEF ReceiveFatal, TimeOut
  <2> QED
    BY <2>1, <2>2
<1>2. /\ locked' = FALSE /\ fatal' = TRUE
      /\ UNCHANGED <<enrolled, serverPin, calls, toGo, status, longPin, screen, waiting,
                     submitted, oldPin, crossed, unsure, entitled>>
  BY DEF ReceiveFatal, TimeOut, FatalError
<1>3. KeyshareTypeOK'
  BY <1>1, <1>2 DEF TypeOK, KeyshareTypeOK
<1> QED
  BY <1>2, <1>3 DEF TypeOK

\* A new start.
LEMMA RestartType ==
  ASSUME TypeOK, Restart
  PROVE  TypeOK'
<1>1. enrolled' \in BOOLEAN /\ serverPin' \in Pin /\ calls' = {} /\ toGo' = <<>>
  BY DEF Restart, Crash, TypeOK, KeyshareTypeOK, Call
<1>2. toApp' \in Seq(Event)
  BY <1>1, WelcomeType DEF Restart
<1>3. KeyshareTypeOK'
  BY <1>1, <1>2 DEF KeyshareTypeOK
<1>4. waiting' \in [Kind -> Seq(Waiter)] /\ submitted' \in Seq(Pin)
  BY DEF Restart
<1> QED
  BY <1>3, <1>4 DEF Restart, TypeOK, Screen

LEMMA InitType == Init => TypeOK
<1> SUFFICES ASSUME Init PROVE TypeOK
  OBVIOUS
<1>1. toApp \in Seq(Event)
  BY WelcomeType DEF Init
<1>2. KeyshareTypeOK
  BY <1>1 DEF Init, KeyshareTypeOK
<1>3. longPin \in BOOLEAN
  BY IsLongType, Zenon DEF Init
<1>4. waiting \in [Kind -> Seq(Waiter)] /\ submitted \in Seq(Pin)
  BY DEF Init
<1>5. /\ locked \in BOOLEAN /\ crossed \in BOOLEAN /\ unsure \in BOOLEAN /\ entitled \in BOOLEAN
      /\ fatal \in BOOLEAN
      /\ status \in {"undetermined", "enrolled", "unenrolled"} /\ screen \in Screen
      /\ oldPin \in Pin
  <2>1. oldPin \in Pin /\ screen = "loading" /\ status = "undetermined" /\ locked = TRUE
        /\ crossed = FALSE /\ unsure = FALSE /\ entitled = FALSE /\ fatal = FALSE
    BY Zenon DEF Init
  <2> QED
    BY <2>1 DEF Screen
<1> QED
  BY <1>2, <1>3, <1>4, <1>5 DEF TypeOK

LEMMA TypeStep == TypeOK /\ [Next]_vars => TypeOK'
<1> SUFFICES ASSUME TypeOK, [Next]_vars PROVE TypeOK'
  OBVIOUS
<1> USE DEF TypeOK, Screen, ChangeScreens
<1>1. CASE Enroll
  <2>1. PICK pin \in Pin : Ask("enroll", pin, pin, "enrollment")
    BY <1>1 DEF Enroll
  <2> QED
    BY <1>1, <2>1, AskType DEF Enroll, Kind
<1>2. ASSUME NEW s \in {"pin", "modal_pin"}, SubmitPin(s) PROVE TypeOK'
  <2>1. PICK pin \in Pin : Ask("verify", pin, pin, s)
    BY <1>2 DEF SubmitPin
  <2> QED
    BY <1>2, <2>1, AskType DEF SubmitPin, Kind
<1>3. CASE SubmitOldPin
  BY <1>3 DEF SubmitOldPin, keyshareVars, history, KeyshareTypeOK
<1>4. CASE VerifyOldPin
  <2>1. Head(submitted) \in Pin /\ submitted' \in Seq(Pin)
    BY <1>4 DEF VerifyOldPin
  <2> QED
    BY <1>4, <2>1, AskType DEF VerifyOldPin, Kind
<1>5. CASE ChangePin
  <2>1. PICK pin \in Pin : Ask("change", oldPin, pin, "choose_pin")
    BY <1>5 DEF ChangePin
  <2> QED
    BY <1>5, <2>1, AskType DEF ChangePin, Kind
<1>6. CASE ClearAllData
  <2>1. toGo' \in Seq(Call \cup {ClearAll})
    BY <1>6 DEF ClearAllData, KeyshareTypeOK
  <2> QED
    BY <1>6, <2>1 DEF ClearAllData, KeyshareTypeOK
<1>7. CASE OpenModalPin
  BY <1>7 DEF OpenModalPin, GoTo, keyshareVars, history, KeyshareTypeOK
<1>8. CASE CloseModalPin
  BY <1>8, LeftByType DEF CloseModalPin, GoTo, keyshareVars, history, KeyshareTypeOK
<1>9. CASE OpenChangePin
  BY <1>9 DEF OpenChangePin, GoTo, keyshareVars, history, KeyshareTypeOK
<1>10. CASE LeaveChangePin
  BY <1>10 DEF LeaveChangePin, GoTo, keyshareVars, history, KeyshareTypeOK
<1>11. CASE Lock
  BY <1>11 DEF Lock, keyshareVars, history, KeyshareTypeOK
<1>12. CASE Handle
  BY <1>12, HandlerType DEF Handle, appVars, history
<1>13. CASE Serve
  BY <1>13, ServerType DEF Serve, appVars
<1>14. CASE ReceiveAnswer
  BY <1>14, ReceiveType
<1>15. CASE ReceiveStatus
  BY <1>15, StatusStepType
<1>16. CASE Restart
  BY <1>16, RestartType
<1>17. CASE UNCHANGED vars
  BY <1>17 DEF vars, keyshareVars, appVars, history, KeyshareTypeOK
<1>18. CASE ReceiveFatal \/ TimeOut
  BY <1>18, FatalType
<1> QED
  BY <1>1, <1>2, <1>3, <1>4, <1>5, <1>6, <1>7, <1>8, <1>9, <1>10, <1>11, <1>12, <1>13,
     <1>14, <1>15, <1>16, <1>17, <1>18 DEF Next, User

\* Every variable of the app lock and the keyshare protocol keeps its type.
THEOREM TypeCorrect == Spec => []TypeOK
<1>1. Init => TypeOK
  BY InitType
<1>2. TypeOK /\ [Next]_vars => TypeOK'
  BY TypeStep
<1> QED
  BY <1>1, <1>2, PTL DEF Spec

-----------------------------------------------------------------------------
(* An app with an account is open only for who knows its PIN. *)

\* Without events, what was vouched for stays so.
LEMMA VouchedSame ==
  ASSUME Vouched, UNCHANGED <<toApp, status>>, entitled => entitled'
  PROVE  Vouched'
BY DEF Vouched, Unlocks, TellsOfAccount

\* Nor does taking an event from the channel of an app that knows its status.
LEMMA VouchedTail ==
  ASSUME TypeOK, Vouched, toApp # <<>>, toApp' = Tail(toApp),
         status # "undetermined" \/ Len(toApp) <= 1, UNCHANGED entitled
  PROVE  Vouched'
<1>1. toApp \in Seq(Event)
  BY DEF TypeOK, KeyshareTypeOK
<1>2. ASSUME NEW i \in DOMAIN toApp'
      PROVE  toApp'[i] = toApp[i + 1] /\ i + 1 \in DOMAIN toApp /\ ~(Len(toApp) <= 1)
  BY <1>1, <1>2
<1> QED
  BY <1>2 DEF Vouched, Unlocks, TellsOfAccount

\* A new event must be vouched for itself.
LEMMA VouchedOne ==
  ASSUME TypeOK, Vouched, NEW a \in Event, toApp' = toApp \o <<a>>, UNCHANGED status,
         entitled => entitled', Unlocks(a) \/ TellsOfAccount(a) => entitled'
  PROVE  Vouched'
<1>1. toApp \in Seq(Event)
  BY DEF TypeOK, KeyshareTypeOK
<1>2. ASSUME NEW i \in DOMAIN toApp'
      PROVE  (i \in DOMAIN toApp /\ toApp'[i] = toApp[i]) \/ toApp'[i] = a
  BY <1>1, <1>2
<1> QED
  BY <1>2 DEF Vouched, Unlocks, TellsOfAccount

\* The server vouches for a success.
LEMMA ServeVouched ==
  ASSUME TypeOK, Vouched, Serve
  PROVE  Vouched'
<1>1. PICK c \in calls : calls' = calls \ {c} /\ (Enrolled(c) \/ Verified(c) \/ Changed(c))
  BY DEF Serve, ServerAnswers
<1>2. c \in Call /\ calls \ calls' = {c} /\ toApp \in Seq(Event)
  BY <1>1 DEF TypeOK, KeyshareTypeOK
<1>3. UNCHANGED status /\ (entitled => entitled')
  BY Zenon DEF Serve, appVars
<1>4. \A o \in Outcome : AnswerTo(c, o) \in Event /\ AnswerTo(c, o).outcome = o
                         /\ AnswerTo(c, o).kind = c.kind
  BY <1>2, AnswerType DEF AnswerTo
<1>5. ASSUME NEW o \in Outcome, Dispatch(<<AnswerTo(c, o)>>),
             c.kind = "verify" /\ o = "success" => Accepts(c.pin)
      PROVE  Vouched'
  <2> DEFINE a == AnswerTo(c, o)
  <2>1. a \in Event /\ a.kind = c.kind /\ a.outcome = o
    BY <1>4
  <2> HIDE DEF a
  <2>2. toApp' = toApp \o <<a>>
    BY <1>5 DEF Dispatch, a
  <2>3. toApp'[Len(toApp')] = a
    BY <1>2, <2>1, <2>2
  <2>4. Unlocks(a) => entitled'
    <3>1. Unlocks(a) => Accepts(c.pin) /\ toApp'[Len(toApp')].outcome = "success"
      BY <1>5, <2>1, <2>3 DEF Unlocks
    <3> QED
      BY <3>1, <1>2 DEF Serve
  <2>5. ~TellsOfAccount(a)
    BY <2>1, <1>2 DEF TellsOfAccount, Call, Kind
  <2> QED
    BY <1>3, <2>1, <2>2, <2>4, <2>5, VouchedOne
<1>6. CASE Enrolled(c)
  <2>1. CASE EnrollmentSuccess(c)
    <3> DEFINE a == AnswerTo(c, "success")
               s == Status(TRUE)
    <3>1. a \in Event /\ a.kind = "enroll" /\ a.outcome = "success"
      BY <1>4, <1>6 DEF Outcome, Enrolled
    <3>2. s \in Event
      BY StatusType
    <3> HIDE DEF a, s
    <3>3. toApp' = toApp \o <<s, a>>
      BY <2>1 DEF EnrollmentSuccess, Dispatch, a, s
    <3>4. toApp'[Len(toApp')] = a
      BY <1>2, <3>1, <3>2, <3>3
    <3>5. entitled'
      BY <1>2, <1>6, <3>1, <3>4 DEF Serve, Enrolled
    <3>6. ASSUME NEW i \in DOMAIN toApp'
          PROVE  (i \in DOMAIN toApp /\ toApp'[i] = toApp[i]) \/ toApp'[i] \in {s, a}
      BY <1>2, <3>1, <3>2, <3>3, <3>6
    <3> QED
      BY <3>5, <3>6 DEF Vouched
  <2>2. CASE EnrollmentFailure(c)
    BY <2>2, <1>5 DEF EnrollmentFailure, Outcome
  <2> QED
    BY <1>6, <2>1, <2>2 DEF Enrolled
<1>7. CASE Verified(c)
  BY <1>7, <1>5 DEF Verified, Refusals, Outcome
<1>8. CASE Changed(c)
  BY <1>8, <1>5 DEF Changed, ChangePinSuccess, ChangePinFailure, ChangePinIncorrect,
                    ChangePinBlocked, Outcome
<1> QED
  BY <1>1, <1>6, <1>7, <1>8

\* The handlers themselves let no one in.
LEMMA HandleVouched ==
  ASSUME TypeOK, Vouched, Handle
  PROVE  Vouched'
<1> DEFINE c == Head(toGo)
<1>1. UNCHANGED <<status, entitled>>
  BY DEF Handle, appVars, history
<1>2. c \in Call \cup {ClearAll}
  BY DEF Handle, DispatchFromNative, TypeOK, KeyshareTypeOK
<1>3. CASE UNCHANGED toApp
  BY <1>1, <1>3, VouchedSame
<1>4. CASE c.kind # "clear" /\ Dispatch(<<AnswerTo(c, "error")>>)
  <2> DEFINE a == AnswerTo(c, "error")
  <2>1. c \in Call
    BY <1>2, <1>4 DEF ClearAll
  <2>2. a \in Event
    BY <2>1, AnswerType DEF Outcome
  <2>3. ~Unlocks(a) /\ ~TellsOfAccount(a)
    BY <2>1 DEF AnswerTo, Unlocks, TellsOfAccount, Call, Kind
  <2> HIDE DEF a, c
  <2> QED
    BY <1>1, <1>4, <2>2, <2>3, VouchedOne DEF a, Dispatch
<1>5. CASE Dispatch(<<Status(FALSE)>>)
  <2> DEFINE s == Status(FALSE)
  <2>1. s \in Event
    BY StatusType
  <2>2. ~Unlocks(s) /\ ~TellsOfAccount(s)
    BY DEF Status, Unlocks, TellsOfAccount
  <2> HIDE DEF s
  <2> QED
    BY <1>1, <1>5, <2>1, <2>2, VouchedOne DEF s, Dispatch
<1> QED
  BY <1>3, <1>4, <1>5 DEF Handle, DispatchFromNative, enroll, authenticate, changePin, clearAllData

\* Every step of an app that knows its status.
LEMMA OpenStep == OpenInv /\ [Next]_vars => OpenInv'
<1> SUFFICES ASSUME OpenInv, [Next]_vars PROVE OpenInv'
  OBVIOUS
<1>1. TypeOK'
  BY TypeStep DEF OpenInv
<1> SUFFICES Fresh' /\ Open' /\ Vouched'
  BY <1>1 DEF OpenInv
<1> USE DEF OpenInv
\* A step that leaves the channel alone, and is not taken by a fresh app.
<1>2. ASSUME UNCHANGED <<toApp, status>>, entitled => entitled', status # "undetermined",
             \/ locked' \/ entitled' \/ status = "unenrolled"
             \/ locked' = locked /\ fatal' = fatal
      PROVE  Fresh' /\ Open' /\ Vouched'
  <2>1. Vouched'
    BY <1>2, VouchedSame
  <2> QED
    BY <1>2, <2>1 DEF Fresh, Open, TypeOK
<1>3. CASE User
  <2>1. CASE Enroll
    BY <2>1, <1>2 DEF Enroll, Ask, Fresh
  <2>2. ASSUME NEW s \in {"pin", "modal_pin"}, SubmitPin(s) PROVE Fresh' /\ Open' /\ Vouched'
    BY <2>2, <1>2 DEF SubmitPin, Ask, Fresh
  <2>3. CASE SubmitOldPin
    BY <2>3, <1>2 DEF SubmitOldPin, Fresh, keyshareVars, history
  <2>4. CASE ChangePin
    BY <2>4, <1>2 DEF ChangePin, Ask, Fresh
  <2>5. CASE ClearAllData
    BY <2>5, <1>2 DEF ClearAllData, Fresh
  <2>6. CASE OpenModalPin \/ CloseModalPin \/ OpenChangePin \/ LeaveChangePin
    BY <2>6, <1>2 DEF OpenModalPin, CloseModalPin, OpenChangePin, LeaveChangePin, GoTo, Fresh,
                      ChangeScreens, keyshareVars, history
  <2>7. CASE Lock
    BY <2>7, <1>2 DEF Lock, Fresh, keyshareVars, history
  <2> QED
    BY <1>3, <2>1, <2>2, <2>3, <2>4, <2>5, <2>6, <2>7 DEF User
<1>4. CASE VerifyOldPin
  BY <1>4, <1>2 DEF VerifyOldPin, Ask, Fresh
<1>5. CASE Handle
  <2>1. Vouched'
    BY <1>5, HandleVouched
  <2>2. status # "undetermined"
    BY <1>5 DEF Handle, DispatchFromNative, Fresh
  <2> QED
    BY <1>5, <2>1, <2>2 DEF Handle, Fresh, Open, appVars, history
<1>6. CASE Serve
  <2>1. Vouched'
    BY <1>6, ServeVouched
  <2>2. status # "undetermined"
    BY <1>6 DEF Serve, ServerAnswers, Fresh
  <2>3. UNCHANGED <<status, locked, fatal>> /\ (entitled => entitled')
    BY <1>6, Zenon DEF Serve, appVars
  <2> QED
    BY <2>1, <2>2, <2>3 DEF Fresh, Open
<1>7. CASE ReceiveAnswer
  <2> DEFINE m == Head(toApp)
  <2>1. toApp \in Seq(Event) /\ toApp # <<>> /\ IsAnswer(m) /\ toApp' = Tail(toApp)
        /\ UNCHANGED <<status, entitled>>
    BY <1>7 DEF ReceiveAnswer, TypeOK, KeyshareTypeOK, ReceiveVerify, ReceiveChange, ReceiveEnroll
  <2>2. status # "undetermined"
    <3>1. Len(toApp) >= 1 /\ m = toApp[1] /\ Len(toApp) \in Nat
      BY <2>1
    <3>2. m.kind \notin {"status", "fatal"}
      BY <2>1 DEF IsAnswer, Kind
    <3> HIDE DEF m
    <3> QED
      BY <3>1, <3>2 DEF Fresh
  <2>3. Vouched'
    BY <2>1, <2>2, VouchedTail DEF OpenInv
  <2>4. (locked' = locked /\ fatal' = fatal) \/ locked' \/ Unlocks(m)
    BY <1>7 DEF ReceiveAnswer, ReceiveVerify, ReceiveChange, ReceiveEnroll, Unlock, Unlocks, TypeOK
  <2>5. Unlocks(m) => entitled
    BY <2>1 DEF Vouched
  <2> QED
    BY <2>1, <2>2, <2>3, <2>4, <2>5 DEF Fresh, Open, TypeOK
<1>8. CASE ReceiveStatus
  <2>1. toApp \in Seq(Event) /\ toApp # <<>> /\ toApp' = Tail(toApp)
        /\ UNCHANGED <<entitled, fatal>> /\ (status # "undetermined" \/ Len(toApp) <= 1)
    BY <1>8 DEF ReceiveStatus, TypeOK, KeyshareTypeOK, Fresh, history
  <2>2. Vouched'
    BY <2>1, VouchedTail
  <2>3. status' # "undetermined"
    BY <1>8 DEF ReceiveStatus
  <2>4. Open'
    <3>1. CASE status' = "unenrolled"
      BY <3>1 DEF Open
    <3>2. CASE Head(toApp).enrolled /\ status' = "enrolled" /\ UNCHANGED locked
      <4>1. TellsOfAccount(toApp[1])
        BY <1>8, <2>1, <3>2 DEF ReceiveStatus, TellsOfAccount
      <4>2. status # "undetermined" => entitled
        BY <4>1, <2>1 DEF Vouched
      <4> QED
        BY <4>2, <2>1, <3>2 DEF Open, Fresh
    <3> QED
      BY <1>8, <3>1, <3>2 DEF ReceiveStatus
  <2> QED
    BY <2>2, <2>3, <2>4 DEF Fresh
<1>9. CASE Restart
  <2>1. toApp' \in Welcome(enrolled') /\ locked' = TRUE /\ status' = "undetermined"
        /\ screen' = "loading" /\ calls' = {} /\ toGo' = <<>> /\ submitted' = <<>>
    BY <1>9, Zenon DEF Restart, Crash
  <2>2. toApp'[1].kind \in {"status", "fatal"} /\ Len(toApp') = 1 /\ DOMAIN toApp' = {1}
    BY <1>1, <2>1, WelcomeFacts DEF TypeOK, KeyshareTypeOK
  <2>3. Fresh' /\ Open'
    BY <2>1, <2>2 DEF Fresh, Open
  <2>4. Vouched'
    BY <2>1, <2>2 DEF Vouched, Unlocks
  <2> QED
    BY <2>3, <2>4
<1>10. CASE UNCHANGED vars
  <2>1. Vouched'
    BY <1>10, VouchedSame DEF vars, keyshareVars, appVars, history
  <2> QED
    BY <1>10, <2>1 DEF vars, keyshareVars, appVars, history, Fresh, Open
<1>11. CASE ReceiveFatal
  <2>1. toApp \in Seq(Event) /\ toApp # <<>> /\ toApp' = Tail(toApp)
        /\ UNCHANGED <<entitled, status, screen, calls, toGo, submitted>> /\ fatal' = TRUE
        /\ (status # "undetermined" \/ Len(toApp) <= 1)
    BY <1>11 DEF ReceiveFatal, FatalError, TypeOK, KeyshareTypeOK, Fresh
  <2>2. Vouched'
    BY <2>1, VouchedTail
  <2>3. status = "undetermined" => Len(toApp') = 0
    <3>1. Len(toApp) \in Nat /\ Len(toApp) # 0 /\ Len(toApp') = Len(toApp) - 1
      BY <2>1
    <3> QED
      BY <2>1, <3>1
  <2> QED
    BY <2>1, <2>2, <2>3 DEF Fresh, Open
<1>12. CASE TimeOut
  <2>1. UNCHANGED <<toApp, entitled, status, screen, calls, toGo, submitted>> /\ fatal' = TRUE
    BY <1>12 DEF TimeOut, FatalError
  <2>2. Vouched'
    BY <2>1, VouchedSame
  <2> QED
    BY <2>1, <2>2 DEF Fresh, Open
<1> QED
  BY <1>3, <1>4, <1>5, <1>6, <1>7, <1>8, <1>9, <1>10, <1>11, <1>12 DEF Next

LEMMA OpenInit == Init => OpenInv
<1> SUFFICES ASSUME Init PROVE OpenInv
  OBVIOUS
<1>1. TypeOK
  BY InitType
<1>2. toApp \in Welcome(enrolled) /\ locked = TRUE /\ status = "undetermined"
      /\ screen = "loading" /\ calls = {} /\ toGo = <<>> /\ submitted = <<>>
  BY Zenon DEF Init
<1>3. toApp[1].kind \in {"status", "fatal"} /\ Len(toApp) = 1 /\ DOMAIN toApp = {1}
  BY <1>1, <1>2, WelcomeFacts DEF TypeOK, KeyshareTypeOK
<1>4. Vouched
  BY <1>2, <1>3 DEF Vouched, Unlocks
<1> QED
  BY <1>1, <1>2, <1>3, <1>4 DEF OpenInv, Fresh, Open

\* An app with an account that no fatal error has opened is never open to who did
\* not give its PIN, make the account or have everything deleted since it started.
THEOREM OpenTheorem == Spec => []OpenAfterPin
<1>1. Init => OpenInv
  BY OpenInit
<1>2. OpenInv /\ [Next]_vars => OpenInv'
  BY OpenStep
<1>3. OpenInv => OpenAfterPin
  BY DEF OpenInv, Open, OpenAfterPin
<1> QED
  BY <1>1, <1>2, <1>3, PTL DEF Spec

-----------------------------------------------------------------------------
(* Answers and those who wait for them. *)

IsRequest(c) == c.kind # "clear"

\* Somebody waits for the answer to this request.
Awaited(x) == \E i \in DOMAIN waiting[x.kind] : waiting[x.kind][i].req = x.req

OneWaiter ==
  \A k, l \in Kind : \A i \in DOMAIN waiting[k], j \in DOMAIN waiting[l] : k = l /\ i = j

AllAwaited ==
  /\ \A c \in calls : Awaited(c)
  /\ \A i \in DOMAIN toGo : IsRequest(toGo[i]) => Awaited(toGo[i])
  /\ \A i \in DOMAIN toApp : IsAnswer(toApp[i]) => Awaited(toApp[i])

\* A request is on its way to Go, with the server, or on its way back.
OnePlace ==
  /\ \A c, d \in calls : c = d
  /\ \A i, j \in DOMAIN toGo : IsRequest(toGo[i]) /\ IsRequest(toGo[j]) => i = j
  /\ \A i, j \in DOMAIN toApp : IsAnswer(toApp[i]) /\ IsAnswer(toApp[j]) => i = j
  /\ \A c \in calls, i \in DOMAIN toGo : ~IsRequest(toGo[i])
  /\ \A c \in calls, i \in DOMAIN toApp : ~IsAnswer(toApp[i])
  /\ \A i \in DOMAIN toGo, j \in DOMAIN toApp : ~(IsRequest(toGo[i]) /\ IsAnswer(toApp[j]))

\* There is one request at most, and somebody waits for its answer.
Single == OneWaiter /\ AllAwaited /\ OnePlace

OwnInv == TypeOK /\ (~crossed => Single)

LEMMA InAppend ==
  ASSUME NEW S, NEW s \in Seq(S), NEW x \in S
  PROVE  LET t == Append(s, x) n == Len(s) + 1
         IN  /\ t \in Seq(S) /\ n \in DOMAIN t /\ t[n] = x
             /\ \A i \in DOMAIN s : i \in DOMAIN t /\ t[i] = s[i] /\ i # n /\ n > i
             /\ \A i \in DOMAIN t : i = n \/ (i \in DOMAIN s /\ n > i)
OBVIOUS

LEMMA InTail ==
  ASSUME NEW S, NEW s \in Seq(S), s # <<>>
  PROVE  LET t == Tail(s)
         IN  /\ t \in Seq(S) /\ 1 \in DOMAIN s /\ s[1] = Head(s) /\ Head(s) \in S
             /\ \A i \in DOMAIN t :
                  i \in Nat /\ i # 0 /\ i + 1 \in DOMAIN s /\ t[i] = s[i + 1]
             /\ \A i \in DOMAIN s : i = 1 \/ (i \in Nat /\ i - 1 \in DOMAIN t)
<1> DEFINE t == Tail(s)
<1>1. t \in Seq(S) /\ 1 \in DOMAIN s /\ s[1] = Head(s) /\ Len(t) = Len(s) - 1 /\ Head(s) \in S
  OBVIOUS
<1>2. DOMAIN s = 1..Len(s) /\ DOMAIN t = 1..Len(t) /\ Len(s) \in Nat /\ Len(t) \in Nat
  BY <1>1
<1>3. \A i \in DOMAIN t : t[i] = s[i + 1]
  OBVIOUS
<1> HIDE DEF t
<1>4. /\ \A i \in DOMAIN t :
           i \in Nat /\ i # 0 /\ i + 1 \in DOMAIN s /\ t[i] = s[i + 1]
      /\ \A i \in DOMAIN s : i = 1 \/ (i \in Nat /\ i - 1 \in DOMAIN t)
  BY <1>1, <1>2, <1>3
<1> QED
  BY <1>1, <1>4 DEF t

\* An event that is dispatched is the last one.
LEMMA DispatchOne ==
  ASSUME TypeOK, NEW a \in Event, Dispatch(<<a>>)
  PROVE  toApp' = Append(toApp, a)
BY DEF Dispatch, TypeOK, KeyshareTypeOK

\* What is under way counts as outstanding.
LEMMA Counted ==
  /\ \A c \in calls : c.req \in Outstanding
  /\ \A i \in DOMAIN toGo : IsRequest(toGo[i]) => toGo[i].req \in Outstanding
  /\ \A i \in DOMAIN toApp : IsAnswer(toApp[i]) => toApp[i].req \in Outstanding
  /\ \A k \in Kind : \A i \in DOMAIN waiting[k] : waiting[k][i].req \in Outstanding
<1>1. \A c \in calls : c.req \in Outstanding
  BY DEF Outstanding
<1>2. ASSUME NEW i \in DOMAIN toGo, IsRequest(toGo[i])
      PROVE  toGo[i].req \in Outstanding
  <2>1. toGo[i] \in InSeq(toGo) /\ toGo[i] # ClearAll
    BY <1>2 DEF InSeq, IsRequest, ClearAll
  <2> QED
    BY <2>1 DEF Outstanding
<1>3. ASSUME NEW i \in DOMAIN toApp, IsAnswer(toApp[i])
      PROVE  toApp[i].req \in Outstanding
  <2>1. toApp[i] \in InSeq(toApp)
    BY DEF InSeq
  <2> QED
    BY <1>3, <2>1 DEF Outstanding
<1>4. ASSUME NEW k \in Kind, NEW i \in DOMAIN waiting[k]
      PROVE  waiting[k][i].req \in Outstanding
  <2>1. waiting[k][i] \in Waiters
    BY DEF InSeq, Waiters
  <2> QED
    BY <2>1 DEF Outstanding
<1> QED
  BY <1>1, <1>2, <1>3, <1>4

\* Nothing is under way and nobody waits.
Idle ==
  /\ calls = {}
  /\ \A i \in DOMAIN toGo : ~IsRequest(toGo[i])
  /\ \A i \in DOMAIN toApp : ~IsAnswer(toApp[i])
  /\ \A k \in Kind : DOMAIN waiting[k] = {}

LEMMA IdleIsSingle == Idle => Single
BY DEF Idle, Single, OneWaiter, AllAwaited, OnePlace

LEMMA NoneOutstanding == Outstanding = {} => Idle
BY Counted DEF Idle

LEMMA NoneOutstandingNext ==
  ASSUME Outstanding' = {} PROVE Single'
<1>1. calls' = {}
  BY DEF Outstanding
<1>2. ASSUME NEW i \in DOMAIN toGo', IsRequest(toGo'[i]) PROVE FALSE
  <2>1. toGo'[i] \in InSeq(toGo)' /\ toGo'[i] # ClearAll
    BY <1>2 DEF InSeq, IsRequest, ClearAll
  <2> QED
    BY <2>1 DEF Outstanding
<1>3. ASSUME NEW i \in DOMAIN toApp', IsAnswer(toApp'[i]) PROVE FALSE
  <2>1. toApp'[i] \in InSeq(toApp)'
    BY DEF InSeq
  <2> QED
    BY <1>3, <2>1 DEF Outstanding, IsAnswer
<1>4. ASSUME NEW k \in Kind, NEW i \in DOMAIN waiting'[k] PROVE FALSE
  <2>1. waiting'[k][i] \in Waiters'
    BY DEF InSeq, Waiters
  <2> QED
    BY <2>1 DEF Outstanding
<1> QED
  BY <1>1, <1>2, <1>3, <1>4 DEF Single, OneWaiter, AllAwaited, OnePlace, IsRequest, IsAnswer

LEMMA RequestKind ==
  ASSUME TypeOK
  PROVE  /\ \A c \in calls : c \in Call /\ c.kind \in Kind
         /\ \A i \in DOMAIN toGo : IsRequest(toGo[i]) => toGo[i] \in Call /\ toGo[i].kind \in Kind
<1>1. calls \subseteq Call /\ toGo \in Seq(Call \cup {ClearAll})
  BY DEF TypeOK, KeyshareTypeOK
<1>2. \A i \in DOMAIN toGo : toGo[i] \in Call \cup {ClearAll}
  BY <1>1
<1> QED
  BY <1>1, <1>2 DEF Call, ClearAll, IsRequest

LEMMA NoWaiters ==
  ASSUME TypeOK, Single, Waiters = {} PROVE Idle
<1>1. ASSUME NEW k \in Kind, NEW i \in DOMAIN waiting[k] PROVE FALSE
  <2>1. waiting[k][i] \in Waiters
    BY DEF InSeq, Waiters
  <2> QED
    BY <2>1
<1>2. \A x : x.kind \in Kind => ~Awaited(x)
  BY <1>1 DEF Awaited
<1> QED
  BY <1>1, <1>2, RequestKind DEF Single, AllAwaited, Idle, IsAnswer

\* What a request does to the channel and to those who wait.
AsksAs(n, kind, old, pin, by) ==
  LET c == [kind |-> kind, req |-> n, old |-> old, pin |-> pin]
      last == Len(waiting[kind]) + 1
  IN  /\ c \in Call /\ toGo' = Append(toGo, c)
      /\ last \in DOMAIN waiting'[kind] /\ last \notin DOMAIN waiting[kind]
      /\ waiting'[kind][last] = [req |-> n, pin |-> pin, by |-> by]
      /\ \A i \in DOMAIN waiting[kind] :
           i \in DOMAIN waiting'[kind] /\ waiting'[kind][i] = waiting[kind][i]
      /\ \A i \in DOMAIN waiting'[kind] : i = last \/ i \in DOMAIN waiting[kind]
      /\ \A k \in Kind \ {kind} : waiting'[k] = waiting[k]

LEMMA AskFacts ==
  ASSUME TypeOK, NEW kind \in Kind, NEW old \in Pin, NEW pin \in Pin,
         NEW by \in {"enrollment", "pin", "modal_pin", "enter_pin", "choose_pin", "gone"},
         Ask(kind, old, pin, by)
  PROVE  \E n \in Request \ Outstanding : AsksAs(n, kind, old, pin, by)
<1>1. PICK n \in Request \ Outstanding :
        /\ toGo' = Append(toGo, [kind |-> kind, req |-> n, old |-> old, pin |-> pin])
        /\ waiting' = [waiting EXCEPT ![kind] = Append(@, [req |-> n, pin |-> pin, by |-> by])]
  BY DEF Ask
<1> DEFINE c == [kind |-> kind, req |-> n, old |-> old, pin |-> pin]
           w == [req |-> n, pin |-> pin, by |-> by]
           last == Len(waiting[kind]) + 1
<1>2. c \in Call /\ w \in Waiter
  BY DEF Call, Waiter
<1>3. waiting[kind] \in Seq(Waiter) /\ waiting \in [Kind -> Seq(Waiter)]
  BY DEF TypeOK
<1>4. /\ waiting'[kind] = Append(waiting[kind], w)
      /\ \A k \in Kind \ {kind} : waiting'[k] = waiting[k]
  BY <1>1, <1>3
<1>5. toGo' = Append(toGo, c)
  BY <1>1
<1> HIDE DEF c, w
<1>6. /\ last \in DOMAIN waiting'[kind] /\ waiting'[kind][last] = w
      /\ last \notin DOMAIN waiting[kind]
      /\ \A i \in DOMAIN waiting[kind] :
           i \in DOMAIN waiting'[kind] /\ waiting'[kind][i] = waiting[kind][i]
      /\ \A i \in DOMAIN waiting'[kind] : i = last \/ i \in DOMAIN waiting[kind]
  BY <1>2, <1>3, <1>4, InAppend
<1> HIDE DEF last
<1>7. AsksAs(n, kind, old, pin, by)
  BY <1>2, <1>4, <1>5, <1>6, Zenon DEF AsksAs, c, w, last
<1> QED
  BY <1>7

\* The first request of all is the only one.
LEMMA SingleAsk ==
  ASSUME TypeOK, Idle, NEW kind \in Kind, NEW old \in Pin, NEW pin \in Pin,
         NEW by \in {"enrollment", "pin", "modal_pin", "enter_pin", "choose_pin", "gone"},
         Ask(kind, old, pin, by)
  PROVE  Single'
<1>1. PICK n \in Request \ Outstanding : AsksAs(n, kind, old, pin, by)
  BY AskFacts
<1> DEFINE c == [kind |-> kind, req |-> n, old |-> old, pin |-> pin]
           last == Len(waiting[kind]) + 1
<1>2. OneWaiter'
  BY <1>1 DEF AsksAs, Idle, OneWaiter
<1>3. c.kind = kind /\ Awaited(c)'
  BY <1>1 DEF AsksAs, Awaited
<1>4. toGo \in Seq(Call \cup {ClearAll}) /\ c \in Call \cup {ClearAll} /\ toGo' = Append(toGo, c)
  BY <1>1 DEF AsksAs, TypeOK, KeyshareTypeOK
<1> HIDE DEF c
<1>5. \A i \in DOMAIN toGo' :
        (i = Len(toGo) + 1 /\ toGo'[i] = c) \/ (i \in DOMAIN toGo /\ toGo'[i] = toGo[i])
  BY <1>4, InAppend
<1>6. UNCHANGED <<calls, toApp>>
  BY DEF Ask
<1>7. AllAwaited'
  BY <1>3, <1>5, <1>6, Zenon DEF AllAwaited, Idle
<1>8. OnePlace'
  BY <1>5, <1>6 DEF OnePlace, Idle
<1> QED
  BY <1>2, <1>7, <1>8 DEF Single

\* The same requests are awaited, by whomever.
SameWaiters ==
  \A k \in Kind :
    /\ DOMAIN waiting'[k] = DOMAIN waiting[k]
    /\ \A i \in DOMAIN waiting[k] :
         waiting'[k][i].req = waiting[k][i].req /\ waiting'[k][i].pin = waiting[k][i].pin

LEMMA LeftBySame ==
  ASSUME TypeOK, NEW gone, waiting' = LeftBy(gone)
  PROVE  SameWaiters
<1> SUFFICES ASSUME NEW k \in Kind
             PROVE  /\ DOMAIN waiting'[k] = DOMAIN waiting[k]
                    /\ \A i \in DOMAIN waiting[k] :
                         /\ waiting'[k][i].req = waiting[k][i].req
                         /\ waiting'[k][i].pin = waiting[k][i].pin
  BY DEF SameWaiters
<1>1. waiting'[k] = [i \in DOMAIN waiting[k] |->
        IF waiting[k][i].by \in gone THEN [waiting[k][i] EXCEPT !.by = "gone"]
        ELSE waiting[k][i]]
  BY DEF LeftBy
<1>2. ASSUME NEW i \in DOMAIN waiting[k] PROVE waiting[k][i] \in Waiter
  BY DEF TypeOK
<1>3. ASSUME NEW w \in Waiter
      PROVE  [w EXCEPT !.by = "gone"].req = w.req /\ [w EXCEPT !.by = "gone"].pin = w.pin
  BY DEF Waiter
<1> QED
  BY <1>1, <1>2, <1>3

\* Answers that tell of a PIN the app may not know the length of.
OfNewPin(m) ==
  \/ m.kind \in {"enroll", "change"} /\ m.outcome = "success"
  \/ m.kind = "change" /\ m.outcome = "error"

LEMMA AnswerFacts ==
  ASSUME NEW c \in Call, NEW o \in Outcome
  PROVE  LET m == AnswerTo(c, o)
         IN  /\ m \in Event /\ m.kind = c.kind /\ m.req = c.req /\ m.outcome = o
             /\ IsAnswer(m) /\ c.kind \in Kind /\ c.kind # "status" /\ IsRequest(c)
BY AnswerType DEF AnswerTo, Call, IsAnswer, Kind, IsRequest

\* What becomes of a call in Go.
LEMMA HandleFacts ==
  ASSUME TypeOK, Handle
  PROVE  LET c == Head(toGo)
         IN  /\ toGo \in Seq(Call \cup {ClearAll}) /\ toGo # <<>> /\ toGo' = Tail(toGo)
             /\ UNCHANGED <<serverPin, waiting, status, longPin, unsure, crossed>>
             /\ \/ /\ c \in Call /\ UNCHANGED <<toApp, enrolled>>
                   /\ calls' = calls \cup {c}
                \/ /\ c \in Call /\ UNCHANGED <<calls, enrolled>>
                   /\ toApp' = Append(toApp, AnswerTo(c, "error"))
                \/ UNCHANGED <<calls, toApp, enrolled>>
                \/ /\ enrolled' = FALSE /\ UNCHANGED calls
                   /\ toApp' = Append(toApp, Status(FALSE))
<1> DEFINE c == Head(toGo)
<1>1. /\ toGo \in Seq(Call \cup {ClearAll}) /\ toGo # <<>> /\ toGo' = Tail(toGo)
      /\ UNCHANGED <<serverPin, waiting, status, longPin, unsure, crossed>>
  BY DEF Handle, DispatchFromNative, TypeOK, KeyshareTypeOK, appVars, history
<1>2. c \in Call \cup {ClearAll}
  BY <1>1
<1>3. c.kind # "clear" => c \in Call
  BY <1>2 DEF ClearAll
<1>4. c \in Call => AnswerTo(c, "error") \in Event
  BY AnswerType DEF Outcome
<1>5. Status(FALSE) \in Event
  BY StatusType
<1>6. ASSUME NEW a \in Event, Dispatch(<<a>>) PROVE toApp' = Append(toApp, a)
  BY <1>6, DispatchOne
<1> HIDE DEF c
<1>7. CASE c.kind = "enroll" /\ enroll(c) /\ UNCHANGED enrolled
  BY <1>1, <1>3, <1>4, <1>6, <1>7 DEF enroll, c
<1>8. CASE c.kind = "verify" /\ authenticate(c) /\ UNCHANGED enrolled
  BY <1>1, <1>3, <1>4, <1>6, <1>8 DEF authenticate, c
<1>9. CASE c.kind = "change" /\ changePin(c) /\ UNCHANGED enrolled
  BY <1>1, <1>3, <1>9 DEF changePin, c
<1>10. CASE c.kind = "clear" /\ clearAllData /\ UNCHANGED calls
  BY <1>1, <1>5, <1>6, <1>10 DEF clearAllData, c
<1> QED
  BY <1>7, <1>8, <1>9, <1>10 DEF Handle, DispatchFromNative, c

\* What the server answers to a call, and what it knows then.
LEMMA ServeFacts ==
  ASSUME TypeOK, Serve
  PROVE  \E c \in calls, o \in Outcome :
           /\ c \in Call /\ calls' = calls \ {c}
           /\ UNCHANGED <<toGo, waiting, status, longPin, unsure, crossed>>
           /\ o = "success" => serverPin' = c.pin
           /\ serverPin' = serverPin \/ OfNewPin(AnswerTo(c, o))
           /\ \/ enrolled' = enrolled /\ toApp' = Append(toApp, AnswerTo(c, o))
              \/ /\ enrolled' = TRUE /\ OfNewPin(AnswerTo(c, o))
                 /\ toApp' = Append(Append(toApp, Status(TRUE)), AnswerTo(c, o))
<1>1. PICK c \in calls : calls' = calls \ {c} /\ (Enrolled(c) \/ Verified(c) \/ Changed(c))
  BY DEF Serve, ServerAnswers
<1>2. c \in Call /\ toApp \in Seq(Event)
  BY <1>1 DEF TypeOK, KeyshareTypeOK
<1>3. UNCHANGED <<toGo, waiting, status, longPin, unsure, crossed>>
  BY Zenon DEF Serve, ServerAnswers, appVars
<1> DEFINE Facts(o) ==
      /\ o = "success" => serverPin' = c.pin
      /\ serverPin' = serverPin \/ OfNewPin(AnswerTo(c, o))
      /\ \/ enrolled' = enrolled /\ toApp' = Append(toApp, AnswerTo(c, o))
         \/ /\ enrolled' = TRUE /\ OfNewPin(AnswerTo(c, o))
            /\ toApp' = Append(Append(toApp, Status(TRUE)), AnswerTo(c, o))
<1>4. ASSUME NEW o \in Outcome, Dispatch(<<AnswerTo(c, o)>>)
      PROVE  toApp' = Append(toApp, AnswerTo(c, o))
  BY <1>2, <1>4, AnswerType, DispatchOne
<1>5. \A o \in Outcome : AnswerTo(c, o).kind = c.kind /\ AnswerTo(c, o).outcome = o
  BY DEF AnswerTo
<1>6. ASSUME Enrolled(c) PROVE \E o \in Outcome : Facts(o)
  <2>1. CASE /\ enrolled' = TRUE /\ serverPin' = c.pin
             /\ EnrollmentSuccess(c)
    <3> DEFINE a == AnswerTo(c, "success")
               s == Status(TRUE)
    <3>1. a \in Event /\ s \in Event
      BY <1>2, AnswerType, StatusType DEF Outcome
    <3>2. toApp' = toApp \o <<s, a>>
      BY <2>1 DEF EnrollmentSuccess, Dispatch
    <3>3. OfNewPin(a)
      BY <1>5, <1>6 DEF OfNewPin, Outcome, Enrolled
    <3> HIDE DEF a, s
    <3>4. toApp' = Append(Append(toApp, s), a)
      BY <1>2, <3>1, <3>2
    <3>5. Facts("success")
      BY <2>1, <3>3, <3>4 DEF a, s
    <3> QED
      BY <3>5 DEF Outcome
  <2>2. CASE EnrollmentFailure(c) /\ UNCHANGED <<enrolled, serverPin>>
    <3>1. Facts("error")
      BY <1>4, <2>2 DEF EnrollmentFailure, Outcome
    <3> QED
      BY <3>1 DEF Outcome
  <2> QED
    BY <1>6, <2>1, <2>2 DEF Enrolled
<1>7. ASSUME Verified(c) PROVE \E o \in Outcome : Facts(o)
  <2>1. CASE Accepts(c.pin) /\ Dispatch(<<AnswerTo(c, "success")>>)
    <3>1. Facts("success")
      BY <1>4, <1>7, <2>1 DEF Verified, Accepts, Outcome
    <3> QED
      BY <3>1 DEF Outcome
  <2>2. ASSUME NEW r \in Refusals(c), Dispatch(<<AnswerTo(c, r)>>)
        PROVE  \E o \in Outcome : Facts(o)
    <3>1. r \in Outcome /\ r # "success"
      BY DEF Refusals, Outcome
    <3>2. Facts(r)
      BY <1>4, <1>7, <2>2, <3>1 DEF Verified
    <3> QED
      BY <3>1, <3>2
  <2> QED
    BY <1>7, <2>1, <2>2 DEF Verified
<1>8. ASSUME Changed(c) PROVE \E o \in Outcome : Facts(o)
  <2>0. c.kind = "change" /\ enrolled' = enrolled
    BY <1>8 DEF Changed
  <2>1. CASE serverPin' = c.pin /\ (ChangePinSuccess(c) \/ ChangePinFailure(c))
    <3>1. OfNewPin(AnswerTo(c, "success")) /\ OfNewPin(AnswerTo(c, "error"))
      BY <1>5, <2>0 DEF OfNewPin, Outcome
    <3>2. Facts("success") \/ Facts("error")
      BY <1>4, <2>0, <2>1, <3>1 DEF ChangePinSuccess, ChangePinFailure, Outcome
    <3> QED
      BY <3>2 DEF Outcome
  <2>2. CASE /\ ChangePinFailure(c) \/ ChangePinIncorrect(c) \/ ChangePinBlocked(c)
             /\ UNCHANGED serverPin
    <3>1. Facts("error") \/ Facts("failed") \/ Facts("blocked")
      BY <1>4, <2>0, <2>2 DEF ChangePinFailure, ChangePinIncorrect, ChangePinBlocked, Outcome
    <3> QED
      BY <3>1 DEF Outcome
  <2> QED
    BY <1>8, <2>1, <2>2 DEF Changed
<1>9. \E o \in Outcome : Facts(o)
  BY <1>1, <1>6, <1>7, <1>8
<1> QED
  BY <1>1, <1>2, <1>3, <1>9

\* A call that is handled goes on to the server, or is answered, or dropped.
LEMMA SingleHandle ==
  ASSUME TypeOK, Single, Handle
  PROVE  Single'
<1>0. PICK c : c = Head(toGo)
  OBVIOUS
<1>1. /\ toGo \in Seq(Call \cup {ClearAll}) /\ toGo # <<>> /\ toGo' = Tail(toGo)
      /\ waiting' = waiting /\ toApp \in Seq(Event)
  BY HandleFacts DEF TypeOK, KeyshareTypeOK
<1>2. /\ 1 \in DOMAIN toGo /\ toGo[1] = c
      /\ \A i \in DOMAIN toGo' : i \in Nat /\ i # 0 /\ i + 1 \in DOMAIN toGo
                                 /\ toGo'[i] = toGo[i + 1]
  BY <1>0, <1>1, InTail
<1>3. \A i \in DOMAIN toGo' : i + 1 # 1
  BY <1>2
<1>4. OneWaiter'
  BY <1>1 DEF Single, OneWaiter
<1>5. \A x : Awaited(x) => Awaited(x)'
  BY <1>1 DEF Awaited
<1>6. /\ \A i \in DOMAIN toGo' : IsRequest(toGo'[i]) => Awaited(toGo'[i])
      /\ IsRequest(c) => Awaited(c)
      /\ IsRequest(c) => \A i \in DOMAIN toGo' : ~IsRequest(toGo'[i])
      /\ IsRequest(c) => calls = {} /\ \A i \in DOMAIN toApp : ~IsAnswer(toApp[i])
      /\ \A i, j \in DOMAIN toGo' : IsRequest(toGo'[i]) /\ IsRequest(toGo'[j]) => i = j
  BY <1>2, <1>3 DEF Single, AllAwaited, OnePlace
<1>7. CASE c \in Call /\ UNCHANGED toApp /\ calls' = calls \cup {c}
  <2>1. IsRequest(c)
    BY <1>7 DEF Call, Kind, IsRequest
  <2>2. AllAwaited'
    BY <1>5, <1>6, <1>7, <2>1 DEF Single, AllAwaited
  <2>3. OnePlace'
    BY <1>6, <1>7, <2>1 DEF OnePlace
  <2> QED
    BY <1>4, <2>2, <2>3 DEF Single
<1>8. CASE c \in Call /\ UNCHANGED calls /\ toApp' = Append(toApp, AnswerTo(c, "error"))
  <2> DEFINE a == AnswerTo(c, "error")
  <2>1. IsRequest(c) /\ a \in Event /\ a.kind = c.kind /\ a.req = c.req
    BY <1>8, AnswerFacts DEF Outcome
  <2>2. toApp' = Append(toApp, a)
    BY <1>8
  <2> HIDE DEF a
  <2>3. \A i \in DOMAIN toApp' :
          \/ i = Len(toApp) + 1 /\ toApp'[i] = a
          \/ i \in DOMAIN toApp /\ toApp'[i] = toApp[i]
    BY <1>1, <2>1, <2>2, InAppend
  <2>4. Awaited(a)'
    BY <1>5, <1>6, <2>1 DEF Awaited
  <2>5. calls' = {} /\ \A i \in DOMAIN toApp' : IsAnswer(toApp'[i]) => i = Len(toApp) + 1 /\ toApp'[i] = a
    BY <1>6, <1>8, <2>1, <2>3
  <2>6. AllAwaited'
    BY <1>5, <1>6, <2>4, <2>5, Zenon DEF AllAwaited
  <2>7. OnePlace'
    BY <1>6, <2>1, <2>5 DEF OnePlace
  <2> QED
    BY <1>4, <2>6, <2>7 DEF Single
<1>9. CASE UNCHANGED <<calls, toApp>>
  <2>1. AllAwaited'
    BY <1>5, <1>6, <1>9 DEF Single, AllAwaited
  <2>2. OnePlace'
    BY <1>2, <1>6, <1>9 DEF Single, OnePlace
  <2> QED
    BY <1>4, <2>1, <2>2 DEF Single
<1>10. CASE UNCHANGED calls /\ toApp' = Append(toApp, Status(FALSE))
  <2> DEFINE a == Status(FALSE)
  <2>1. a \in Event /\ ~IsAnswer(a)
    BY StatusType DEF Status, IsAnswer, Kind
  <2>2. toApp' = Append(toApp, a)
    BY <1>10
  <2> HIDE DEF a
  <2>3. \A i \in DOMAIN toApp' :
          toApp'[i] = a \/ (i \in DOMAIN toApp /\ toApp'[i] = toApp[i])
    BY <1>1, <2>1, <2>2, InAppend
  <2>4. \A i \in DOMAIN toApp' : IsAnswer(toApp'[i]) => i \in DOMAIN toApp /\ toApp'[i] = toApp[i]
    BY <2>1, <2>3
  <2>5. AllAwaited'
    BY <1>5, <1>6, <1>10, <2>4 DEF Single, AllAwaited
  <2>6. OnePlace'
    BY <1>2, <1>6, <1>10, <2>4 DEF Single, OnePlace
  <2> QED
    BY <1>4, <2>5, <2>6 DEF Single
<1> QED
  BY <1>0, <1>7, <1>8, <1>9, <1>10, HandleFacts

\* A call the server is done with becomes an answer.
LEMMA SingleServe ==
  ASSUME TypeOK, Single, Serve
  PROVE  Single'
<1>1. PICK c \in calls, o \in Outcome :
        /\ c \in Call /\ calls' = calls \ {c} /\ UNCHANGED <<toGo, waiting>>
        /\ \/ toApp' = Append(toApp, AnswerTo(c, o))
           \/ toApp' = Append(Append(toApp, Status(TRUE)), AnswerTo(c, o))
  BY ServeFacts
<1> DEFINE a == AnswerTo(c, o)
           s == Status(TRUE)
<1>2. a \in Event /\ a.kind = c.kind /\ a.req = c.req /\ s \in Event /\ ~IsAnswer(s)
  BY <1>1, AnswerFacts, StatusType DEF Status, IsAnswer, Kind
<1>3. toApp \in Seq(Event)
  BY DEF TypeOK, KeyshareTypeOK
<1> HIDE DEF a, s
<1>4. PICK t \in Seq(Event) :
        /\ toApp' = Append(t, a)
        /\ \A i \in DOMAIN t : t[i] = s \/ (i \in DOMAIN toApp /\ t[i] = toApp[i])
  <2>1. CASE toApp' = Append(toApp, a)
    BY <1>3, <2>1
  <2>2. CASE toApp' = Append(Append(toApp, s), a)
    <3>1. /\ Append(toApp, s) \in Seq(Event)
          /\ \A i \in DOMAIN Append(toApp, s) :
               Append(toApp, s)[i] = s \/ (i \in DOMAIN toApp /\ Append(toApp, s)[i] = toApp[i])
      BY <1>2, <1>3, InAppend
    <3> QED
      BY <2>2, <3>1
  <2> QED
    BY <1>1, <2>1, <2>2 DEF a, s
<1>5. \A i \in DOMAIN toApp' :
        (i = Len(t) + 1 /\ toApp'[i] = a) \/ (i \in DOMAIN t /\ toApp'[i] = t[i])
  BY <1>2, <1>4, InAppend
<1>6. /\ calls' = {} /\ Awaited(c)
      /\ \A i \in DOMAIN toApp : ~IsAnswer(toApp[i])
      /\ \A i \in DOMAIN toGo' : ~IsRequest(toGo'[i])
  BY <1>1 DEF Single, AllAwaited, OnePlace
<1>7. \A i \in DOMAIN toApp' : IsAnswer(toApp'[i]) => i = Len(t) + 1 /\ toApp'[i] = a
  BY <1>2, <1>4, <1>5, <1>6
<1>8. Awaited(a)' /\ OneWaiter'
  BY <1>1, <1>2, <1>6 DEF Awaited, Single, OneWaiter
<1>9. AllAwaited'
  BY <1>6, <1>7, <1>8, Zenon DEF AllAwaited
<1>10. OnePlace'
  BY <1>6, <1>7 DEF OnePlace
<1> QED
  BY <1>8, <1>9, <1>10 DEF Single

\* Who takes the only answer was the only one to wait.
LEMMA SingleAnswer ==
  ASSUME TypeOK, Single, ReceiveAnswer
  PROVE  Single'
<1> DEFINE m == Head(toApp)
<1>1. /\ toApp \in Seq(Event) /\ toApp # <<>> /\ toApp' = Tail(toApp) /\ IsAnswer(m)
      /\ waiting' = [waiting EXCEPT ![m.kind] = <<>>]
      /\ waiting \in [Kind -> Seq(Waiter)] /\ m.kind \in Kind
      /\ UNCHANGED <<calls, toGo>>
  BY DEF TypeOK, KeyshareTypeOK, ReceiveAnswer, Tell, IsAnswer
<1>2. /\ 1 \in DOMAIN toApp /\ toApp[1] = m
      /\ \A i \in DOMAIN toApp' : i \in Nat /\ i # 0 /\ i + 1 \in DOMAIN toApp
                                  /\ toApp'[i] = toApp[i + 1]
  BY <1>1, InTail
<1>3. \A i \in DOMAIN toApp' : i + 1 # 1
  BY <1>2
<1>4. /\ calls' = {} /\ \A i \in DOMAIN toGo' : ~IsRequest(toGo'[i])
      /\ \A i \in DOMAIN toApp' : ~IsAnswer(toApp'[i])
  BY <1>1, <1>2, <1>3 DEF Single, OnePlace
<1>5. \A k \in Kind : k = m.kind \/ waiting[k] = waiting'[k]
  BY <1>1
<1>6. waiting'[m.kind] = <<>>
  BY <1>1
<1>7. Awaited(m)
  BY <1>1, <1>2 DEF Single, AllAwaited
<1>8. \A k \in Kind : DOMAIN waiting'[k] = {}
  BY <1>1, <1>5, <1>6, <1>7 DEF Awaited, Single, OneWaiter
<1> QED
  BY <1>4, <1>8 DEF Single, OneWaiter, AllAwaited, OnePlace

\* Steps that do not touch requests or answers.
LEMMA SingleSame ==
  ASSUME TypeOK, Single, SameWaiters, UNCHANGED <<calls, toApp>>,
         \A i \in DOMAIN toGo' : IsRequest(toGo'[i]) => i \in DOMAIN toGo /\ toGo'[i] = toGo[i]
  PROVE  Single'
<1>1. OneWaiter'
  BY DEF Single, OneWaiter, SameWaiters
<1>2. \A x : x.kind \in Kind /\ Awaited(x) => Awaited(x)'
  BY DEF Awaited, SameWaiters
<1>3. AllAwaited'
  BY <1>2, RequestKind DEF Single, AllAwaited, IsAnswer
<1>4. OnePlace'
  BY DEF Single, OnePlace
<1> QED
  BY <1>1, <1>3, <1>4 DEF Single

LEMMA SingleStatus ==
  ASSUME TypeOK, Single, ReceiveStatus
  PROVE  Single'
<1>1. /\ toApp \in Seq(Event) /\ toApp # <<>> /\ toApp' = Tail(toApp)
      /\ UNCHANGED <<calls, toGo>>
  BY DEF ReceiveStatus, TypeOK, KeyshareTypeOK
<1>2. SameWaiters
  BY LeftBySame DEF ReceiveStatus, SameWaiters
<1>3. \A i \in DOMAIN toApp' :
        i \in Nat /\ i + 1 \in DOMAIN toApp /\ toApp'[i] = toApp[i + 1]
  BY <1>1, InTail
<1>4. \A i, j \in DOMAIN toApp' : i + 1 = j + 1 => i = j
  BY <1>3
<1>5. OneWaiter'
  BY <1>2 DEF Single, OneWaiter, SameWaiters
<1>6. \A x : x.kind \in Kind /\ Awaited(x) => Awaited(x)'
  BY <1>2 DEF Awaited, SameWaiters
<1>7. AllAwaited'
  BY <1>1, <1>3, <1>6, RequestKind DEF Single, AllAwaited, IsAnswer
<1>8. OnePlace'
  BY <1>1, <1>3, <1>4 DEF Single, OnePlace
<1> QED
  BY <1>5, <1>7, <1>8 DEF Single

\* A fatal error leaves the requests as they are.
LEMMA SingleFatal ==
  ASSUME TypeOK, Single, ReceiveFatal
  PROVE  Single'
<1>1. /\ toApp \in Seq(Event) /\ toApp # <<>> /\ toApp' = Tail(toApp)
      /\ UNCHANGED <<calls, toGo, waiting>>
  BY DEF ReceiveFatal, FatalError, TypeOK, KeyshareTypeOK
<1>2. \A i \in DOMAIN toApp' :
        i \in Nat /\ i + 1 \in DOMAIN toApp /\ toApp'[i] = toApp[i + 1]
  BY <1>1, InTail
<1>3. \A i, j \in DOMAIN toApp' : i + 1 = j + 1 => i = j
  BY <1>2
<1>4. OneWaiter' /\ \A x : Awaited(x) => Awaited(x)'
  BY <1>1 DEF Single, OneWaiter, Awaited
<1>5. AllAwaited'
  BY <1>1, <1>2, <1>4, RequestKind DEF Single, AllAwaited, IsAnswer
<1>6. OnePlace'
  BY <1>1, <1>2, <1>3 DEF Single, OnePlace
<1> QED
  BY <1>4, <1>5, <1>6 DEF Single

\* After a start nothing is under way but the welcome.
LEMMA IdleRestart ==
  ASSUME Restart, enrolled' \in BOOLEAN
  PROVE  Idle'
<1>1. /\ toApp' \in Welcome(enrolled') /\ calls' = {} /\ toGo' = <<>>
      /\ waiting' = [k \in Kind |-> <<>>]
  BY DEF Restart, Crash
<1>2. \A i \in DOMAIN toApp' : ~IsAnswer(toApp'[i])
  BY <1>1, WelcomeFacts DEF IsAnswer, Kind
<1> QED
  BY <1>1, <1>2 DEF Idle

\* What asks.
Asks ==
  \E kind \in Kind, old, pin \in Pin,
     by \in {"enrollment", "pin", "modal_pin", "enter_pin", "choose_pin", "gone"} :
    Ask(kind, old, pin, by)

LEMMA WhoAsks ==
  ASSUME TypeOK,
         Enroll \/ SubmitPin("pin") \/ SubmitPin("modal_pin") \/ ChangePin \/ VerifyOldPin
  PROVE  Asks /\ UNCHANGED <<longPin, status>>
<1>1. CASE Enroll
  BY <1>1 DEF Enroll, Asks, Kind
<1>2. ASSUME NEW s \in {"pin", "modal_pin"}, SubmitPin(s)
      PROVE  Asks /\ UNCHANGED <<longPin, status>>
  BY <1>2 DEF SubmitPin, Asks, Kind
<1>3. CASE ChangePin
  BY <1>3 DEF ChangePin, Asks, Kind, TypeOK
<1>4. CASE VerifyOldPin
  <2>1. Head(submitted) \in Pin
    BY <1>4 DEF VerifyOldPin, TypeOK
  <2> QED
    BY <1>4, <2>1 DEF VerifyOldPin, Asks, Kind
<1> QED
  BY <1>1, <1>2, <1>3, <1>4

\* The steps of the user that ask for nothing, and the time.
Moves ==
  \/ SubmitOldPin \/ OpenModalPin \/ CloseModalPin \/ OpenChangePin \/ LeaveChangePin
  \/ Lock \/ TimeOut \/ UNCHANGED vars

LEMMA MovesKeep ==
  ASSUME TypeOK, Moves
  PROVE  SameWaiters /\ UNCHANGED <<keyshareVars, crossed, unsure, longPin, status>>
<1>1. UNCHANGED <<keyshareVars, crossed, unsure, longPin, status>>
  BY Zenon DEF Moves, SubmitOldPin, OpenModalPin, CloseModalPin, OpenChangePin, LeaveChangePin,
            Lock, TimeOut, FatalError, GoTo, vars, keyshareVars, appVars, history
<1>2. waiting' = waiting \/ waiting' = LeftBy({"modal_pin"})
  BY Zenon DEF Moves, SubmitOldPin, OpenModalPin, CloseModalPin, OpenChangePin, LeaveChangePin,
            Lock, TimeOut, FatalError, vars, appVars
<1> QED
  BY <1>1, <1>2, LeftBySame DEF SameWaiters

\* ClearAllData appends a call that is no request.
LEMMA ClearFacts ==
  ASSUME TypeOK, ClearAllData
  PROVE  /\ UNCHANGED <<enrolled, serverPin, calls, toApp, waiting, status, crossed>>
         /\ longPin' /\ (unsure => unsure')
         /\ \A i \in DOMAIN toGo' :
              IsRequest(toGo'[i]) => i \in DOMAIN toGo /\ toGo'[i] = toGo[i]
<1>1. /\ UNCHANGED <<enrolled, serverPin, calls, toApp, waiting, status, crossed>>
      /\ longPin' /\ (unsure => unsure')
      /\ toGo' = Append(toGo, ClearAll) /\ toGo \in Seq(Call \cup {ClearAll})
  BY DEF ClearAllData, TypeOK, KeyshareTypeOK
<1>2. ~IsRequest(ClearAll) /\ ClearAll \in Call \cup {ClearAll}
  BY DEF IsRequest, ClearAll
<1> QED
  BY <1>1, <1>2, InAppend

\* One request stays the only one, until somebody asks while it is under way.
LEMMA SingleStep ==
  ASSUME TypeOK, Single, [Next]_vars
  PROVE  Single' \/ (crossed' /\ unsure')
<1>1. CASE Moves
  BY <1>1, MovesKeep, SingleSame DEF keyshareVars
<1>2. CASE ClearAllData
  BY <1>2, ClearFacts, SingleSame DEF SameWaiters
<1>3. CASE Enroll \/ SubmitPin("pin") \/ SubmitPin("modal_pin") \/ ChangePin \/ VerifyOldPin
  <2>1. PICK kind \in Kind, old \in Pin, pin \in Pin,
             by \in {"enrollment", "pin", "modal_pin", "enter_pin", "choose_pin", "gone"} :
          Ask(kind, old, pin, by)
    BY <1>3, WhoAsks DEF Asks
  <2>2. CASE Waiters = {}
    BY <2>1, <2>2, NoWaiters, SingleAsk
  <2>3. CASE Waiters # {}
    <3>1. Outstanding # {}
      BY <2>3 DEF Outstanding
    <3> QED
      BY <2>1, <2>3, <3>1 DEF Ask
  <2> QED
    BY <2>2, <2>3
<1>4. CASE Handle
  BY <1>4, SingleHandle
<1>5. CASE Serve
  BY <1>5, SingleServe
<1>6. CASE ReceiveAnswer
  BY <1>6, SingleAnswer
<1>7. CASE ReceiveStatus
  BY <1>7, SingleStatus
<1>8. CASE Restart
  <2>1. Idle'
    BY <1>8, IdleRestart, TypeStep DEF TypeOK, KeyshareTypeOK
  <2> QED
    BY <2>1 DEF Idle, Single, OneWaiter, AllAwaited, OnePlace
<1>9. CASE ReceiveFatal
  BY <1>9, SingleFatal
<1> QED
  BY <1>1, <1>2, <1>3, <1>4, <1>5, <1>6, <1>7, <1>8, <1>9 DEF Next, User, Moves

LEMMA OwnStep == OwnInv /\ [Next]_vars => OwnInv'
<1> SUFFICES ASSUME OwnInv, [Next]_vars PROVE OwnInv'
  OBVIOUS
<1>1. TypeOK /\ TypeOK'
  BY TypeStep DEF OwnInv
<1>2. CASE ~crossed
  BY <1>1, <1>2, SingleStep DEF OwnInv
<1>3. CASE crossed
  <2>1. CASE ReceiveAnswer
    <3>1. ~crossed' => Outstanding' = {}
      BY <1>3, <2>1 DEF ReceiveAnswer
    <3> QED
      BY <1>1, <3>1, NoneOutstandingNext DEF OwnInv
  <2>2. CASE Restart
    <3>1. Idle'
      BY <1>1, <2>2, IdleRestart DEF TypeOK, KeyshareTypeOK
    <3>2. Single'
      BY <3>1 DEF Idle, Single, OneWaiter, AllAwaited, OnePlace
    <3> QED
      BY <1>1, <3>2 DEF OwnInv
  <2>3. CASE Moves
    BY <1>1, <1>3, <2>3, MovesKeep DEF OwnInv
  <2>4. CASE ClearAllData
    BY <1>1, <1>3, <2>4, ClearFacts DEF OwnInv
  <2>5. CASE Enroll \/ SubmitPin("pin") \/ SubmitPin("modal_pin") \/ ChangePin \/ VerifyOldPin
    BY <1>1, <1>3, <2>5, WhoAsks DEF OwnInv, Asks, Ask
  <2>6. CASE Handle \/ Serve
    BY <1>1, <1>3, <2>6, HandleFacts, ServeFacts DEF OwnInv
  <2>7. CASE ReceiveStatus
    BY <1>1, <1>3, <2>7 DEF OwnInv, ReceiveStatus, history
  <2>8. CASE ReceiveFatal
    BY <1>1, <1>3, <2>8 DEF OwnInv, ReceiveFatal, FatalError
  <2> QED
    BY <2>1, <2>2, <2>3, <2>4, <2>5, <2>6, <2>7, <2>8 DEF Next, User, Moves
<1> QED
  BY <1>2, <1>3

LEMMA OwnInit == Init => OwnInv
<1> SUFFICES ASSUME Init PROVE OwnInv
  OBVIOUS
<1>1. /\ toApp \in Welcome(enrolled) /\ enrolled \in BOOLEAN /\ calls = {} /\ toGo = <<>>
      /\ waiting = [k \in Kind |-> <<>>]
  BY Zenon DEF Init
<1>2. \A i \in DOMAIN toApp : ~IsAnswer(toApp[i])
  BY <1>1, WelcomeFacts DEF IsAnswer, Kind
<1>3. Idle
  BY <1>1, <1>2 DEF Idle
<1> QED
  BY <1>3, IdleIsSingle, InitType DEF OwnInv

\* Answers carry no address, and still reach who asked: as long as nobody asks
\* while somebody else waits, whoever takes an answer had asked for it.
THEOREM AnswersTheorem == Spec => []AnswersAreOwn
<1>1. Init => OwnInv
  BY OwnInit
<1>2. OwnInv /\ [Next]_vars => OwnInv'
  BY OwnStep
<1>3. OwnInv => AnswersAreOwn
  <2> SUFFICES ASSUME OwnInv, toApp # <<>>, IsAnswer(Head(toApp)), ~crossed,
                      NEW w \in InSeq(waiting[Head(toApp).kind])
               PROVE  w.req = Head(toApp).req
    BY DEF AnswersAreOwn
  <2>1. 1 \in DOMAIN toApp /\ toApp[1] = Head(toApp) /\ Head(toApp).kind \in Kind
    BY InTail DEF OwnInv, TypeOK, KeyshareTypeOK, IsAnswer
  <2>2. Awaited(Head(toApp)) /\ OneWaiter
    BY <2>1 DEF OwnInv, Single, AllAwaited
  <2> QED
    BY <2>1, <2>2 DEF Awaited, OneWaiter, InSeq
<1> QED
  BY <1>1, <1>2, <1>3, PTL DEF Spec
-----------------------------------------------------------------------------
(* The length of the PIN. *)

\* Requests that are outstanding have numbers of their own.
Distinct ==
  /\ \A c, d \in calls : c.req = d.req => c = d
  /\ \A i, j \in DOMAIN toGo :
       IsRequest(toGo[i]) /\ IsRequest(toGo[j]) /\ toGo[i].req = toGo[j].req => i = j
  /\ \A c \in calls, i \in DOMAIN toGo : IsRequest(toGo[i]) => toGo[i].req # c.req
  /\ \A c \in calls, i \in DOMAIN toApp : IsAnswer(toApp[i]) => toApp[i].req # c.req
  /\ \A i \in DOMAIN toGo, j \in DOMAIN toApp :
       IsRequest(toGo[i]) /\ IsAnswer(toApp[j]) => toGo[i].req # toApp[j].req

\* Who waits for an answer under this number asked with this PIN.
AskedWith(kind, req, pin) ==
  \A k \in Kind : \A i \in DOMAIN waiting[k] :
    waiting[k][i].req = req => k = kind /\ waiting[k][i].pin = pin

Asked ==
  /\ \A c \in calls : AskedWith(c.kind, c.req, c.pin)
  /\ \A i \in DOMAIN toGo :
       IsRequest(toGo[i]) => AskedWith(toGo[i].kind, toGo[i].req, toGo[i].pin)

\* A success that no other answer follows was for the PIN the server has now.
LastSuccess ==
  \A i \in DOMAIN toApp :
    /\ IsAnswer(toApp[i]) /\ toApp[i].outcome = "success"
    /\ \A j \in DOMAIN toApp : j > i => ~IsAnswer(toApp[j])
    => AskedWith(toApp[i].kind, toApp[i].req, serverPin)

\* The last status under way is that of the scheme, or the app has not heard of an
\* account there is not.
IsStatus(m) == m.kind = "status"

Known ==
  /\ \A i \in DOMAIN toApp :
       IsStatus(toApp[i]) /\ (\A j \in DOMAIN toApp : j > i => ~IsStatus(toApp[j])) =>
         toApp[i].enrolled = enrolled
  /\ (\A i \in DOMAIN toApp : ~IsStatus(toApp[i])) /\ enrolled = FALSE => status # "enrolled"

\* News of the PIN is under way.
Telling == \E i \in DOMAIN toApp : OfNewPin(toApp[i])

\* A status from before the account is followed by news of its PIN.
Founded ==
  \A i \in DOMAIN toApp : toApp[i] = Status(FALSE) /\ enrolled =>
    \E j \in DOMAIN toApp : j > i /\ OfNewPin(toApp[j])

Fits == IsLong(serverPin) => longPin

\* The app knows the length of the PIN, or will be told, if there is one.
Aware == Fits \/ Telling \/ ~enrolled

\* Unless it is not sure, an app has one request under way at most, and knows the
\* length of the PIN, or the news of the PIN is under way.
FitInv ==
  /\ TypeOK /\ Distinct /\ Asked /\ LastSuccess /\ Known /\ Founded
  /\ ~unsure => Single /\ Aware

\* Fewer requests are awaited than before.
FewerWaiters ==
  \A k \in Kind : \A i \in DOMAIN waiting'[k] :
    /\ i \in DOMAIN waiting[k]
    /\ waiting'[k][i].req = waiting[k][i].req /\ waiting'[k][i].pin = waiting[k][i].pin

LEMMA AskedWithStays ==
  ASSUME FewerWaiters, NEW kind, NEW req, NEW pin, AskedWith(kind, req, pin)
  PROVE  AskedWith(kind, req, pin)'
BY DEF FewerWaiters, AskedWith

LEMMA AskedWithUnchanged ==
  ASSUME UNCHANGED waiting, NEW kind, NEW req, NEW pin, AskedWith(kind, req, pin)
  PROVE  AskedWith(kind, req, pin)'
BY DEF AskedWith

\* What the server answers, and where the answer is then.
Served(c, a, n) ==
  /\ c \in Call /\ a \in Event /\ a.kind = c.kind /\ a.req = c.req /\ IsAnswer(a)
  /\ calls' = calls \ {c} /\ UNCHANGED <<toGo, waiting, status, longPin, unsure, crossed>>
  /\ a.outcome = "success" => serverPin' = c.pin
  /\ serverPin' = serverPin \/ OfNewPin(a)
  /\ n \in DOMAIN toApp' /\ toApp'[n] = a
  /\ \A i \in DOMAIN toApp : i \in DOMAIN toApp' /\ toApp'[i] = toApp[i] /\ n > i
  /\ \A i \in DOMAIN toApp' :
       i = n \/ (n > i /\ (i \in DOMAIN toApp \/ toApp'[i] = Status(TRUE)))
  /\ \/ enrolled' = enrolled /\ \A i \in DOMAIN toApp' : i = n \/ i \in DOMAIN toApp
     \/ /\ enrolled' = TRUE /\ OfNewPin(a)
        /\ \E d \in DOMAIN toApp' :
             toApp'[d] = Status(TRUE) /\ \A i \in DOMAIN toApp : d > i

LEMMA ServedFacts ==
  ASSUME TypeOK, Serve
  PROVE  \E c \in calls : \E a, n : Served(c, a, n)
<1>1. PICK c \in calls, o \in Outcome :
         /\ c \in Call /\ calls' = calls \ {c}
         /\ UNCHANGED <<toGo, waiting, status, longPin, unsure, crossed>>
         /\ o = "success" => serverPin' = c.pin
         /\ serverPin' = serverPin \/ OfNewPin(AnswerTo(c, o))
         /\ \/ enrolled' = enrolled /\ toApp' = Append(toApp, AnswerTo(c, o))
            \/ /\ enrolled' = TRUE /\ OfNewPin(AnswerTo(c, o))
               /\ toApp' = Append(Append(toApp, Status(TRUE)), AnswerTo(c, o))
  BY ServeFacts
<1> DEFINE a == AnswerTo(c, o)
           s == Status(TRUE)
<1>2. a \in Event /\ a.kind = c.kind /\ a.req = c.req /\ IsAnswer(a) /\ a.outcome = o /\ s \in Event
  BY <1>1, AnswerFacts, StatusType
<1>3. toApp \in Seq(Event)
  BY DEF TypeOK, KeyshareTypeOK
<1>4. /\ \/ enrolled' = enrolled /\ toApp' = Append(toApp, a)
         \/ enrolled' = TRUE /\ OfNewPin(a) /\ toApp' = Append(Append(toApp, s), a)
      /\ serverPin' = serverPin \/ OfNewPin(a)
  BY <1>1
<1> HIDE DEF a, s
<1>5. CASE enrolled' = enrolled /\ toApp' = Append(toApp, a)
  <2> DEFINE n == Len(toApp) + 1
  <2>1. /\ n \in DOMAIN toApp' /\ toApp'[n] = a
        /\ \A i \in DOMAIN toApp : i \in DOMAIN toApp' /\ toApp'[i] = toApp[i] /\ n > i
        /\ \A i \in DOMAIN toApp' : i = n \/ (n > i /\ i \in DOMAIN toApp)
    BY <1>2, <1>3, <1>5, InAppend
  <2> HIDE DEF n
  <2>2. Served(c, a, n)
    BY <1>1, <1>2, <1>4, <1>5, <2>1 DEF Served
  <2> QED
    BY <2>2
<1>6. CASE enrolled' = TRUE /\ OfNewPin(a) /\ toApp' = Append(Append(toApp, s), a)
  <2> DEFINE t == Append(toApp, s)
             d == Len(toApp) + 1
             n == Len(t) + 1
  <2>1. /\ t \in Seq(Event) /\ d \in DOMAIN t /\ t[d] = s
        /\ \A i \in DOMAIN toApp : i \in DOMAIN t /\ t[i] = toApp[i] /\ d > i
        /\ \A i \in DOMAIN t : i = d \/ i \in DOMAIN toApp
    BY <1>2, <1>3, InAppend
  <2>2. toApp' = Append(t, a)
    BY <1>6
  <2> HIDE DEF t, d
  <2>3. /\ n \in DOMAIN toApp' /\ toApp'[n] = a
        /\ \A i \in DOMAIN t : i \in DOMAIN toApp' /\ toApp'[i] = t[i] /\ n > i
        /\ \A i \in DOMAIN toApp' : i = n \/ (n > i /\ i \in DOMAIN t)
    BY <1>2, <2>1, <2>2, InAppend
  <2> HIDE DEF n
  <2>4. /\ \A i \in DOMAIN toApp : i \in DOMAIN toApp' /\ toApp'[i] = toApp[i] /\ n > i
        /\ \A i \in DOMAIN toApp' : i = n \/ (n > i /\ (i \in DOMAIN toApp \/ toApp'[i] = s))
        /\ d \in DOMAIN toApp' /\ toApp'[d] = s
    BY <2>1, <2>3
  <2>5. Served(c, a, n)
    BY <1>1, <1>2, <1>4, <1>6, <2>1, <2>3, <2>4 DEF Served, s
  <2> QED
    BY <2>5
<1> QED
  BY <1>4, <1>5, <1>6

\* What is left of a channel whose head was taken.
LEMMA Taken ==
  ASSUME TypeOK, toApp # <<>>, toApp' = Tail(toApp)
  PROVE  /\ 1 \in DOMAIN toApp /\ toApp[1] = Head(toApp) /\ Head(toApp) \in Event
         /\ \A i \in DOMAIN toApp' :
              i \in Nat /\ i + 1 \in DOMAIN toApp /\ toApp'[i] = toApp[i + 1] /\ i + 1 > 1
         /\ \A i \in DOMAIN toApp :
              i = 1 \/ (i \in Nat /\ i - 1 \in DOMAIN toApp' /\ toApp'[i - 1] = toApp[i])
<1>1. toApp \in Seq(Event)
  BY DEF TypeOK, KeyshareTypeOK
<1>2. /\ 1 \in DOMAIN toApp /\ toApp[1] = Head(toApp) /\ Head(toApp) \in Event
      /\ \A i \in DOMAIN toApp' :
           i \in Nat /\ i # 0 /\ i + 1 \in DOMAIN toApp /\ toApp'[i] = toApp[i + 1]
      /\ \A i \in DOMAIN toApp : i = 1 \/ (i \in Nat /\ i - 1 \in DOMAIN toApp')
  BY <1>1, InTail
<1>3. ASSUME NEW i \in DOMAIN toApp, i # 1
      PROVE  i \in Nat /\ i - 1 \in DOMAIN toApp' /\ toApp'[i - 1] = toApp[i]
  <2>1. i \in Nat /\ i - 1 \in DOMAIN toApp'
    BY <1>2, <1>3
  <2>2. toApp'[i - 1] = toApp[(i - 1) + 1] /\ (i - 1) + 1 = i
    BY <1>2, <2>1
  <2> QED
    BY <2>1, <2>2
<1>4. \A i \in Nat : i # 0 => i + 1 > 1
  OBVIOUS
<1> QED
  BY <1>2, <1>3, <1>4

\* Numbers stay distinct when less is under way.
LEMMA DistinctLess ==
  ASSUME Distinct, calls' \subseteq calls,
         \A i \in DOMAIN toGo' : IsRequest(toGo'[i]) => i \in DOMAIN toGo /\ toGo'[i] = toGo[i],
         \A i \in DOMAIN toApp' :
           IsAnswer(toApp'[i]) => \E j \in DOMAIN toApp : toApp'[i] = toApp[j]
  PROVE  Distinct'
<1>1. /\ \A c, d \in calls' : c.req = d.req => c = d
      /\ \A i, j \in DOMAIN toGo' : IsRequest(toGo'[i]) /\ IsRequest(toGo'[j])
           /\ toGo'[i].req = toGo'[j].req => i = j
      /\ \A c \in calls', i \in DOMAIN toGo' : IsRequest(toGo'[i]) => toGo'[i].req # c.req
  BY DEF Distinct
<1>2. ASSUME NEW c \in calls', NEW i \in DOMAIN toApp', IsAnswer(toApp'[i])
      PROVE  toApp'[i].req # c.req
  <2>1. PICK j \in DOMAIN toApp : toApp'[i] = toApp[j]
    BY <1>2
  <2> QED
    BY <1>2, <2>1 DEF Distinct, IsAnswer
<1>3. ASSUME NEW i \in DOMAIN toGo', NEW j \in DOMAIN toApp',
             IsRequest(toGo'[i]), IsAnswer(toApp'[j])
      PROVE  toGo'[i].req # toApp'[j].req
  <2>1. PICK k \in DOMAIN toApp : toApp'[j] = toApp[k]
    BY <1>3
  <2> QED
    BY <1>3, <2>1 DEF Distinct, IsAnswer
<1> QED
  BY <1>1, <1>2, <1>3 DEF Distinct, IsRequest, IsAnswer

\* Steps in which those who wait, the calls and the events become fewer.
Lessens ==
  /\ FewerWaiters
  /\ calls' \subseteq calls
  /\ \A i \in DOMAIN toGo' : IsRequest(toGo'[i]) => i \in DOMAIN toGo /\ toGo'[i] = toGo[i]
  /\ UNCHANGED toApp \/ (toApp # <<>> /\ toApp' = Tail(toApp))

LEMMA WhoLessens ==
  ASSUME TypeOK, Moves \/ ClearAllData \/ ReceiveAnswer \/ ReceiveStatus \/ ReceiveFatal
  PROVE  Lessens /\ UNCHANGED <<enrolled, serverPin>>
<1>1. CASE Moves
  BY <1>1, MovesKeep DEF Lessens, FewerWaiters, SameWaiters, keyshareVars
<1>2. CASE ClearAllData
  BY <1>2, ClearFacts DEF Lessens, FewerWaiters
<1>3. CASE ReceiveAnswer
  <2>1. /\ UNCHANGED <<enrolled, serverPin, calls, toGo>> /\ toApp # <<>> /\ toApp' = Tail(toApp)
        /\ waiting' = [waiting EXCEPT ![Head(toApp).kind] = <<>>]
    BY <1>3 DEF ReceiveAnswer, Tell
  <2>2. \A k \in Kind : waiting'[k] = waiting[k] \/ waiting'[k] = <<>>
    BY <2>1 DEF TypeOK
  <2>3. FewerWaiters
    BY <2>2 DEF FewerWaiters
  <2> QED
    BY <2>1, <2>3 DEF Lessens
<1>4. CASE ReceiveStatus
  <2>1. /\ UNCHANGED <<enrolled, serverPin, calls, toGo>> /\ toApp # <<>> /\ toApp' = Tail(toApp)
        /\ waiting' = waiting \/ waiting' = LeftBy({"pin", "modal_pin"})
    BY <1>4 DEF ReceiveStatus
  <2>2. FewerWaiters
    BY <2>1, LeftBySame DEF FewerWaiters, SameWaiters
  <2> QED
    BY <2>1, <2>2 DEF Lessens
<1>5. CASE ReceiveFatal
  BY <1>5 DEF ReceiveFatal, FatalError, Lessens, FewerWaiters
<1> QED
  BY <1>1, <1>2, <1>3, <1>4, <1>5

\* Requests that ask get a number that nothing else has.
AskStep(n, c) ==
  /\ n \notin Outstanding /\ c \in Call /\ c.req = n
  /\ toGo' = Append(toGo, c)
  /\ \A k \in Kind : \A i \in DOMAIN waiting'[k] :
       \/ i \in DOMAIN waiting[k] /\ waiting'[k][i] = waiting[k][i]
       \/ k = c.kind /\ waiting'[k][i].req = n /\ waiting'[k][i].pin = c.pin
  /\ UNCHANGED <<enrolled, serverPin, calls, toApp>>
  /\ unsure' = (unsure \/ Outstanding # {})

LEMMA AskStepFacts ==
  ASSUME TypeOK, Asks
  PROVE  \E n, c : AskStep(n, c)
<1>1. PICK kind \in Kind, old \in Pin, pin \in Pin,
           by \in {"enrollment", "pin", "modal_pin", "enter_pin", "choose_pin", "gone"} :
        Ask(kind, old, pin, by)
  BY DEF Asks
<1>2. PICK n \in Request \ Outstanding : AsksAs(n, kind, old, pin, by)
  BY <1>1, AskFacts
<1> DEFINE c == [kind |-> kind, req |-> n, old |-> old, pin |-> pin]
<1>3. /\ c \in Call /\ c.req = n /\ c.kind = kind /\ c.pin = pin
      /\ toGo' = Append(toGo, c)
  BY <1>2 DEF AsksAs
<1>4. UNCHANGED <<enrolled, serverPin, calls, toApp>> /\ unsure' = (unsure \/ Outstanding # {})
  BY <1>1 DEF Ask
<1>5. \A k \in Kind : \A i \in DOMAIN waiting'[k] :
       \/ i \in DOMAIN waiting[k] /\ waiting'[k][i] = waiting[k][i]
       \/ k = kind /\ waiting'[k][i].req = n /\ waiting'[k][i].pin = pin
  BY <1>2 DEF AsksAs
<1> HIDE DEF c
<1>6. AskStep(n, c)
  BY <1>2, <1>3, <1>4, <1>5 DEF AskStep
<1> QED
  BY <1>6

\* Where a request that is new, or was there, is in the channel to Go.
LEMMA AskedGo ==
  ASSUME TypeOK, NEW n, NEW c, AskStep(n, c), NEW i \in DOMAIN toGo'
  PROVE  (i = Len(toGo) + 1 /\ toGo'[i] = c) \/ (i \in DOMAIN toGo /\ toGo'[i] = toGo[i])
<1>1. toGo \in Seq(Call \cup {ClearAll}) /\ c \in Call \cup {ClearAll} /\ toGo' = Append(toGo, c)
  BY DEF TypeOK, KeyshareTypeOK, AskStep
<1> QED
  BY <1>1, InAppend

LEMMA DistinctAsk ==
  ASSUME TypeOK, Distinct, NEW n, NEW c, AskStep(n, c)
  PROVE  Distinct'
<1>1. /\ \A d \in calls : d.req # n
      /\ \A i \in DOMAIN toGo : IsRequest(toGo[i]) => toGo[i].req # n
      /\ \A i \in DOMAIN toApp : IsAnswer(toApp[i]) => toApp[i].req # n
  BY Counted DEF AskStep
<1>2. \A i \in DOMAIN toGo' :
        (i = Len(toGo) + 1 /\ toGo'[i] = c) \/ (i \in DOMAIN toGo /\ toGo'[i] = toGo[i])
  BY AskedGo
<1>3. UNCHANGED <<calls, toApp>> /\ c.req = n
  BY DEF AskStep
<1> QED
  BY <1>1, <1>2, <1>3 DEF Distinct

LEMMA AskedAsk ==
  ASSUME TypeOK, Asked, LastSuccess, Distinct, NEW n, NEW c, AskStep(n, c)
  PROVE  Asked' /\ LastSuccess'
<1>1. /\ \A d \in calls : d.req # n
      /\ \A i \in DOMAIN toGo : IsRequest(toGo[i]) => toGo[i].req # n
      /\ \A i \in DOMAIN toApp : IsAnswer(toApp[i]) => toApp[i].req # n
      /\ \A k \in Kind : \A i \in DOMAIN waiting[k] : waiting[k][i].req # n
  BY Counted DEF AskStep
<1>2. \A i \in DOMAIN toGo' :
        (i = Len(toGo) + 1 /\ toGo'[i] = c) \/ (i \in DOMAIN toGo /\ toGo'[i] = toGo[i])
  BY AskedGo
<1>3. UNCHANGED <<calls, toApp, serverPin>> /\ c.req = n
  BY DEF AskStep
<1>4. \A k \in Kind : \A i \in DOMAIN waiting'[k] :
        \/ i \in DOMAIN waiting[k] /\ waiting'[k][i] = waiting[k][i]
        \/ k = c.kind /\ waiting'[k][i].req = n /\ waiting'[k][i].pin = c.pin
  BY DEF AskStep
<1>5. ASSUME NEW kind, NEW req, NEW pin, AskedWith(kind, req, pin), req # n
      PROVE  AskedWith(kind, req, pin)'
  BY <1>4, <1>5 DEF AskedWith
<1>6. AskedWith(c.kind, c.req, c.pin)'
  BY <1>1, <1>3, <1>4 DEF AskedWith
<1>7. Asked'
  <2>1. \A d \in calls' : AskedWith(d.kind, d.req, d.pin)'
    BY <1>1, <1>3, <1>5 DEF Asked
  <2>2. ASSUME NEW i \in DOMAIN toGo', IsRequest(toGo'[i]), NEW d, d = toGo'[i]
        PROVE  AskedWith(d.kind, d.req, d.pin)'
    BY <1>1, <1>2, <1>5, <1>6, <2>2 DEF Asked
  <2> QED
    BY <2>1, <2>2 DEF Asked, IsRequest, AskedWith
<1>8. LastSuccess'
  BY <1>1, <1>3, <1>5 DEF LastSuccess
<1> QED
  BY <1>7, <1>8

\* What a call that is handled leaves to the other channels: it has a place in
\* one of them, or none.
Handled(c, n) ==
  /\ 1 \in DOMAIN toGo /\ toGo[1] = c
  /\ \A i \in DOMAIN toGo' : i \in Nat /\ i + 1 \in DOMAIN toGo /\ toGo'[i] = toGo[i + 1] /\ i + 1 # 1
  /\ UNCHANGED <<serverPin, waiting, status, longPin, unsure, crossed>>
  /\ \/ /\ c \in Call /\ calls' = calls \cup {c} /\ UNCHANGED <<toApp, enrolled>>
     \/ UNCHANGED <<calls, toApp, enrolled>>
     \/ /\ UNCHANGED calls
        /\ n \in DOMAIN toApp'
        /\ \A i \in DOMAIN toApp : i \in DOMAIN toApp' /\ toApp'[i] = toApp[i] /\ n > i
        /\ \A i \in DOMAIN toApp' : i = n \/ (n > i /\ i \in DOMAIN toApp)
        /\ \/ /\ c \in Call /\ UNCHANGED enrolled
              /\ toApp'[n] = AnswerTo(c, "error")
           \/ enrolled' = FALSE /\ toApp'[n] = Status(FALSE)

LEMMA HandledFacts ==
  ASSUME TypeOK, Handle
  PROVE  \E c, n : Handled(c, n)
<1> DEFINE n == Len(toApp) + 1
<1>1. PICK c : c = Head(toGo)
  OBVIOUS
<1>2. /\ toGo \in Seq(Call \cup {ClearAll}) /\ toGo # <<>> /\ toGo' = Tail(toGo)
      /\ UNCHANGED <<serverPin, waiting, status, longPin, unsure, crossed>>
      /\ \/ /\ c \in Call /\ UNCHANGED <<toApp, enrolled>>
            /\ calls' = calls \cup {c}
         \/ /\ c \in Call /\ UNCHANGED <<calls, enrolled>>
            /\ toApp' = Append(toApp, AnswerTo(c, "error"))
         \/ UNCHANGED <<calls, toApp, enrolled>>
         \/ /\ enrolled' = FALSE /\ UNCHANGED calls
            /\ toApp' = Append(toApp, Status(FALSE))
  BY <1>1, HandleFacts
<1>3. /\ 1 \in DOMAIN toGo /\ toGo[1] = c
      /\ \A i \in DOMAIN toGo' :
           i \in Nat /\ i + 1 \in DOMAIN toGo /\ toGo'[i] = toGo[i + 1] /\ i + 1 # 1
  <2>1. \A i \in DOMAIN toGo' :
          i \in Nat /\ i # 0 /\ i + 1 \in DOMAIN toGo /\ toGo'[i] = toGo[i + 1]
    BY <1>2, InTail
  <2>2. \A i \in Nat : i # 0 => i + 1 # 1
    OBVIOUS
  <2> QED
    BY <1>1, <1>2, <2>1, <2>2, InTail
<1>4. ASSUME NEW a \in Event, toApp' = Append(toApp, a)
      PROVE  /\ n \in DOMAIN toApp' /\ toApp'[n] = a
             /\ \A i \in DOMAIN toApp : i \in DOMAIN toApp' /\ toApp'[i] = toApp[i] /\ n > i
             /\ \A i \in DOMAIN toApp' : i = n \/ (n > i /\ i \in DOMAIN toApp)
  BY <1>4, InAppend DEF TypeOK, KeyshareTypeOK
<1>5. (c \in Call => AnswerTo(c, "error") \in Event) /\ Status(FALSE) \in Event
  BY AnswerType, StatusType DEF Outcome
<1> HIDE DEF n
<1>6. Handled(c, n)
  BY <1>2, <1>3, <1>4, <1>5 DEF Handled
<1> QED
  BY <1>6

LEMMA DistinctHandle ==
  ASSUME TypeOK, Distinct, NEW c, NEW n, Handled(c, n)
  PROVE  Distinct'
<1>1. /\ \A i, j \in DOMAIN toGo' : i + 1 = j + 1 => i = j
      /\ \A i \in DOMAIN toGo' : i + 1 \in DOMAIN toGo /\ toGo'[i] = toGo[i + 1] /\ i + 1 # 1
      /\ 1 \in DOMAIN toGo /\ toGo[1] = c
  BY DEF Handled
<1>2. /\ \A i, j \in DOMAIN toGo' :
           IsRequest(toGo'[i]) /\ IsRequest(toGo'[j]) /\ toGo'[i].req = toGo'[j].req => i = j
      /\ \A d \in calls, i \in DOMAIN toGo' : IsRequest(toGo'[i]) => toGo'[i].req # d.req
      /\ \A i \in DOMAIN toGo', j \in DOMAIN toApp :
           IsRequest(toGo'[i]) /\ IsAnswer(toApp[j]) => toGo'[i].req # toApp[j].req
      /\ \A d \in calls, i \in DOMAIN toApp : IsAnswer(toApp[i]) => toApp[i].req # d.req
      /\ \A d, e \in calls : d.req = e.req => d = e
  BY <1>1 DEF Distinct
<1>3. c \in Call => IsRequest(c)
  BY DEF Call, Kind, IsRequest
<1>4. IsRequest(c) =>
        /\ \A d \in calls : d.req # c.req
        /\ \A i \in DOMAIN toGo' : IsRequest(toGo'[i]) => toGo'[i].req # c.req
        /\ \A i \in DOMAIN toApp : IsAnswer(toApp[i]) => toApp[i].req # c.req
  BY <1>1 DEF Distinct
<1>5. CASE c \in Call /\ calls' = calls \cup {c} /\ UNCHANGED toApp
  BY <1>2, <1>3, <1>4, <1>5 DEF Distinct
<1>6. CASE UNCHANGED <<calls, toApp>>
  BY <1>2, <1>6 DEF Distinct
<1>7. CASE /\ UNCHANGED calls /\ c \in Call /\ toApp'[n] = AnswerTo(c, "error")
           /\ \A i \in DOMAIN toApp' : i = n \/ (i \in DOMAIN toApp /\ toApp'[i] = toApp[i])
  <2>1. toApp'[n].req = c.req
    BY <1>7 DEF AnswerTo
  <2>2. \A i \in DOMAIN toApp' :
          i = n \/ (i \in DOMAIN toApp /\ toApp'[i] = toApp[i])
    BY <1>7
  <2>3. \A d \in calls', i \in DOMAIN toApp' : IsAnswer(toApp'[i]) => toApp'[i].req # d.req
    BY <1>2, <1>3, <1>4, <1>7, <2>1, <2>2
  <2>4. \A i \in DOMAIN toGo', j \in DOMAIN toApp' :
          IsRequest(toGo'[i]) /\ IsAnswer(toApp'[j]) => toGo'[i].req # toApp'[j].req
    BY <1>2, <1>3, <1>4, <1>7, <2>1, <2>2
  <2> QED
    BY <1>2, <1>7, <2>3, <2>4 DEF Distinct
<1>8. CASE /\ UNCHANGED calls /\ toApp'[n] = Status(FALSE)
           /\ \A i \in DOMAIN toApp' : i = n \/ (i \in DOMAIN toApp /\ toApp'[i] = toApp[i])
  <2>1. ~IsAnswer(toApp'[n])
    BY <1>8 DEF Status, IsAnswer, Kind
  <2>2. \A i \in DOMAIN toApp' :
          IsAnswer(toApp'[i]) => i \in DOMAIN toApp /\ toApp'[i] = toApp[i]
    BY <1>8, <2>1
  <2>3. \A d \in calls', i \in DOMAIN toApp' : IsAnswer(toApp'[i]) => toApp'[i].req # d.req
    BY <1>2, <1>8, <2>2
  <2>4. \A i \in DOMAIN toGo', j \in DOMAIN toApp' :
          IsRequest(toGo'[i]) /\ IsAnswer(toApp'[j]) => toGo'[i].req # toApp'[j].req
    BY <1>2, <2>2
  <2> QED
    BY <1>2, <1>8, <2>3, <2>4 DEF Distinct
<1> QED
  BY <1>5, <1>6, <1>7, <1>8 DEF Handled

LEMMA AskedHandle ==
  ASSUME TypeOK, Asked, LastSuccess, NEW c, NEW n, Handled(c, n)
  PROVE  Asked' /\ LastSuccess'
<1>1. \A k, r, p : AskedWith(k, r, p) => AskedWith(k, r, p)'
  BY AskedWithUnchanged DEF Handled
<1>2. /\ \A i \in DOMAIN toGo' : i + 1 \in DOMAIN toGo /\ toGo'[i] = toGo[i + 1]
      /\ 1 \in DOMAIN toGo /\ toGo[1] = c /\ serverPin' = serverPin
      /\ calls' = calls \/ (c \in Call /\ calls' = calls \cup {c})
  BY DEF Handled
<1>3. c \in Call => IsRequest(c)
  BY DEF Call, Kind, IsRequest
<1>4. \A d \in calls' : AskedWith(d.kind, d.req, d.pin)
  BY <1>2, <1>3 DEF Asked
<1>5. \A i \in DOMAIN toGo' :
        IsRequest(toGo'[i]) => AskedWith(toGo'[i].kind, toGo'[i].req, toGo'[i].pin)
  BY <1>2 DEF Asked
<1>6. Asked'
  <2>1. ASSUME NEW d \in calls' PROVE AskedWith(d.kind, d.req, d.pin)'
    BY <1>1, <1>4
  <2>2. ASSUME NEW i \in DOMAIN toGo', NEW d, d = toGo'[i], IsRequest(d)
        PROVE  AskedWith(d.kind, d.req, d.pin)'
    BY <1>1, <1>5, <2>2
  <2> QED
    BY <2>1, <2>2 DEF Asked, IsRequest, AskedWith
<1>7. CASE UNCHANGED toApp
  <2>1. LastSuccess'
    BY <1>1, <1>2, <1>7 DEF LastSuccess
  <2> QED
    BY <1>6, <2>1
<1>8. CASE /\ n \in DOMAIN toApp'
           /\ \A i \in DOMAIN toApp : i \in DOMAIN toApp' /\ toApp'[i] = toApp[i] /\ n > i
           /\ \A i \in DOMAIN toApp' : i = n \/ (n > i /\ i \in DOMAIN toApp)
           /\ ~IsAnswer(toApp'[n]) \/ toApp'[n].outcome # "success"
  <2>1. ASSUME NEW i \in DOMAIN toApp', NEW m, m = toApp'[i], IsAnswer(m), m.outcome = "success",
               \A j \in DOMAIN toApp' : j > i => ~IsAnswer(toApp'[j])
        PROVE  AskedWith(m.kind, m.req, serverPin)'
    <3>1. i \in DOMAIN toApp /\ toApp[i] = m
      BY <1>8, <2>1
    <3>2. \A j \in DOMAIN toApp : j > i => ~IsAnswer(toApp[j])
      BY <1>8, <2>1
    <3>3. AskedWith(m.kind, m.req, serverPin)
      BY <2>1, <3>1, <3>2 DEF LastSuccess
    <3>4. PICK p : p = serverPin
      OBVIOUS
    <3>5. AskedWith(m.kind, m.req, p)'
      BY <1>1, <3>3, <3>4
    <3> QED
      BY <1>2, <3>4, <3>5 DEF AskedWith
  <2>2. LastSuccess'
    BY <2>1 DEF LastSuccess, IsAnswer, AskedWith
  <2> QED
    BY <1>6, <2>2
<1>9. /\ \A x : AnswerTo(x, "error").outcome # "success"
      /\ ~IsAnswer(Status(FALSE))
  BY DEF AnswerTo, Status, IsAnswer, Kind
<1> QED
  BY <1>7, <1>8, <1>9 DEF Handled

LEMMA DistinctServe ==
  ASSUME TypeOK, Distinct, NEW c \in calls, NEW a, NEW n, Served(c, a, n)
  PROVE  Distinct'
<1>1. /\ calls' = calls \ {c} /\ toGo' = toGo /\ a.req = c.req
      /\ toApp'[n] = a
      /\ \A i \in DOMAIN toApp' :
           IsAnswer(toApp'[i]) => i = n \/ (i \in DOMAIN toApp /\ toApp'[i] = toApp[i])
  BY DEF Served, Status, IsAnswer, Kind
<1>2. /\ \A d \in calls' : d \in calls /\ d.req # a.req
      /\ \A i \in DOMAIN toGo : IsRequest(toGo[i]) => toGo[i].req # a.req
  BY <1>1 DEF Distinct
<1>3. \A d \in calls', i \in DOMAIN toApp' : IsAnswer(toApp'[i]) => toApp'[i].req # d.req
  BY <1>1, <1>2 DEF Distinct
<1>4. \A i \in DOMAIN toGo, j \in DOMAIN toApp' :
        IsRequest(toGo[i]) /\ IsAnswer(toApp'[j]) => toGo[i].req # toApp'[j].req
  BY <1>1, <1>2 DEF Distinct
<1> QED
  BY <1>1, <1>2, <1>3, <1>4 DEF Distinct

LEMMA AskedServe ==
  ASSUME TypeOK, Asked, LastSuccess, NEW c \in calls, NEW a, NEW n, Served(c, a, n)
  PROVE  Asked' /\ LastSuccess'
<1>1. \A k, r, p : AskedWith(k, r, p) => AskedWith(k, r, p)'
  BY AskedWithUnchanged DEF Served
<1>2. Asked'
  BY <1>1 DEF Asked, Served
<1>3. ASSUME NEW i \in DOMAIN toApp', NEW m, m = toApp'[i], IsAnswer(m), m.outcome = "success",
             \A j \in DOMAIN toApp' : j > i => ~IsAnswer(toApp'[j])
      PROVE  AskedWith(m.kind, m.req, serverPin)'
  <2>1. i = n
    BY <1>3 DEF Served
  <2>2. m = a /\ m.kind = c.kind /\ m.req = c.req /\ serverPin' = c.pin
    BY <1>3, <2>1 DEF Served
  <2>3. AskedWith(c.kind, c.req, c.pin)'
    BY <1>1 DEF Asked
  <2> QED
    BY <2>2, <2>3 DEF AskedWith
<1>4. LastSuccess'
  BY <1>3 DEF LastSuccess, IsAnswer, AskedWith
<1> QED
  BY <1>2, <1>4

LEMMA DistinctLessens ==
  ASSUME TypeOK, Distinct, Lessens
  PROVE  Distinct'
<1>1. \A i \in DOMAIN toApp' : \E j \in DOMAIN toApp : toApp'[i] = toApp[j]
  BY Taken DEF Lessens
<1> QED
  BY <1>1, DistinctLess DEF Lessens

LEMMA AskedLessens ==
  ASSUME TypeOK, Asked, LastSuccess, Lessens, UNCHANGED serverPin
  PROVE  Asked' /\ LastSuccess'
<1>1. \A k, r, p : AskedWith(k, r, p) => AskedWith(k, r, p)'
  BY AskedWithStays DEF Lessens
<1>2. Asked'
  <2>1. ASSUME NEW d \in calls' PROVE AskedWith(d.kind, d.req, d.pin)'
    BY <1>1 DEF Asked, Lessens
  <2>2. ASSUME NEW i \in DOMAIN toGo', NEW d, d = toGo'[i], IsRequest(d)
        PROVE  AskedWith(d.kind, d.req, d.pin)'
    BY <1>1, <2>2 DEF Asked, Lessens
  <2> QED
    BY <2>1, <2>2 DEF Asked, IsRequest, AskedWith
<1>3. ASSUME NEW i \in DOMAIN toApp', NEW m, m = toApp'[i], IsAnswer(m), m.outcome = "success",
             \A j \in DOMAIN toApp' : j > i => ~IsAnswer(toApp'[j])
      PROVE  AskedWith(m.kind, m.req, serverPin)'
  <2>1. AskedWith(m.kind, m.req, serverPin)
    <3>1. CASE UNCHANGED toApp
      BY <1>3, <3>1 DEF LastSuccess
    <3>2. CASE toApp # <<>> /\ toApp' = Tail(toApp)
      <4>1. i \in Nat /\ i + 1 \in DOMAIN toApp /\ toApp[i + 1] = m
        BY <1>3, <3>2, Taken
      <4>2. ASSUME NEW j \in DOMAIN toApp, j > i + 1 PROVE ~IsAnswer(toApp[j])
        <5>1. j \in Nat
          BY DEF TypeOK, KeyshareTypeOK
        <5>2. j # 1 /\ j - 1 > i
          BY <4>1, <4>2, <5>1
        <5>3. j - 1 \in DOMAIN toApp' /\ toApp'[j - 1] = toApp[j]
          BY <3>2, <5>2, Taken
        <5> QED
          BY <1>3, <5>2, <5>3
      <4> QED
        BY <1>3, <4>1, <4>2 DEF LastSuccess
    <3> QED
      BY <3>1, <3>2 DEF Lessens
  <2>2. PICK p : p = serverPin
    OBVIOUS
  <2>3. AskedWith(m.kind, m.req, p)'
    BY <1>1, <2>1, <2>2
  <2> QED
    BY <2>2, <2>3 DEF AskedWith
<1>4. LastSuccess'
  BY <1>3 DEF LastSuccess, IsAnswer, AskedWith
<1> QED
  BY <1>2, <1>4

\* What a start leaves.
LEMMA RestartFacts ==
  ASSUME TypeOK, Restart
  PROVE  /\ calls' = {} /\ DOMAIN toGo' = {} /\ DOMAIN toApp' = {1}
         /\ toApp'[1] = Status(enrolled') \/ toApp'[1] = Fatal
         /\ ~IsAnswer(toApp'[1])
         /\ longPin' = longPin /\ status' = "undetermined"
         /\ unsure' = (unsure \/ waiting["enroll"] # <<>> \/ waiting["change"] # <<>>)
         /\ UNCHANGED <<enrolled, serverPin>> \/ \E c \in calls : c.kind \in {"enroll", "change"}
<1>1. /\ calls' = {} /\ toGo' = <<>> /\ toApp' \in Welcome(enrolled') /\ longPin' = longPin
      /\ status' = "undetermined"
      /\ unsure' = (unsure \/ waiting["enroll"] # <<>> \/ waiting["change"] # <<>>)
      /\ UNCHANGED <<enrolled, serverPin>> \/ \E c \in calls : c.kind \in {"enroll", "change"}
  BY DEF Restart, Crash
<1>2. enrolled' \in BOOLEAN
  BY RestartType DEF TypeOK, KeyshareTypeOK
<1>3. /\ DOMAIN toApp' = {1} /\ (toApp'[1] = Status(enrolled') \/ toApp'[1] = Fatal)
      /\ ~IsAnswer(toApp'[1])
  BY <1>1, <1>2, WelcomeFacts DEF IsAnswer, Kind
<1>4. DOMAIN toGo' = {}
  BY <1>1
<1> QED
  BY <1>1, <1>3, <1>4

\* The numbers and the PINs of requests, in every step.
LEMMA DistinctStep ==
  ASSUME TypeOK, Distinct, Asked, LastSuccess, [Next]_vars
  PROVE  Distinct' /\ Asked' /\ LastSuccess'
<1>1. CASE Enroll \/ SubmitPin("pin") \/ SubmitPin("modal_pin") \/ ChangePin \/ VerifyOldPin
  <2>1. PICK n, c : AskStep(n, c)
    BY <1>1, WhoAsks, AskStepFacts
  <2> QED
    BY <2>1, DistinctAsk, AskedAsk
<1>2. CASE Handle
  <2>1. PICK c, n : Handled(c, n)
    BY <1>2, HandledFacts
  <2> QED
    BY <2>1, DistinctHandle, AskedHandle
<1>3. CASE Serve
  <2>1. PICK c \in calls : \E a, n : Served(c, a, n)
    BY <1>3, ServedFacts
  <2>2. PICK a, n : Served(c, a, n)
    BY <2>1
  <2> QED
    BY <2>2, DistinctServe, AskedServe
<1>4. CASE Moves \/ ClearAllData \/ ReceiveAnswer \/ ReceiveStatus \/ ReceiveFatal
  BY <1>4, WhoLessens, DistinctLessens, AskedLessens
<1>5. CASE Restart
  BY <1>5, RestartFacts DEF Distinct, Asked, LastSuccess, IsAnswer
<1> QED
  BY <1>1, <1>2, <1>3, <1>4, <1>5 DEF Next, User, Moves

\* What is told of the scheme and of its PIN, when the head of the channel is taken.
LEMMA KnownTail ==
  ASSUME TypeOK, Known, toApp # <<>>, toApp' = Tail(toApp), UNCHANGED enrolled,
         /\ (\A i \in DOMAIN toApp' : ~IsStatus(toApp'[i])) /\ enrolled = FALSE
         /\ IsStatus(toApp[1]) => toApp[1].enrolled = FALSE
         => status' # "enrolled" \/ (~IsStatus(toApp[1]) /\ status' = status)
  PROVE  Known'
<1>1. ASSUME NEW i \in DOMAIN toApp', IsStatus(toApp'[i]),
             \A j \in DOMAIN toApp' : j > i => ~IsStatus(toApp'[j])
      PROVE  toApp'[i].enrolled = enrolled
  <2>1. i \in Nat /\ i + 1 \in DOMAIN toApp /\ toApp[i + 1] = toApp'[i]
    BY Taken
  <2>2. ASSUME NEW j \in DOMAIN toApp, j > i + 1 PROVE ~IsStatus(toApp[j])
    <3>1. j \in Nat
      BY DEF TypeOK, KeyshareTypeOK
    <3>2. j # 1 /\ j - 1 > i
      BY <2>1, <2>2, <3>1
    <3>3. j - 1 \in DOMAIN toApp' /\ toApp'[j - 1] = toApp[j]
      BY <3>2, Taken
    <3> QED
      BY <1>1, <3>2, <3>3
  <2> QED
    BY <1>1, <2>1, <2>2 DEF Known
<1>2. ASSUME \A i \in DOMAIN toApp' : ~IsStatus(toApp'[i]), enrolled = FALSE
      PROVE  status' # "enrolled"
  <2>1. \A j \in DOMAIN toApp : j = 1 \/ ~IsStatus(toApp[j])
    BY <1>2, Taken
  <2>2. 1 \in DOMAIN toApp /\ \A j \in DOMAIN toApp : j > 1 => j # 1
    BY Taken DEF TypeOK, KeyshareTypeOK
  <2>3. IsStatus(toApp[1]) => toApp[1].enrolled = FALSE
    BY <1>2, <2>1, <2>2 DEF Known
  <2>4. ~IsStatus(toApp[1]) => status # "enrolled"
    BY <1>2, <2>1 DEF Known
  <2> QED
    BY <1>2, <2>3, <2>4
<1> QED
  BY <1>1, <1>2 DEF Known, IsStatus

LEMMA KnownHandle ==
  ASSUME TypeOK, Known, NEW c, NEW n, Handled(c, n)
  PROVE  Known'
<1>1. ~IsStatus(AnswerTo(c, "error")) \/ c \notin Call
  BY DEF AnswerTo, IsStatus, Call, Kind
<1>2. IsStatus(Status(FALSE)) /\ Status(FALSE).enrolled = FALSE
  BY DEF Status, IsStatus
<1>3. CASE UNCHANGED <<toApp, enrolled>>
  BY <1>3 DEF Known, Handled
<1>4. CASE /\ n \in DOMAIN toApp'
           /\ \A i \in DOMAIN toApp : i \in DOMAIN toApp' /\ toApp'[i] = toApp[i] /\ n > i
           /\ \A i \in DOMAIN toApp' : i = n \/ (n > i /\ i \in DOMAIN toApp)
           /\ \/ ~IsStatus(toApp'[n]) /\ UNCHANGED enrolled
              \/ enrolled' = FALSE /\ toApp'[n] = Status(FALSE)
  BY <1>2, <1>4 DEF Known, Handled
<1> QED
  BY <1>1, <1>3, <1>4 DEF Handled

LEMMA KnownServe ==
  ASSUME TypeOK, Known, NEW c, NEW a, NEW n, Served(c, a, n)
  PROVE  Known'
<1>1. ~IsStatus(toApp'[n]) /\ UNCHANGED status
  BY DEF Served, IsStatus, IsAnswer, Kind
<1>2. /\ n \in DOMAIN toApp'
      /\ \A i \in DOMAIN toApp : i \in DOMAIN toApp' /\ toApp'[i] = toApp[i]
      /\ \A i \in DOMAIN toApp' : i = n \/ i \in DOMAIN toApp \/ toApp'[i] = Status(TRUE)
  BY DEF Served
<1>3. IsStatus(Status(TRUE)) /\ Status(TRUE).enrolled = TRUE
  BY DEF Status, IsStatus
<1>4. CASE enrolled' = enrolled /\ \A i \in DOMAIN toApp' : i = n \/ i \in DOMAIN toApp
  BY <1>1, <1>2, <1>4 DEF Known
<1>5. CASE /\ enrolled' = TRUE
           /\ \E d \in DOMAIN toApp' :
                toApp'[d] = Status(TRUE) /\ \A i \in DOMAIN toApp : d > i
  BY <1>1, <1>2, <1>3, <1>5 DEF Known
<1> QED
  BY <1>4, <1>5 DEF Served

LEMMA KnownStep ==
  ASSUME TypeOK, Known, [Next]_vars
  PROVE  Known'
<1>1. CASE Enroll \/ SubmitPin("pin") \/ SubmitPin("modal_pin") \/ ChangePin \/ VerifyOldPin
  <2>1. UNCHANGED <<toApp, enrolled, status>>
    BY <1>1, WhoAsks DEF Asks, Ask
  <2> QED
    BY <2>1 DEF Known
<1>2. CASE Handle
  BY <1>2, HandledFacts, KnownHandle
<1>3. CASE Serve
  BY <1>3, ServedFacts, KnownServe
<1>4. CASE Moves \/ ClearAllData
  BY <1>4, MovesKeep, ClearFacts DEF Known, keyshareVars
<1>5. CASE ReceiveAnswer
  <2>1. /\ toApp # <<>> /\ toApp' = Tail(toApp) /\ UNCHANGED <<enrolled, status>>
        /\ ~IsStatus(Head(toApp))
    BY <1>5 DEF ReceiveAnswer, ReceiveVerify, ReceiveChange, ReceiveEnroll, IsAnswer, IsStatus, Kind
  <2> QED
    BY <2>1, Taken, KnownTail
<1>6. CASE ReceiveStatus
  <2>1. /\ toApp # <<>> /\ toApp' = Tail(toApp) /\ UNCHANGED enrolled /\ IsStatus(Head(toApp))
        /\ Head(toApp).enrolled \/ status' = "unenrolled"
    BY <1>6 DEF ReceiveStatus, IsStatus
  <2> QED
    BY <2>1, Taken, KnownTail
<1>7. CASE Restart
  <2>1. Status(enrolled').enrolled = enrolled' /\ IsStatus(Status(enrolled')) /\ ~IsStatus(Fatal)
    BY DEF Status, Fatal, IsStatus
  <2> QED
    BY <1>7, <2>1, RestartFacts DEF Known
<1>8. CASE ReceiveFatal
  <2>1. /\ toApp # <<>> /\ toApp' = Tail(toApp) /\ UNCHANGED <<enrolled, status>>
        /\ ~IsStatus(Head(toApp))
    BY <1>8 DEF ReceiveFatal, FatalError, Fatal, IsStatus
  <2> QED
    BY <2>1, Taken, KnownTail
<1> QED
  BY <1>1, <1>2, <1>3, <1>4, <1>5, <1>6, <1>7, <1>8 DEF Next, User, Moves

LEMMA FoundedMore ==
  ASSUME Founded,
         \A i \in DOMAIN toApp : i \in DOMAIN toApp' /\ toApp'[i] = toApp[i],
         \A i \in DOMAIN toApp' :
           \/ i \in DOMAIN toApp /\ (enrolled' => enrolled)
           \/ toApp'[i] # Status(FALSE) \/ ~enrolled'
           \/ \E j \in DOMAIN toApp' : j > i /\ OfNewPin(toApp'[j])
  PROVE  Founded'
<1>1. ASSUME NEW i \in DOMAIN toApp', toApp'[i] = Status(FALSE), enrolled'
      PROVE  \E j \in DOMAIN toApp' : j > i /\ OfNewPin(toApp'[j])
  <2>1. CASE i \in DOMAIN toApp /\ enrolled
    <3>1. PICK j \in DOMAIN toApp : j > i /\ OfNewPin(toApp[j])
      BY <1>1, <2>1 DEF Founded
    <3> QED
      BY <3>1
  <2> QED
    BY <1>1, <2>1
<1> QED
  BY <1>1 DEF Founded, OfNewPin

LEMMA FoundedStep ==
  ASSUME TypeOK, Founded, [Next]_vars
  PROVE  Founded'
<1>1. CASE Lessens /\ UNCHANGED <<enrolled, serverPin>>
  <2>1. CASE UNCHANGED toApp
    BY <1>1, <2>1 DEF Founded
  <2>2. CASE toApp # <<>> /\ toApp' = Tail(toApp)
    <3>1. ASSUME NEW i \in DOMAIN toApp', toApp'[i] = Status(FALSE), enrolled
          PROVE  \E j \in DOMAIN toApp' : j > i /\ OfNewPin(toApp'[j])
      <4>1. i \in Nat /\ i + 1 \in DOMAIN toApp /\ toApp[i + 1] = Status(FALSE)
        BY <2>2, <3>1, Taken
      <4>2. PICK j \in DOMAIN toApp : j > i + 1 /\ OfNewPin(toApp[j])
        BY <3>1, <4>1 DEF Founded
      <4>3. j \in Nat
        BY DEF TypeOK, KeyshareTypeOK
      <4>4. j # 1 /\ j - 1 > i
        BY <4>1, <4>2, <4>3
      <4>5. j - 1 \in DOMAIN toApp' /\ toApp'[j - 1] = toApp[j]
        BY <2>2, <4>4, Taken
      <4> QED
        BY <4>2, <4>4, <4>5
    <3> QED
      BY <1>1, <3>1 DEF Founded, OfNewPin
  <2> QED
    BY <1>1, <2>1, <2>2 DEF Lessens
<1>2. CASE Enroll \/ SubmitPin("pin") \/ SubmitPin("modal_pin") \/ ChangePin \/ VerifyOldPin
  <2>1. UNCHANGED <<toApp, enrolled>>
    BY <1>2, WhoAsks DEF Asks, Ask
  <2> QED
    BY <2>1 DEF Founded
<1>3. CASE Handle
  <2>1. PICK c, n : Handled(c, n)
    BY <1>3, HandledFacts
  <2>2. c \in Call => AnswerTo(c, "error") # Status(FALSE)
    BY DEF AnswerTo, Status, Call, Kind
  <2>3. CASE UNCHANGED <<toApp, enrolled>>
    BY <2>3 DEF Founded
  <2>4. CASE /\ \A i \in DOMAIN toApp : i \in DOMAIN toApp' /\ toApp'[i] = toApp[i]
             /\ \A i \in DOMAIN toApp' : i = n \/ i \in DOMAIN toApp
             /\ UNCHANGED enrolled /\ toApp'[n] # Status(FALSE)
    BY <2>4, FoundedMore
  <2>5. CASE enrolled' = FALSE
    BY <2>5 DEF Founded
  <2> QED
    BY <2>1, <2>2, <2>3, <2>4, <2>5 DEF Handled
<1>4. CASE Serve
  <2>1. PICK c \in calls : \E a, n : Served(c, a, n)
    BY <1>4, ServedFacts
  <2>2. PICK a, n : Served(c, a, n)
    BY <2>1
  <2>3. toApp'[n] # Status(FALSE)
    BY <2>2 DEF Served, IsAnswer, Status, Kind
  <2>4. /\ n \in DOMAIN toApp' /\ toApp'[n] = a
        /\ \A i \in DOMAIN toApp : i \in DOMAIN toApp' /\ toApp'[i] = toApp[i]
    BY <2>2 DEF Served
  <2>5. CASE enrolled' = enrolled /\ \A i \in DOMAIN toApp' : i = n \/ i \in DOMAIN toApp
    BY <2>3, <2>4, <2>5, FoundedMore
  <2>6. CASE OfNewPin(a)
    <3>1. \A i \in DOMAIN toApp' : i = n \/ n > i
      BY <2>2 DEF Served
    <3> QED
      BY <2>3, <2>4, <2>6, <3>1, FoundedMore
  <2> QED
    BY <2>2, <2>5, <2>6 DEF Served
<1>5. CASE Restart
  <2>1. (Status(enrolled') = Status(FALSE) => enrolled' = FALSE) /\ Fatal # Status(FALSE)
    BY DEF Status, Fatal
  <2> QED
    BY <1>5, <2>1, RestartFacts DEF Founded
<1> QED
  BY <1>1, <1>2, <1>3, <1>4, <1>5, WhoLessens DEF Next, User, Moves

\* A success taken while it is the only thing under way settles the length.
LEMMA FitAlone ==
  ASSUME TypeOK, Distinct, LastSuccess, ReceiveAnswer,
         Head(toApp).outcome = "success", Alone(Head(toApp))
  PROVE  Single' /\ Fits'
<1>1. PICK m : m = Head(toApp)
  OBVIOUS
<1>2. /\ toApp \in Seq(Event) /\ toApp # <<>> /\ toApp' = Tail(toApp) /\ Tail(toApp) = <<>>
      /\ IsAnswer(m) /\ m.kind \in Kind /\ UNCHANGED <<calls, toGo, serverPin>>
      /\ Outstanding = {m.req} /\ Len(waiting[m.kind]) = 1 /\ m.outcome = "success"
      /\ waiting' = [waiting EXCEPT ![m.kind] = <<>>] /\ waiting \in [Kind -> Seq(Waiter)]
      /\ Remember(m)
  BY <1>1 DEF TypeOK, KeyshareTypeOK, ReceiveAnswer, Tell, IsAnswer, Alone
<1>3. 1 \in DOMAIN toApp /\ toApp[1] = m /\ DOMAIN toApp' = {}
  BY <1>1, <1>2, Taken
<1>4. \A j \in DOMAIN toApp : j = 1
  BY <1>2, <1>3, Taken
<1>5. AskedWith(m.kind, m.req, serverPin)
  BY <1>2, <1>3, <1>4 DEF LastSuccess
<1>6. \A k \in Kind : \A i \in DOMAIN waiting[k] : waiting[k][i].req = m.req
  BY <1>2, Counted
<1>7. calls' = {} /\ \A i \in DOMAIN toGo' : ~IsRequest(toGo'[i])
  BY <1>2, <1>3, Counted DEF Distinct
<1>8. ASSUME NEW k \in Kind PROVE DOMAIN waiting'[k] = {}
  <2>1. CASE k = m.kind
    BY <1>2, <2>1
  <2>2. CASE k # m.kind
    <3>1. waiting'[k] = waiting[k]
      BY <1>2, <2>2
    <3> QED
      BY <1>2, <1>5, <1>6, <2>2, <3>1 DEF AskedWith
  <2> QED
    BY <2>1, <2>2
<1>9. Idle'
  BY <1>3, <1>7, <1>8 DEF Idle
<1>10. Single'
  BY <1>9 DEF Idle, Single, OneWaiter, AllAwaited, OnePlace
<1>11. 1 \in DOMAIN waiting[m.kind] /\ waiting[m.kind] # <<>>
  BY <1>2
<1>12. waiting[m.kind][1].pin = serverPin
  BY <1>2, <1>5, <1>6, <1>11 DEF AskedWith
<1>13. longPin' = IsLong(serverPin)
  BY <1>2, <1>11, <1>12 DEF Remember
<1> QED
  BY <1>2, <1>10, <1>13 DEF Fits, IsLong

\* The only one who waits knows the PIN that a success is about.
LEMMA FitAnswer ==
  ASSUME TypeOK, Single, LastSuccess, Aware, ReceiveAnswer, ~unsure'
  PROVE  Aware'
<1>1. PICK m : m = Head(toApp)
  OBVIOUS
<1>2. /\ toApp \in Seq(Event) /\ toApp # <<>> /\ toApp' = Tail(toApp)
      /\ IsAnswer(m) /\ m.kind \in Kind /\ UNCHANGED <<enrolled, serverPin>>
      /\ waiting \in [Kind -> Seq(Waiter)] /\ Remember(m)
      /\ m.outcome # "success" => ~(m.kind = "change" /\ m.outcome = "error")
  BY <1>1 DEF TypeOK, KeyshareTypeOK, ReceiveAnswer, IsAnswer
<1>3. 1 \in DOMAIN toApp /\ toApp[1] = m
  BY <1>1, <1>2, Taken
<1>4. CASE m.outcome = "success"
  <2>1. PICK i \in DOMAIN waiting[m.kind] : waiting[m.kind][i].req = m.req
    BY <1>2, <1>3 DEF Single, AllAwaited, Awaited
  <2>2. \A j \in DOMAIN toApp : j > 1 => ~IsAnswer(toApp[j])
    BY <1>2, <1>3 DEF Single, OnePlace
  <2>3. AskedWith(m.kind, m.req, serverPin)
    BY <1>2, <1>3, <1>4, <2>2 DEF LastSuccess
  <2>4. waiting[m.kind] \in Seq(Waiter) /\ waiting[m.kind] # <<>>
    BY <1>2, <2>1
  <2>5. Len(waiting[m.kind]) \in DOMAIN waiting[m.kind]
    BY <2>4
  <2>6. i = Len(waiting[m.kind])
    BY <1>2, <2>5 DEF Single, OneWaiter
  <2>7. waiting[m.kind][Len(waiting[m.kind])].pin = serverPin
    BY <1>2, <2>1, <2>3, <2>6 DEF AskedWith
  <2>8. longPin' = IsLong(serverPin)
    BY <1>2, <1>4, <2>4, <2>7 DEF Remember
  <2> QED
    BY <1>2, <2>8 DEF Aware, Fits, IsLong
<1>5. CASE m.outcome # "success"
  <2>1. longPin' = longPin
    BY <1>2, <1>5 DEF Remember
  <2>2. ~OfNewPin(m)
    BY <1>2, <1>5 DEF OfNewPin
  <2>3. Telling => Telling'
    <3>1. SUFFICES ASSUME NEW j \in DOMAIN toApp, OfNewPin(toApp[j]) PROVE Telling'
      BY DEF Telling
    <3>2. j # 1
      BY <1>3, <2>2, <3>1
    <3>3. j - 1 \in DOMAIN toApp' /\ toApp'[j - 1] = toApp[j]
      BY <1>2, <3>2, Taken
    <3> QED
      BY <3>1, <3>3 DEF Telling, OfNewPin
  <2> QED
    BY <1>2, <2>1, <2>3 DEF Aware, Fits
<1> QED
  BY <1>4, <1>5

LEMMA FitStatus ==
  ASSUME TypeOK, Founded, Aware, ReceiveStatus
  PROVE  Aware'
<1>1. PICK m : m = Head(toApp)
  OBVIOUS
<1>2. /\ toApp # <<>> /\ toApp' = Tail(toApp) /\ m.kind = "status"
      /\ UNCHANGED <<enrolled, serverPin>>
      /\ m.enrolled => longPin' = longPin
  BY <1>1 DEF ReceiveStatus
<1>3. 1 \in DOMAIN toApp /\ toApp[1] = m /\ m \in Event
  BY <1>1, <1>2, Taken
<1>4. ~OfNewPin(m) /\ (m = Status(TRUE) \/ m = Status(FALSE)) /\ Status(TRUE).enrolled = TRUE
  BY <1>2, <1>3 DEF OfNewPin, Event, Answer, Kind, Status, Fatal
<1>5. ASSUME NEW j \in DOMAIN toApp, OfNewPin(toApp[j]) PROVE Telling'
  <2>1. j # 1
    BY <1>3, <1>4, <1>5
  <2>2. j - 1 \in DOMAIN toApp' /\ toApp'[j - 1] = toApp[j]
    BY <1>2, <2>1, Taken
  <2> QED
    BY <1>5, <2>2 DEF Telling, OfNewPin
<1>6. CASE m = Status(TRUE)
  <2>1. longPin' = longPin
    BY <1>2, <1>4, <1>6
  <2> QED
    BY <1>2, <1>5, <2>1 DEF Aware, Fits, Telling
<1>7. CASE m = Status(FALSE) /\ enrolled
  <2>1. \E j \in DOMAIN toApp : OfNewPin(toApp[j])
    BY <1>3, <1>7 DEF Founded
  <2> QED
    BY <1>5, <2>1 DEF Aware
<1> QED
  BY <1>2, <1>4, <1>6, <1>7 DEF Aware

LEMMA FitFatal ==
  ASSUME TypeOK, Aware, ReceiveFatal
  PROVE  Aware'
<1>1. /\ toApp # <<>> /\ toApp' = Tail(toApp) /\ Head(toApp) = Fatal
      /\ UNCHANGED <<enrolled, serverPin, longPin>>
  BY DEF ReceiveFatal, FatalError
<1>2. ~OfNewPin(Fatal)
  BY DEF OfNewPin, Fatal
<1>3. ASSUME NEW j \in DOMAIN toApp, OfNewPin(toApp[j]) PROVE Telling'
  <2>1. j # 1
    BY <1>1, <1>2, <1>3, Taken
  <2>2. j - 1 \in DOMAIN toApp' /\ toApp'[j - 1] = toApp[j]
    BY <1>1, <2>1, Taken
  <2> QED
    BY <1>3, <2>2 DEF Telling, OfNewPin
<1> QED
  BY <1>1, <1>3 DEF Aware, Fits, Telling

LEMMA FitRestart ==
  ASSUME TypeOK, Single, Aware, Restart, ~unsure'
  PROVE  Aware'
<1>1. waiting["enroll"] = <<>> /\ waiting["change"] = <<>>
  BY RestartFacts
<1>2. \A x : x.kind \in {"enroll", "change"} => ~Awaited(x)
  BY <1>1 DEF Awaited
<1>3. ~Telling
  BY <1>2 DEF Single, AllAwaited, Telling, OfNewPin, IsAnswer, Kind
<1>4. UNCHANGED <<enrolled, serverPin, longPin>>
  BY <1>2, RestartFacts DEF Single, AllAwaited
<1> QED
  BY <1>3, <1>4 DEF Aware, Fits

LEMMA FitStep == FitInv /\ [Next]_vars => FitInv'
<1> SUFFICES ASSUME FitInv, [Next]_vars PROVE FitInv'
  OBVIOUS
<1>1. /\ TypeOK /\ Distinct /\ Asked /\ LastSuccess /\ Known /\ Founded
      /\ ~unsure => Single /\ Aware
  BY DEF FitInv
<1>2. TypeOK' /\ Distinct' /\ Asked' /\ LastSuccess' /\ Known' /\ Founded'
  BY <1>1, TypeStep, DistinctStep, KnownStep, FoundedStep
<1>3. ASSUME ~unsure' PROVE Single' /\ Aware'
  <2>1. CASE ReceiveAnswer /\ Head(toApp).outcome = "success" /\ Alone(Head(toApp))
    BY <1>1, <2>1, FitAlone DEF Aware
  <2>2. CASE ~(ReceiveAnswer /\ Head(toApp).outcome = "success" /\ Alone(Head(toApp)))
    <3>1. CASE ReceiveAnswer
      <4>1. ~unsure
        BY <1>3, <2>2, <3>1 DEF ReceiveAnswer
      <4> QED
        BY <1>1, <1>3, <3>1, <4>1, FitAnswer, SingleAnswer
    <3>2. ~unsure => Single'
      BY <1>1, <1>3, SingleStep
    <3>3. CASE Enroll \/ SubmitPin("pin") \/ SubmitPin("modal_pin") \/ ChangePin \/ VerifyOldPin
      <4>1. UNCHANGED <<toApp, enrolled, serverPin, longPin>> /\ ~unsure
        BY <1>1, <1>3, <3>3, WhoAsks DEF Asks, Ask
      <4> QED
        BY <1>1, <3>2, <4>1 DEF Aware, Fits, Telling
    <3>4. CASE Moves
      <4>1. UNCHANGED <<toApp, enrolled, serverPin, longPin>> /\ ~unsure
        BY <1>1, <1>3, <3>4, MovesKeep DEF keyshareVars
      <4> QED
        BY <1>1, <3>2, <4>1 DEF Aware, Fits, Telling
    <3>5. CASE ClearAllData
      <4>1. longPin' /\ ~unsure
        BY <1>1, <1>3, <3>5, ClearFacts
      <4> QED
        BY <3>2, <4>1 DEF Aware, Fits
    <3>6. CASE Handle
      <4>1. PICK c, n : Handled(c, n)
        BY <1>1, <3>6, HandledFacts
      <4>2. /\ UNCHANGED <<serverPin, longPin, unsure>> /\ (enrolled' = enrolled \/ enrolled' = FALSE)
            /\ \A i \in DOMAIN toApp : i \in DOMAIN toApp' /\ toApp'[i] = toApp[i]
        BY <4>1 DEF Handled
      <4>3. Telling => Telling'
        BY <4>2 DEF Telling, OfNewPin
      <4> QED
        BY <1>1, <1>3, <3>2, <4>2, <4>3 DEF Aware, Fits
    <3>7. CASE Serve
      <4>1. PICK c \in calls : \E a, n : Served(c, a, n)
        BY <1>1, <3>7, ServedFacts
      <4>2. PICK a, n : Served(c, a, n)
        BY <4>1
      <4>3. /\ UNCHANGED <<longPin, unsure>> /\ (serverPin' = serverPin \/ OfNewPin(a))
            /\ enrolled' = enrolled \/ OfNewPin(a)
            /\ n \in DOMAIN toApp' /\ toApp'[n] = a
            /\ \A i \in DOMAIN toApp : i \in DOMAIN toApp' /\ toApp'[i] = toApp[i]
        BY <4>2 DEF Served
      <4>4. (Telling => Telling') /\ (OfNewPin(a) => Telling')
        BY <4>3 DEF Telling, OfNewPin
      <4> QED
        BY <1>1, <1>3, <3>2, <4>3, <4>4 DEF Aware, Fits
    <3>8. CASE ReceiveStatus
      <4>1. ~unsure
        BY <1>3, <3>8 DEF ReceiveStatus, history
      <4> QED
        BY <1>1, <3>2, <3>8, <4>1, FitStatus
    <3>9. CASE Restart
      <4>1. ~unsure
        BY <1>3, <3>9 DEF Restart
      <4> QED
        BY <1>1, <1>3, <3>2, <3>9, <4>1, FitRestart
    <3>10. CASE ReceiveFatal
      <4>1. ~unsure
        BY <1>3, <3>10 DEF ReceiveFatal, FatalError
      <4> QED
        BY <1>1, <3>2, <3>10, <4>1, FitFatal
    <3> QED
      BY <3>1, <3>3, <3>4, <3>5, <3>6, <3>7, <3>8, <3>9, <3>10 DEF Next, User, Moves
  <2> QED
    BY <2>1, <2>2
<1> QED
  BY <1>2, <1>3 DEF FitInv

LEMMA FitInit == Init => FitInv
<1> SUFFICES ASSUME Init PROVE FitInv
  OBVIOUS
<1> DEFINE s == Status(enrolled)
<1>1. /\ toApp \in Welcome(enrolled) /\ calls = {} /\ toGo = <<>> /\ longPin = IsLong(serverPin)
      /\ enrolled \in BOOLEAN /\ status = "undetermined"
  BY Zenon DEF Init
<1>2. /\ ~IsAnswer(s) /\ IsStatus(s) /\ s.enrolled = enrolled /\ (s = Status(FALSE) => ~enrolled)
      /\ ~IsAnswer(Fatal) /\ ~IsStatus(Fatal) /\ Fatal # Status(FALSE)
  BY <1>1 DEF Status, Fatal, IsAnswer, IsStatus, Kind
<1> HIDE DEF s
<1>3. DOMAIN toApp = {1} /\ (toApp[1] = s \/ toApp[1] = Fatal) /\ DOMAIN toGo = {}
  BY <1>1, WelcomeFacts DEF s
<1>4. Distinct /\ Asked /\ LastSuccess /\ Known
  BY <1>1, <1>2, <1>3 DEF Distinct, Asked, LastSuccess, Known
<1>5. Founded
  BY <1>2, <1>3 DEF Founded
<1>6. Single /\ Fits
  BY <1>1, OwnInit DEF OwnInv, Init, Fits, IsLong
<1> QED
  BY <1>4, <1>5, <1>6, InitType DEF FitInv, Aware

\* Once nothing is under way, the PIN screen offers as many digits as the PIN of
\* the account has, unless the app cannot know that the PIN has changed: an
\* answer to a change got lost, or requests were made while others were open.
THEOREM FitsTheorem == Spec => []PinFits
<1>1. Init => FitInv
  BY FitInit
<1>2. FitInv /\ [Next]_vars => FitInv'
  BY FitStep
<1>3. FitInv => PinFits
  <2> SUFFICES ASSUME FitInv, Quiet, status = "enrolled", ~unsure, IsLong(serverPin)
               PROVE  longPin
    BY DEF PinFits
  <2>1. DOMAIN toApp = {} /\ enrolled \in BOOLEAN
    BY DEF Quiet, FitInv, TypeOK, KeyshareTypeOK
  <2>2. enrolled
    BY <2>1 DEF FitInv, Known
  <2>3. ~Telling
    BY <2>1 DEF Telling
  <2> QED
    BY <2>2, <2>3 DEF FitInv, Aware, Fits
<1> QED
  BY <1>1, <1>2, <1>3, PTL DEF Spec

=============================================================================
