------------------------------- MODULE AppLock --------------------------------
(***************************************************************************)
(* The lock of the app over the keyshare server: who asks for the PIN, who *)
(* takes the answers, when the app locks and unlocks, and what it          *)
(* remembers about the length of the PIN.                                  *)
(*                                                                         *)
(* Answers are not addressed.  Everyone who waits for an authentication    *)
(* takes the next answer to any, screens that were left included.          *)
(***************************************************************************)
EXTENDS Keyshare

VARIABLES
  locked,       \* _lockedSubject
  status,       \* the last EnrollmentStatusEvent
  longPin,      \* preference: the PIN does not have five digits
  screen,       \* the screen on top
  waiting,      \* by kind: requests whose answer a bloc or a repository call awaits
  submitted,    \* PINs the bloc of the change PIN screen has not got to
  oldPin,       \* ChangePinBloc: the PIN to replace
  crossed,      \* history: a request was made while another was under way
  unsure,       \* history: the PIN may have changed unnoticed
  entitled,     \* history: since the app started, the server took its PIN
  fatal         \* history: a fatal error opened the app, not locked again since

appVars == <<locked, status, longPin, screen, waiting, submitted, oldPin>>
history == <<crossed, unsure, entitled, fatal>>
vars == <<keyshareVars, appVars, history>>

ChangeScreens == {"enter_pin", "choose_pin", "change_error"}
Screen == {"loading", "enrollment", "pin", "modal_pin", "home"} \cup ChangeScreens

\* Who waits: a screen, or no one any more.
Waiter == [req : Request, pin : Pin,
           by : {"enrollment", "pin", "modal_pin", "enter_pin", "choose_pin", "gone"}]

TypeOK ==
  /\ KeyshareTypeOK
  /\ locked \in BOOLEAN
  /\ status \in {"undetermined", "enrolled", "unenrolled"}
  /\ longPin \in BOOLEAN
  /\ screen \in Screen
  /\ waiting \in [Kind -> Seq(Waiter)]
  /\ submitted \in Seq(Pin)
  /\ oldPin \in Pin
  /\ crossed \in BOOLEAN
  /\ unsure \in BOOLEAN
  /\ entitled \in BOOLEAN
  /\ fatal \in BOOLEAN

IsLong(pin) == pin \in LongPin

\* What the app first hears: the status, or that the bridge did not start, or
\* that its configuration lacks the scheme.
Welcome(e) == {<<Status(e)>>, <<Fatal>>}

\* An app that is enrolled or not, as its bridge starts.
Init ==
  /\ enrolled \in BOOLEAN
  /\ serverPin \in Pin
  /\ calls = {}
  /\ toGo = <<>>
  /\ toApp \in Welcome(enrolled)
  /\ locked = TRUE /\ status = "undetermined" /\ screen = "loading"
  /\ waiting = [k \in Kind |-> <<>>] /\ submitted = <<>>
  /\ longPin = IsLong(serverPin)
  /\ oldPin = serverPin
  /\ crossed = FALSE /\ unsure = FALSE /\ entitled = FALSE /\ fatal = FALSE

-----------------------------------------------------------------------------
(* Requests. *)

InSeq(s) == {s[i] : i \in DOMAIN s}
Waiters == UNION {InSeq(waiting[k]) : k \in Kind}
IsAnswer(m) == m.kind \in Kind

Outstanding ==
  {c.req : c \in calls \cup {d \in InSeq(toGo) : d # ClearAll}}
    \cup {m.req : m \in {e \in InSeq(toApp) : IsAnswer(e)}}
    \cup {w.req : w \in Waiters}

Waits(s) == \E w \in Waiters : w.by = s

\* bridgedDispatch of a request, and the subscription for its answer.
Ask(kind, old, pin, by) ==
  /\ \E n \in Request \ Outstanding :
       /\ \A m \in Request \ Outstanding : n <= m
       /\ toGo' = Append(toGo, [kind |-> kind, req |-> n, old |-> old, pin |-> pin])
       /\ waiting' = [waiting EXCEPT ![kind] = Append(@, [req |-> n, pin |-> pin, by |-> by])]
  /\ crossed' = (crossed \/ Waiters # {})
  /\ unsure' = (unsure \/ Outstanding # {})
  /\ UNCHANGED <<enrolled, serverPin, calls, toApp, entitled, fatal>>

\* enroll: the app is not locked from then on.
Enroll ==
  /\ screen = "enrollment" /\ status = "unenrolled" /\ ~Waits("enrollment")
  /\ \E pin \in Pin : Ask("enroll", pin, pin, "enrollment")
  /\ locked' = FALSE
  /\ UNCHANGED <<status, longPin, screen, submitted, oldPin>>

\* A PIN screen takes a PIN while it awaits no answer, and no more digits than
\* the app remembers.
SubmitPin(s) ==
  /\ screen = s /\ ~Waits(s)
  /\ \E pin \in Pin :
       /\ IsLong(pin) => longPin
       /\ Ask("verify", pin, pin, s)
  /\ UNCHANGED <<locked, status, longPin, screen, submitted, oldPin>>

\* The first step of the change PIN screen, which takes PINs at any time; both
\* of its blocs get them.  Bound: one PIN waits at a time.
SubmitOldPin ==
  /\ screen = "enter_pin" /\ submitted = <<>>
  /\ \E pin \in Pin :
       /\ IsLong(pin) => longPin
       /\ submitted' = Append(submitted, pin)
       /\ oldPin' = pin
  /\ UNCHANGED <<keyshareVars, history, locked, status, longPin, screen, waiting>>

\* VerifyOldPinBloc takes PINs one by one, also when its screen is gone.
VerifyOldPin ==
  /\ submitted # <<>> /\ ~Waits("enter_pin")
  /\ Ask("verify", Head(submitted), Head(submitted), "enter_pin")
  /\ submitted' = Tail(submitted)
  /\ UNCHANGED <<locked, status, longPin, screen, oldPin>>

\* The new PIN has been entered twice and confirmed.  Bound: one is confirmed
\* at a time.
ChangePin ==
  /\ screen = "choose_pin" /\ ~Waits("choose_pin")
  /\ \E pin \in Pin : Ask("change", oldPin, pin, "choose_pin")
  /\ UNCHANGED <<locked, status, longPin, screen, submitted, oldPin>>

\* From the settings, or from a PIN screen for who forgot it: ClearAllDataEvent
\* unlocks and clears preferences before Go has heard of it.  Bound: one at a
\* time.
ClearAllData ==
  /\ screen \in {"home", "pin", "modal_pin"}
  /\ ClearAll \notin InSeq(toGo) /\ Status(FALSE) \notin InSeq(toApp)
  /\ toGo' = Append(toGo, ClearAll)
  /\ locked' = FALSE
  /\ longPin' = TRUE
  /\ entitled' = TRUE
  /\ unsure' = (unsure \/ Outstanding # {})
  /\ UNCHANGED <<enrolled, serverPin, calls, toApp, status, screen, waiting,
                 submitted, oldPin, crossed, fatal>>

-----------------------------------------------------------------------------
(* Screens. *)

\* The screens in gone are left; what they wait for goes on, for no one.
LeftBy(gone) ==
  [k \in Kind |-> [i \in DOMAIN waiting[k] |->
     IF waiting[k][i].by \in gone THEN [waiting[k][i] EXCEPT !.by = "gone"] ELSE waiting[k][i]]]

GoTo(s) == screen' = s /\ UNCHANGED <<keyshareVars, history, locked, status, longPin, submitted, oldPin>>

\* The scanner on the PIN screen asks for the PIN once more, on top of it.
OpenModalPin == screen = "pin" /\ GoTo("modal_pin") /\ UNCHANGED waiting

CloseModalPin ==
  /\ screen = "modal_pin"
  /\ GoTo("pin")
  /\ waiting' = LeftBy({"modal_pin"})

\* Bound: the blocs of an earlier change PIN screen are done.
OpenChangePin ==
  /\ screen = "home" /\ status = "enrolled"
  /\ submitted = <<>> /\ ~Waits("enter_pin") /\ ~Waits("choose_pin")
  /\ GoTo("enter_pin") /\ UNCHANGED waiting

LeaveChangePin == screen \in ChangeScreens /\ GoTo("home") /\ UNCHANGED waiting

\* lock, by the user on the home screen or after a while in the background, and
\* the redirect that follows from it.
Lock ==
  /\ ~locked
  /\ screen = "home" \/ status = "enrolled"
  /\ locked' = TRUE
  /\ screen' = IF screen \in {"home"} \cup ChangeScreens THEN "pin" ELSE screen
  /\ fatal' = FALSE
  /\ UNCHANGED <<keyshareVars, crossed, unsure, entitled, status, longPin, waiting,
                 submitted, oldPin>>

-----------------------------------------------------------------------------
(* Answers and events: _eventListener, and who waits for them. *)

TakenBy(kind, s) == \E w \in InSeq(waiting[kind]) : w.by = s

\* Variant with a fault: who waits does not listen for errors.
TellUnlessError(m) ==
  waiting' = IF m.outcome = "error" THEN waiting ELSE [waiting EXCEPT ![m.kind] = <<>>]

\* Everyone who waits for the kind takes the answer.
Tell(m) == waiting' = [waiting EXCEPT ![m.kind] = <<>>]

\* Variant with a fault: a success is not remembered.
RememberNothing(m) == UNCHANGED longPin

\* Whoever takes a success remembers the length of the PIN it asked for.
Remember(m) ==
  LET takers == waiting[m.kind]
  IN  longPin' = IF m.outcome = "success" /\ takers # <<>>
                   THEN IsLong(takers[Len(takers)].pin) ELSE longPin

\* It was the only request, of the only one who waits.
Alone(m) == Outstanding = {m.req} /\ Len(waiting[m.kind]) = 1 /\ Tail(toApp) = <<>>

\* Variant with a fault: a PIN that is refused unlocks as well.
UnlockAnyway(m) == locked' = (locked /\ m.kind # "verify")

Unlock(m) == locked' = (locked /\ ~(m.kind = "verify" /\ m.outcome = "success"))

\* The screen after an answer.  The change PIN screen locks the app when no
\* attempts are left.
AfterVerify(m) ==
  CASE m.outcome = "success" /\ TakenBy("verify", "pin") -> "home"
    [] m.outcome = "success" /\ TakenBy("verify", "modal_pin") -> "pin"
    [] TakenBy("verify", "enter_pin") /\ screen \in ChangeScreens ->
         (CASE m.outcome = "success" -> "choose_pin"
            [] m.outcome = "failed" -> "enter_pin"
            [] m.outcome = "blocked" -> "pin"
            [] m.outcome = "error" -> "change_error")
    [] OTHER -> screen

ReceiveVerify(m) ==
  /\ m.kind = "verify"
  /\ screen' = AfterVerify(m)
  /\ IF m.outcome = "blocked" /\ TakenBy("verify", "enter_pin") /\ screen \in ChangeScreens
       THEN locked' = TRUE /\ fatal' = FALSE
       ELSE Unlock(m) /\ UNCHANGED fatal
  /\ UNCHANGED status

ReceiveChange(m) ==
  /\ m.kind = "change"
  /\ screen' = IF TakenBy("change", "choose_pin") /\ screen \in ChangeScreens
                 THEN (IF m.outcome = "success" THEN "home" ELSE "change_error") ELSE screen
  /\ UNCHANGED <<locked, status, fatal>>

ReceiveEnroll(m) ==
  /\ m.kind = "enroll"
  /\ screen' = IF TakenBy("enroll", "enrollment") /\ m.outcome = "success"
                 THEN (IF locked THEN "pin" ELSE "home") ELSE screen
  /\ UNCHANGED <<locked, status, fatal>>

\* Takers are told, and the history knows whether the length is right again.
ReceiveAnswer ==
  /\ toApp # <<>> /\ IsAnswer(Head(toApp))
  /\ LET m == Head(toApp)
     IN  /\ ReceiveVerify(m) \/ ReceiveChange(m) \/ ReceiveEnroll(m)
         /\ Remember(m)
         /\ Tell(m)
         /\ unsure' = IF m.outcome = "success" /\ Alone(m) THEN FALSE
                      ELSE unsure \/ (m.kind = "change" /\ m.outcome = "error")
  /\ toApp' = Tail(toApp)
  /\ UNCHANGED <<enrolled, serverPin, calls, toGo, submitted, oldPin, entitled>>
  /\ crossed' = (crossed /\ Outstanding' # {})

\* Not enrolled: the enrollment screen takes over, with five digits for a start.
ReceiveStatus ==
  /\ toApp # <<>> /\ Head(toApp).kind = "status"
  /\ toApp' = Tail(toApp)
  /\ \/ /\ Head(toApp).enrolled
        /\ status' = "enrolled"
        /\ screen' = IF screen # "loading" THEN screen ELSE IF locked THEN "pin" ELSE "home"
        /\ UNCHANGED <<locked, longPin, waiting>>
     \/ /\ ~Head(toApp).enrolled
        /\ status' = "unenrolled"
        /\ locked' = FALSE
        /\ screen' = "enrollment"
        /\ longPin' = (longPin /\ screen = "enrollment")
        /\ waiting' = LeftBy({"pin", "modal_pin"})
  /\ UNCHANGED <<enrolled, serverPin, calls, toGo, submitted, oldPin, history>>

\* A fatal error is shown by the loading screen, and opens the app.
FatalError ==
  /\ locked' = FALSE
  /\ fatal' = TRUE
  /\ UNCHANGED <<enrolled, serverPin, calls, toGo, status, longPin, screen, waiting,
                 submitted, oldPin, crossed, unsure, entitled>>

ReceiveFatal ==
  /\ toApp # <<>> /\ Head(toApp) = Fatal
  /\ toApp' = Tail(toApp)
  /\ FatalError

\* Fifteen seconds have passed on the loading screen.
TimeOut == screen = "loading" /\ FatalError /\ UNCHANGED toApp

\* The server accepts a PIN, or makes an account for it.
Serve ==
  /\ ServerAnswers
  /\ entitled' = \/ entitled
                 \/ /\ toApp'[Len(toApp')].outcome = "success"
                    /\ \E c \in calls \ calls' : c.kind = "enroll" \/ Accepts(c.pin)
  /\ UNCHANGED <<appVars, crossed, unsure, fatal>>

Handle == DispatchFromNative /\ UNCHANGED <<appVars, history>>

\* The process ends and the app starts again.
Restart ==
  /\ Crash
  /\ toApp' \in Welcome(enrolled')
  /\ locked' = TRUE /\ status' = "undetermined" /\ screen' = "loading"
  /\ waiting' = [k \in Kind |-> <<>>] /\ submitted' = <<>>
  /\ UNCHANGED <<longPin, oldPin>>
  /\ crossed' = FALSE /\ entitled' = FALSE /\ fatal' = FALSE
  /\ unsure' = (unsure \/ waiting["enroll"] # <<>> \/ waiting["change"] # <<>>)

-----------------------------------------------------------------------------
User ==
  \/ Enroll \/ SubmitPin("pin") \/ SubmitPin("modal_pin") \/ SubmitOldPin \/ ChangePin
  \/ ClearAllData \/ OpenModalPin \/ CloseModalPin \/ OpenChangePin \/ LeaveChangePin
  \/ Lock

Next ==
  \/ User
  \/ VerifyOldPin \/ Handle \/ Serve
  \/ ReceiveAnswer \/ ReceiveStatus \/ ReceiveFatal \/ TimeOut
  \/ Restart

Spec == Init /\ [][Next]_vars

\* The bridge and the event loop go on, and irmaclient answers in the end: its
\* requests to the server time out.
Fairness ==
  /\ WF_vars(Handle) /\ WF_vars(Serve) /\ WF_vars(VerifyOldPin)
  /\ WF_vars(ReceiveAnswer) /\ WF_vars(ReceiveStatus) /\ WF_vars(ReceiveFatal)

FairSpec == Spec /\ Fairness

-----------------------------------------------------------------------------
Quiet == Outstanding = {} /\ toApp = <<>> /\ toGo = <<>> /\ submitted = <<>>

\* The PIN of the account fits on the PIN screen, which offers five digits
\* unless the app remembers a longer one.
PinFits ==
  Quiet /\ status = "enrolled" /\ ~unsure => (IsLong(serverPin) => longPin)

\* Unless requests cross, whoever waits takes the answer to its own request.
AnswersAreOwn ==
  toApp # <<>> /\ IsAnswer(Head(toApp)) /\ ~crossed =>
    \A w \in InSeq(waiting[Head(toApp).kind]) : w.req = Head(toApp).req

\* An app with an account is open only after the server took its PIN, or made
\* the account, or the user had everything deleted; or since a fatal error.
OpenAfterPin == ~locked /\ status = "enrolled" => entitled \/ fatal

\* "Fatal events are unrecoverable, so closing the error is not possible"
\* (error_screen.dart): the app stays on the screen that shows the error.
FatalIsUnrecoverable == fatal => screen = "loading"

\* The screen the user looks at does not wait for an answer for ever.
WaitersAreAnswered == []<>~Waits(screen)

=============================================================================
