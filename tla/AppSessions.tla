---------------------------- MODULE AppSessions -----------------------------
(***************************************************************************)
(* The app's half of a session: the repository with the state of every     *)
(* session, the session screens on the navigation stack with what each of  *)
(* them shows, the PIN bloc, and the user who taps.                        *)
(*                                                                         *)
(* Dart is single-threaded, so a handler with the microtasks it queues is  *)
(* one action: no platform message is delivered in between.  What a screen *)
(* shows is up to one frame older than the state: with FrameLag a tap may  *)
(* land before the frame that shows the latest state is painted.           *)
(***************************************************************************)
EXTENDS SessionChannels

CONSTANTS
  SecondDevice,  \* sessions started with continueOnSecondDevice
  Launched,      \* sessions that issue what the user went for in the store
  IOS,           \* Platform.isIOS
  FrameLag,      \* taps may land on a screen a state change has outdated
  MaxPending     \* bound: the user taps while fewer messages wait for Go

ASSUME AppAssumption ==
  /\ SecondDevice \subseteq Session
  /\ Launched \subseteq {s \in Session : Kind[s] # "disclosing"}
  /\ IOS \in BOOLEAN
  /\ FrameLag \in BOOLEAN
  /\ MaxPending \in Nat

VARIABLES
  states,      \* SessionRepository: state per session ID
  emitted,     \* the last state the screen's stream let through
  painted,     \* the state in the frame the user sees
  stack,       \* session screens, the visible one last
  leaving,     \* screens off the stack whose dispose is still to come
  underlying,  \* hasUnderlyingSession in the arguments of a screen
  pin,         \* PinBloc of the session PIN screen
  backs,       \* PIN screens where a back gesture waits for the bloc
  confirmed,   \* history: choices the user confirmed at the disclosure overview
  given        \* history: sessions whose issuance the user agreed to

appVars == <<states, emitted, painted, stack, leaving, underlying, pin, backs,
             confirmed, given>>

PinState == {"closed", "idle", "busy", "authenticated"}

OnStack(s) == \E i \in DOMAIN stack : stack[i] = s

AppTypeOK ==
  /\ states \in [Session -> State]
  /\ emitted \in [Session -> State]
  /\ painted \in [Session -> State]
  /\ stack \in Seq(Session)
  /\ leaving \subseteq Session
  /\ underlying \in [Session -> BOOLEAN]
  /\ pin \in [Session -> PinState]
  /\ backs \subseteq Session
  /\ confirmed \in [Session -> SUBSET Wallet]
  /\ given \subseteq Session

AppInit ==
  /\ states = [s \in Session |-> Absent]
  /\ emitted = [s \in Session |-> Absent]
  /\ painted = [s \in Session |-> Absent]
  /\ stack = <<>>
  /\ leaving = {}
  /\ underlying = [s \in Session |-> FALSE]
  /\ pin = [s \in Session |-> "closed"]
  /\ backs = {}
  /\ confirmed = [s \in Session |-> {}]
  /\ given = {}

-----------------------------------------------------------------------------
(* The repository and the stream of a screen. *)

\* Variant with a fault: no exception for the disclosure permission.
EmitsOnStatusChange(prev, st) == prev.status # st.status

\* The distinct filter in build(): prev is the last state it let through.
Emits(prev, st) ==
  \/ prev.status # st.status
  \/ st.status = "requestDisclosurePermission"

\* The session repository publishes st as the next state of s.
SetState(s, st) ==
  /\ states' = [states EXCEPT ![s] = st]
  /\ emitted' = IF st # states[s] /\ Emits(emitted[s], st)
                THEN [emitted EXCEPT ![s] = st]
                ELSE emitted

\* Navigator.pop: the topmost route goes, whichever screen asks for it.
PopTop ==
  /\ stack' = SubSeq(stack, 1, Len(stack) - 1)
  /\ leaving' = leaving \union {stack[Len(stack)]}

\* goHomeScreen: every screen above the home screen goes.
GoHome ==
  /\ stack' = <<>>
  /\ leaving' = leaving \union {stack[i] : i \in DOMAIN stack}

Stay == UNCHANGED <<stack, leaving>>

\* _popToUnderlyingOrHome outside an issue wizard.
PopToUnderlyingOrHome(s) == IF underlying[s] THEN PopTop ELSE GoHome

-----------------------------------------------------------------------------
(* Frames. *)

\* didIssuePreviouslyLaunchedCredential: known once the request is in.
DidIssueLaunched(s, st) == s \in Launched /\ st.asked

\* The outcome stays on screen, the session has no caller to return to.
StaysInApp(s, st) ==
  s \in SecondDevice \/ (DidIssueLaunched(s, st) /\ Kind[s] = "issuing")

\* What _buildFinished does with session s in state st: navigate, open the
\* return URL, or show a screen that waits for the user.
FinishOutcome(s, st) ==
  LET success == st.status = "success"
      issues == IsIssuanceSession(s)
      overlay == issues /\ underlying[s]
      phone == ~overlay /\ st.url = "phone"
      here == ~overlay /\ ~phone /\ StaysInApp(s, st)
      opens == ~overlay /\ ~here /\ st.url \in {"web", "inApp"}
  IN  CASE overlay -> "pop"
        [] phone /\ success -> "call"
        [] phone /\ ~success /\ issues -> "home"
        [] here /\ issues -> IF success THEN "feedback" ELSE "pop"
        [] (here \/ (phone /\ ~success)) /\ ~issues ->
             IF st.dismissed THEN "pop" ELSE "feedback"
        [] opens -> "open"
        [] OTHER -> CASE DidIssueLaunched(s, st) \/ underlying[s] -> "pop"
                      [] OTHER -> IF IOS THEN "arrow" ELSE "home"

\* The PIN screen keeps its bloc over frames in which it is shown.
PinAfterFrame(s, st) ==
  CASE st.status # "requestPin" -> "closed"
    [] st.status = "requestPin" /\ pin[s] # "closed" -> pin[s]
    [] OTHER -> "idle"

\* Opening the return URL: the in-app browser after popping, another app
\* before it; the failure is reported to the session as a local event.
OpenReturnURL(s) ==
  LET failed == SetState(s, OpenFailed(states[s]))
  IN  \/ PopToUnderlyingOrHome(s) /\ UNCHANGED <<states, emitted>>
      \/ emitted[s].url = "inApp" /\ PopToUnderlyingOrHome(s) /\ failed
      \/ emitted[s].url = "web" /\ Stay /\ failed

\* A frame in which the screen of s builds the latest state it was sent,
\* with the navigation its post-frame callbacks do.
Paint(s) ==
  /\ OnStack(s)
  /\ painted[s] # emitted[s]
  /\ painted' = [painted EXCEPT ![s] = emitted[s]]
  /\ pin' = [pin EXCEPT ![s] = PinAfterFrame(s, emitted[s])]
  /\ backs' = IF emitted[s].status = "requestPin" THEN backs ELSE backs \ {s}
  /\ LET outcome == IF emitted[s].status \in {"success", "canceled"}
                    THEN FinishOutcome(s, emitted[s]) ELSE "none"
     IN  \/ outcome \notin {"pop", "home", "open"} /\ Stay /\ UNCHANGED <<states, emitted>>
         \/ outcome = "pop" /\ PopTop /\ UNCHANGED <<states, emitted>>
         \/ outcome = "home" /\ GoHome /\ UNCHANGED <<states, emitted>>
         \/ outcome = "open" /\ OpenReturnURL(s)
  /\ UNCHANGED <<underlying, confirmed, given, channels>>

\* Variant with a fault: a screen that awaits permission is not dismissed.
DisposeKeepingRequest(s) ==
  /\ s \in leaving
  /\ leaving' = leaving \ {s}
  /\ IF IsFinished(states[s]) \/ states[s].status = "requestDisclosurePermission"
     THEN UNCHANGED toGo
     ELSE Bridge(MessageOf("DismissSession", s))
  /\ pin' = [pin EXCEPT ![s] = "closed"]
  /\ backs' = backs \ {s}
  /\ UNCHANGED <<states, emitted, painted, stack, underlying, confirmed, given,
                 toDart>>

\* dispose, once the route has left: an unfinished session is dismissed.
Dispose(s) ==
  /\ s \in leaving
  /\ leaving' = leaving \ {s}
  /\ IF IsFinished(states[s])
     THEN UNCHANGED toGo
     ELSE Bridge(MessageOf("DismissSession", s))
  /\ pin' = [pin EXCEPT ![s] = "closed"]
  /\ backs' = backs \ {s}
  /\ UNCHANGED <<states, emitted, painted, stack, underlying, confirmed, given,
                 toDart>>

-----------------------------------------------------------------------------
(* The user. *)

\* The screen for an outcome; a loading indicator if it leaves by itself.
OutcomeScreen(s) ==
  IF painted[s].status \in {"success", "canceled"}
  THEN FinishOutcome(s, painted[s]) ELSE "none"

Leaves(s) == OutcomeScreen(s) \in {"pop", "home", "open"}

\* Screens with a PopScope hold the back gesture: the disclosure with its
\* feedback, feedback on an outcome, the call information, the PIN.
HoldsBack(s) ==
  \/ painted[s].status = "requestDisclosurePermission"
  \/ OutcomeScreen(s) \in {"feedback", "call"}
  \/ pin[s] # "closed"

\* Every screen shows the latest state it was sent.
Settled == \A i \in DOMAIN stack : painted[stack[i]] = emitted[stack[i]]

\* The user can tap on the screen of s.
CanTap(s) ==
  /\ stack # <<>>
  /\ stack[Len(stack)] = s
  /\ FrameLag \/ Settled
  /\ Len(toGo) < MaxPending

\* _startSessionAndNavigate: a pointer arrives by QR code or link.
StartSession(s) ==
  /\ states[s].status = "absent"
  /\ Len(toGo) < MaxPending
  /\ underlying' = [underlying EXCEPT ![s] = HasActiveSessions(states)]
  /\ states' = [states EXCEPT ![s] = NewSessionState]
  /\ emitted' = [emitted EXCEPT ![s] = NewSessionState]
  /\ painted' = [painted EXCEPT ![s] = NewSessionState]
  /\ stack' = Append(stack, s)
  /\ Bridge(MessageOf("NewSession", s))
  /\ UNCHANGED <<leaving, pin, backs, confirmed, given, toDart>>

\* The close button of the loading, pairing and issuance permission screens.
DismissSession(s) ==
  /\ CanTap(s)
  /\ \/ painted[s].status \in
          {"initialized", "communicating", "pairing", "requestIssuancePermission"}
     \/ Leaves(s)
  /\ Bridge(MessageOf("DismissSession", s))
  /\ UNCHANGED <<appVars, toDart>>

\* The confirmation of the disclosure overview: a session that also issues
\* goes on to the issuance permission, without a word to Go.
ConfirmDisclosure(s) ==
  LET c == states[s].candidates
  IN  /\ CanTap(s)
      /\ painted[s].status = "requestDisclosurePermission"
      /\ CanBeFinished(s, painted[s])
      /\ states[s].status = "requestDisclosurePermission"
      /\ Satisfiable(s, states[s])
      /\ confirmed' = [confirmed EXCEPT ![s] = @ \union {c}]
      /\ IF IsIssuanceSession(s)
         THEN /\ SetState(s, ContinuedToIssuance(states[s], c))
              /\ UNCHANGED toGo
         ELSE /\ SetState(s, PermissionResponded(states[s], TRUE, c))
              /\ Bridge(Respond("RespondPermission", s, TRUE, c))
      /\ UNCHANGED <<painted, stack, leaving, underlying, pin, backs, given, toDart>>

\* Variant with a fault: the answer to the dialog is taken the wrong way round.
DeclineDisclosureProceeding(s) ==
  /\ CanTap(s)
  /\ painted[s].status = "requestDisclosurePermission"
  /\ CanBeFinished(s, painted[s])
  /\ SetState(s, PermissionResponded(states[s], TRUE, NoChoice))
  /\ Bridge(Respond("RespondPermission", s, TRUE, NoChoice))
  /\ UNCHANGED <<painted, stack, leaving, underlying, pin, backs, confirmed, given,
                 toDart>>

\* The close dialog of the disclosure: accepted in every state of the bloc.
DeclineDisclosure(s) ==
  /\ CanTap(s)
  /\ painted[s].status = "requestDisclosurePermission"
  /\ CanBeFinished(s, painted[s])
  /\ SetState(s, PermissionResponded(states[s], FALSE, NoChoice))
  /\ Bridge(Respond("RespondPermission", s, FALSE, NoChoice))
  /\ UNCHANGED <<painted, stack, leaving, underlying, pin, backs, confirmed, given,
                 toDart>>

\* _giveIssuancePermission answers with the choices of the painted state.
GiveIssuancePermission(s) ==
  LET c == painted[s].choices
  IN  /\ CanTap(s)
      /\ painted[s].status = "requestIssuancePermission"
      /\ Satisfiable(s, painted[s])
      /\ given' = given \union {s}
      /\ SetState(s, PermissionResponded(states[s], TRUE, c))
      /\ Bridge(Respond("RespondPermission", s, TRUE, c))
      /\ UNCHANGED <<painted, stack, leaving, underlying, pin, backs, confirmed, toDart>>

\* Variant with a fault: the bloc takes its own RespondPinEvent for the answer.
SubmitPinAndTakeOwnEvent(s) ==
  /\ CanTap(s)
  /\ pin[s] = "idle"
  /\ pin' = [pin EXCEPT ![s] = "authenticated"]
  /\ Bridge(Respond("RespondPin", s, TRUE, NoChoice))
  /\ UNCHANGED <<states, emitted, painted, stack, leaving, underlying,
                 backs, confirmed, given, toDart>>

\* SessionPin.dispatch: sends the PIN, then waits for an event of the session.
SubmitPin(s) ==
  /\ CanTap(s)
  /\ pin[s] = "idle"
  /\ pin' = [pin EXCEPT ![s] = "busy"]
  /\ Bridge(Respond("RespondPin", s, TRUE, NoChoice))
  /\ UNCHANGED <<states, emitted, painted, stack, leaving, underlying,
                 backs, confirmed, given, toDart>>

\* _cancel, the back button of the PIN screen; enabled while a PIN is checked.
CancelPin(s) ==
  /\ CanTap(s)
  /\ pin[s] # "closed"
  /\ Bridge(Respond("RespondPin", s, FALSE, NoChoice))
  /\ UNCHANGED <<appVars, toDart>>

\* The button of a screen that waits for the user, or leaving the app from it:
\* an outcome, an error, or a disclosure that can never be finished.
CloseScreen(s) ==
  /\ CanTap(s)
  /\ \/ IsFinished(painted[s]) /\ ~Leaves(s)
     \/ /\ painted[s].status = "requestDisclosurePermission"
        /\ ~CanBeFinished(s, painted[s])
  /\ GoHome
  /\ UNCHANGED <<states, emitted, painted, underlying, pin, backs, confirmed,
                 given, channels>>

\* The call button of CallInfoScreen when the phone cannot be opened;
\* otherwise it closes the screen.
FailToCall(s) ==
  /\ CanTap(s)
  /\ OutcomeScreen(s) = "call"
  /\ SetState(s, OpenFailed(states[s]))
  /\ UNCHANGED <<painted, stack, leaving, underlying, pin, backs, confirmed,
                 given, channels>>

\* The system's back gesture, where no PopScope of the screen holds it.
GoBack(s) ==
  /\ CanTap(s)
  /\ ~HoldsBack(s)
  /\ PopTop
  /\ UNCHANGED <<states, emitted, painted, underlying, pin, backs, confirmed,
                 given, channels>>

\* The back gesture on the PIN screen: its handler waits for the next state
\* of the bloc in which no PIN is being checked.
GoBackFromPin(s) ==
  /\ CanTap(s)
  /\ pin[s] # "closed"
  /\ backs' = backs \union {s}
  /\ UNCHANGED <<states, emitted, painted, stack, leaving, underlying, pin,
                 confirmed, given, channels>>

-----------------------------------------------------------------------------
(* Events of the bridge. *)

\* What the pending SessionPin future makes of the first event of its session.
PinAfterEvent(s, e) ==
  IF e.id = s /\ pin[s] = "busy"
  THEN IF e.type \in {"RequestPin", "KeyshareBlocked"} THEN "idle" ELSE "authenticated"
  ELSE pin[s]

\* _handleInvalidPin without attempts left: go home (and lock the app).
BlocksPin(s, e) ==
  /\ pin[s] = "busy"
  /\ e.type = "KeyshareBlocked" \/ (e.type = "RequestPin" /\ e.left = 0)

\* The back gestures that waited for the bloc to settle: they cancel unless
\* the PIN was accepted.
ReleaseBacks(s, settled) ==
  IF s \in backs /\ pin[s] = "busy"
  THEN /\ backs' = backs \ {s}
       /\ IF settled = "idle"
          THEN Bridge(Respond("RespondPin", s, FALSE, NoChoice))
          ELSE UNCHANGED toGo
  ELSE UNCHANGED <<backs, toGo>>

\* An event of Go reaches the repository and the PIN bloc.
ReceiveEvent ==
  /\ toDart # <<>>
  /\ LET e == Head(toDart)
         s == e.id
     IN  /\ IF states[s].status = "absent"
            THEN UNCHANGED <<states, emitted>>
            ELSE SetState(s, EventHandler(states[s], e))
         /\ pin' = [pin EXCEPT ![s] = PinAfterEvent(s, e)]
         /\ ReleaseBacks(s, PinAfterEvent(s, e))
         /\ IF BlocksPin(s, e) THEN GoHome ELSE Stay
  /\ toDart' = Tail(toDart)
  /\ UNCHANGED <<painted, underlying, confirmed, given>>

AppSystem ==
  \/ \E s \in Session : Paint(s) \/ Dispose(s)
  \/ ReceiveEvent

User ==
  \E s \in Session :
    \/ StartSession(s) \/ DismissSession(s) \/ ConfirmDisclosure(s)
    \/ DeclineDisclosure(s) \/ GiveIssuancePermission(s) \/ SubmitPin(s)
    \/ CancelPin(s) \/ GoBackFromPin(s) \/ CloseScreen(s) \/ FailToCall(s)
    \/ GoBack(s)

=============================================================================
