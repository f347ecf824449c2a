# A formal model of the IRMA app and its bridge

These modules model irmamobile (the Yivi/IRMA app): the Flutter app, the Go
bridge `irmagobridge` and, seen from the bridge, the Go library `irmaclient`.
There are five models: the sessions of the app, the walk of the user through one
disclosure request, the life cycle of the bridge, the lock of the app over the
keyshare server, and the activity list.  TLC checks them on small instances.  For
every instance TLAPS proves the safety of four of them, nearly all of that of the
walk, for the requests for which the code has it, and that the sessions implement
an abstract specification.

## 1. The system

| component | code | state | operations |
|---|---|---|---|
| session state and reducer | `session_repository.dart`, `session_state.dart` | a `SessionState` per session ID | one branch of `_eventHandler` per event, `hasActiveSessions` |
| session screen | `session_screen.dart`, `handle_pointer.dart`, `navigation.dart` | the navigation stack, what each screen was last sent and has painted, `hasUnderlyingSession` | `build`, `dispose`, `_giveIssuancePermission`, `_dismissSession`, the navigation of a finished session |
| session PIN screen and bloc | `session_pin_screen.dart`, `pin/bloc/` | idle, busy, authenticated; back gestures that wait | submit, cancel, back gesture, the answer |
| disclosure permission bloc | `disclosure/` | the state of the walk with its chain of parent states, the credentials added since it began | one branch of `mapEventToState` per event of a screen; `_mapSessionStateToBlocState` at every change of the session |
| platform channel | `irma_client_bridge.dart`, `IrmaMobileBridge.java`, `IrmaMobileBridgePlugin.swift` | calls under way, in order per direction | `bridgedDispatch`, `dispatchEvent` |
| Go event handler | `event_handler.go`, `receive_event.go` | `sessionLookup`, goroutines | `newSession`, `respondPermission`, `respondPin`, `dismissSession` and the events without a session |
| Go session handler | `session_handler.go` | `permissionHandler`, `pinHandler`, `dismisser` | the callbacks of `irmaclient.Handler` |
| irmaclient | external | the session protocol, the wallet | asks, answers, ends |
| bridge life cycle | `bridge.go`, `receive_event.go`, `MainActivity.java`, `IrmaMobileBridge.java` | `client`, `clientErr`, `clientLoaded`, `bridge`; per activity `appReady`, `initialURL`, `nativeError` | `Start`, `Stop`, `onMethodCall`, `onNewIntent`, `AppReadyEvent` |
| app lock and routing | `irma_repository.dart`, `app.dart`, `routing.dart`, `pin_bloc.dart` | locked, enrollment status, remembered length of the PIN, futures that wait | `lock`, `unlock`, `ClearAllDataEvent`, redirect |
| enrollment, change PIN | `enrollment/`, `change_pin/`, `event_handler.go`, `client_handler.go` | old PIN, step of the screen | `enroll`, `authenticate`, `changePin`, their callbacks |
| activity history | `activity/`, `loadLogs` of `event_handler.go` | the list, loading, more available | load newest, load before, start over |
| issue wizard | `issue_wizard/`, `models/issue_wizard.dart` | items, active item, session | next, complete |
| notifications, wallet views | `notifications/`, `data/` | flags | load, cache, mark read |
| PIN quality | `pin/yivi_pin_screen.dart` | none | pure predicates on digit lists |

How they interact: the app is one Dart isolate.  An event it raises goes to the
repository at once (`dispatch`) and, if bridged, to Go over the platform
channel; Go handles events one at a time on the UI thread, starts a goroutine
for each answer to irmaclient, and irmaclient calls the session handler from
threads of its own.  What irmaclient has to say comes back over the channel,
goes through the reducer, and reaches the screens through streams.  A screen
paints a frame after the state has changed, and the user taps on what is
painted.

What is hard here: a question, its answer, a refreshed question and a
cancellation may all be under way at once; the choices of a session that
discloses and issues never leave the app until a later screen sends them;
screens leave the stack before they are disposed of; a finished screen
navigates for all of them; and the Go side has no say in any of this.  The
list of hazards, each at its line, is in `PROJECT.json`.

Per component, what makes it correct:

* reducer: outcomes are final and those irmaclient reported; unknown statuses
  change nothing;
* screens: what asks the user is what the repository holds; an open question is
  visible; a session whose screen is gone does not stay open;
* bridge: no answer is refused for want of a handler; answers reach the session
  they are for;
* disclosure walk: what is confirmed is what irmaclient offers and the user
  chose; a wizard that is done leads on; what was chosen or obtained survives
  the refreshes of a session that goes on underneath;
* bridge life cycle: every start is answered, once, with a status or a fatal
  error; a link reaches the app however early it comes; the answers of one
  activity do not end up with another, and its sessions are not lost over those of
  another; the UI thread does not wait for good;
* app lock: an app with an account opens only for who knows the PIN; whoever asks
  is answered, and with the answer to its own request; the PIN screen takes PINs
  as long as that of the account;
* activity history: the list is the newest entries, in order, each once, and
  what it calls the end is the end;
* the whole: nothing is disclosed or issued without the user's consent, the
  user's own choices are what is disclosed, and the app reports the end there was.

## 2. The modules

```
SessionContract        what a session promises (abstract)
      ^ refinement (SessionRefinement)
SessionFlow            app + bridge + irmaclient, fairness, properties
  AppSessions          repository, screens, PIN bloc, user
  BridgeSessions       event handler, session handlers, goroutines, irmaclient
    SessionChannels    the two FIFO directions
      SessionState     SessionState and the reducer, no variables
SessionFlowProofs      types, consent, and lemmas: what one step does to one session
  SessionMessagesProofs  messages, their handlers and their order
  SessionContractProofs  outcomes, open questions, the refinement
MCSessionFlow          instances for TLC

DisclosureFlow         the disclosure permission bloc and its screens
  DisclosureCandidates candidates, options and the choice among them, no variables
DisclosureFlowProofs   types, the stack of states, reports
DisclosureAnswerProofs what is confirmed is on offer, what is chosen or obtained
                       stays, the dialog is on valid choices, the map does not throw
MCDisclosureFlow       instances for TLC

BridgeLifecycle        irmagobridge next to the activities of a process
BridgeLifecycleProofs  theorems
MCBridgeLifecycle      instances for TLC

AppLock                lock, PIN screens, change PIN and enrollment in the app
  Keyshare             their handlers in Go, the keyshare server, the callbacks
AppLockProofs          theorems
MCAppLock              instances for TLC

History                the activity tab and loadLogs
HistoryProofs          theorems
MCHistory              instances for TLC
```

`SessionState`.  A record per session with what properties can tell apart:
status, return URL (by kind), candidates, choices, error, dismissed.  Statuses
and the reducer's branches are the code's.  A credential is named after the
issuing session that issues it; the candidates of a request are represented by
the wallet they were computed from, and a choice by the candidates it was made
from.  So a choice made from old candidates differs from one made from new
ones, which is what the refresh after issuance-in-disclosure is about.

`AppSessions`.  `states` is the repository; `emitted` is what the `distinct`
filter of a screen's stream let through; `painted` is the last frame.  `Paint`
is `build` with its post-frame callbacks: the questions, the outcome screens and
the navigation of a finished session.  `Dispose` is `dispose`; every button, and
the back gesture (`PopScope`) of the screen that handles it, is an action of
`User` whose guard is what the painted screen offers.  `FailToCall` is the
button of the call screen when the phone cannot be opened; `Launched` names the
sessions that issue what the user went for in the store, known once the request
is in (`asked`).  Dart runs a handler and its microtasks without
interruption, hence one action each.  `ReceiveEvent` is `_eventListener` with
the reducer, the answer to the PIN bloc and the back gestures it releases.

`BridgeSessions`.  `DispatchFromNative` handles one event; `RespondGo` starts a
goroutine, an element of `calls`, which `RunCall` runs at any later time with
the handler the session has then.  `Client...` actions are irmaclient: their
order is that of the protocol as the app's code and tests expect it (connect,
maybe pair, ask, perhaps refresh, perhaps ask a PIN, end), and every end is
possible wherever irmaclient can fail.

`SessionFlow` composes them and states the properties.  `confirmed` and `given`
are history variables: what the user did, for the properties only.

`SessionContract` has no screens, messages or handlers: a session proceeds at
most once, with something agreed to; ends once; the app reports that end, and
takes a report back only when a return URL fails.

Abstractions of these modules: a combined session is one of type issuing with a
disclosure (the type "redirect" is not modelled); issue wizards of the home
screen (`wizardActive`) and the app lock are left out, so is the release of a
back gesture by locking; sending the app to the background is a pop.  A session
blocked by wrong PINs stays at `requestPin` in the repository, and a request the
app refuses for a three-part candidate is never told to Go, as in the code.

`DisclosureCandidates`.  A credential has a type, one value and a hash.  A
request is a sequence of discons of cons of templates; `Candidates` expands it
with the wallet, as `IrmaMockBridge` does for the tests of the bloc (the
real expansion is in irmaclient).  The other operators are the bloc's helpers:
`_parseCandidatesDisCon`, `_refreshDisCon`, `_findSelectedConIndex`,
`_calculatePlannedSteps` and the options of the issue wizard.

`DisclosureFlow`.  A state of the bloc that links to a parent state is a frame
on top of it, so `flow` is a stack and "yield the parent state" is `Front`.
`env` is what the bloc reads of its surroundings: wallet, candidates, hashes
added since the bloc began.  `MapSessionStateToBlocState` is the recursive map
of the same name, as a recursive function over the frames: it refreshes the
frame the recursion reaches and lifts those above it.  A session that issues what is
missing takes three steps, `Announce` (its permission request: the hash is
noted), `ReceiveCredentials` (`CredentialsEvent`) and `RefreshCandidates`
(irmaclient repeats the request), and the user may tap between them.
`RefreshCandidates` may also repeat a request that is still the same: the new
state passes `.distinct()`, which compares by identity, and remaps the state of
the bloc.  `User` has one action per event, with the guard of the
screen that sends it.  An error thrown in the map goes to the zone and leaves
the state (`MapThrows`).  `Announce` leaves the bloc alone: the state of the session
below is the same object, and `.distinct()` (`irma_repository.dart:385`) drops it.
`dialog` is the dialog that asks for confirmation, a route of its own: it opens with
the state that asks for it (`AskConfirmation`), and a refresh of the candidates, which
resets `showConfirmationPopup`, does not close it.  Its button (`ConfirmInDialog`) is a
press on what is below by then: it sends the choices, asks again, or makes the bloc
throw "Selected choices are not valid"; any other way out is `DismissDialog`.

Abstractions: one attribute per credential; attributes that cannot be revoked
are left out; validity does not change during a session; the walk starts when
the request is there; opening an issue page changes no state, so the branch of
`DisclosurePermissionObtainCredentials` for it, which its screen never sends, is
left out.  The frame between a press and its dialog is left out, with the second dialog
a rebuild in it opens; so is a dialog that outlives its session, whose
result goes to a bloc that is closed.  The wizard calls `_findSelectedConIndex` with a `prevDiscon` that
holds templates only, which is as good as none.  A con asks for at most one
credential of a type that is no singleton, as the mock bridge asserts, and for one
credential of a type (`RequestAssumption`); an optional argument that is left out
is no option (`NoneAssumption`).  The assertions of the states are not in a release
build: the model goes on with an index out of range, as the app does, and the screen
that would read it offers nothing (`ShowsMakeChoice`).

`BridgeLifecycle`.  On Android a process outlives its activities: each has a
platform half (`IrmaMobileBridge`), an engine and a repository of its own, and
all share the package variables of `irmagobridge`.  `launchMode` is singleTask,
so one activity is alive at a time, but one that finishes is destroyed later and
may overlap with the next.  `Create` is `onCreate`, the constructor of the
platform half and `Start` in it; `OnMethodCall` handles one call of an app on the
UI thread, through `DispatchFromNative` to `Answers`, or blocks it (`ui`) while
`clientLoaded` is open; `Destroy` is `onDestroy` with `Stop`; `Kill` ends the
process, which is all that ever ends on iOS.  A first run of `Start` ends in a client,
an error, both (a panic after the client is there), or neither: a data directory that
does not exist is no error to wrap (`bridge.go:125-129`), and the channel is closed all
the same.  What needs a client then panics, and the panic comes back as an error that
is not fatal (`Answers`).  A `Stop` whose `Close` fails or panics leaves all as it is,
with the error set.  `Stop` ends no session: those of a client that is closed run on,
and `EndSession` sends the event of any of them to whatever activity Go knows by then,
where the app takes it for one of its own session of that ID.  `app` holds what the
repository makes of its events.  `latest`, `missing`, `undercut` and `opened` are
history.
Abstractions: the two status events, and configuration and preferences, are one
message; a session is started and answered, and its protocol is in the session
modules; links are used once.

`Keyshare` has the handlers `enroll`, `authenticate`, `changePin` and
`clearAllData`, the keyshare server with the PIN of the account, and the callbacks
of `clientHandler`.  A change may take effect with its answer lost, and a process
may end with a call at the server (`Crash`).  Calls and answers carry the request
they belong to for the properties; the app does not see it.

`AppLock` has the app above it.  A future of `unlock`, `enroll` or `changePin` is
an element of `waiting`, by the kind of answer it takes; the next answer of the
kind goes to all of them (`Tell`), and each that sees a success remembers the
length of its own PIN (`Remember`).  A screen that is left leaves its futures
behind (`LeftBy`); the blocs of the change PIN screen are never closed.  `screen`
follows the navigation and the redirects of the router for enrollment and the
lock.  `Init` is the state after the start-up of `BridgeLifecycle`, with the
status event under way, or a fatal error (`Welcome`: the bridge did not start, or its
configuration lacks the keyshare scheme).  A fatal `ErrorEvent` opens the app without a
PIN (`irma_repository.dart:141`), behind the error that the loading screen shows; after
fifteen seconds there that screen raises one itself (`TimeOut`), and it goes on
listening for the status (`ReceiveStatus`).  `fatal` notes, as history, that such an
error opened the app and nothing has locked it since.  `ClearAllData` is
`ClearAllDataEvent`: the app is opened and its preferences are cleared at once, and Go
is told.  Abstractions: a PIN is
long or not, as `setLongPin` tells them apart; the countdown of a blocked PIN is
left out, so the user may try again at once; whoever is asked to repeat a new PIN
repeats it; the errors that are not fatal, which the app only reports, are left
out.

`History` has the log of irmaclient, as a sequence of flags for the entries the
list leaves out; `loadLogs`; and the tab, whose state is `HistoryState`.
`Visible` is the filter of the list, as a recursive function over a page, and
`Down` the IDs of a page.  `LoadMoreLogs` makes several requests at once: each build adds one more listener
to the scroll controller, and all of them see the state before the first.

## 3. Runs

| run | instance | question |
|---|---|---|
| `issuance_in_disclosure` | disclosure that needs what a second session issues; taps may hit an outdated frame | consent and handlers in place, also with double answers; current candidates on screen |
| `combined_session` | discloses, issues, PIN (two attempts), web return URL; next to an issuing session launched from the store, phone URL, iOS | types, consent, open questions visible, outcomes agree; the composition implements `SessionContract` |
| `refused_request` | a request the app refuses; next to a combined session with PIN (one attempt) and an in-app URL on a second device, iOS | outcomes and contract with local errors; left sessions end; ends are delivered |
| `disclosure_walk` | six requests: one value; one of two types; both; one of them optional; an option of two credentials, one a singleton, required or optional.  Five wallets; up to three credentials added, wrong and expired ones too | what is confirmed is offered and valid, and what is below the dialog stays valid while it is open; a valid choice is the user's; wizards lead on and the map never throws; steps on display are announced; what is obtained stays, a mismatch is reported once |
| `bridge_start` | two activities in a process, two links, one session each with the same ID | the channel is closed with a client or an error, a missing data directory excepted; only an overlap blocks the UI thread; one answer to a start, fatal or not; answers go to handlers of their app, and its sessions get started and ended; the last link arrives |
| `app_lock` | a short and a long PIN, two requests outstanding, from any start | the PIN fits on the screen; who waits takes its own answer; open after a PIN only, or a fatal error; the screen on display is answered |
| `history` | pages of two, three entries, two loads at once, two under way when the tab opens | the list is the newest entries in order; its end is the end; loading ends |
| `back_gesture` | one disclosure with a PIN | violated: the back gesture on an idle PIN screen is never served |
| `crossed_options` | A=1,B=1 or A=2,B=2, wallet A=2 and B=1 | violated: the wizard has no option and throws |
| `partial_option` | A,B or A,D, wallet A | violated: A alone is confirmed |
| `bridge_overlap` | as `bridge_start` | violated: the UI thread waits for good |
| `late_status` | as `app_lock` | violated: the app leaves the screen of a fatal error |

Bounds of the session runs.  Two sessions: every interaction in the code is
between one session and another (the one below, the one that issues what it
needs), and the third adds only interleavings.  `MaxPending` bounds the taps the
user can pile up before Go handles them, not the messages of the app itself; two
are enough for every pair of answers to cross, and with one, answers still cross
as goroutines once Go has accepted them (`combined_session`, `refused_request`).
The theorems on what these two check are for every value of it.  `MaxAttempts` of two has a wrong
and a last PIN.  Deadlock is not an error: sessions end and the user may stop.

Bounds of the disclosure runs.  Two types and two values tell a match, a
mismatch and another type apart; two discons and two options are the least at
which indices of discons, of options and of filtered options differ; `MaxAdded`
lets a wrong credential, the right one and one more be added.

Bounds of the other runs.  Two activities are the overlap there is: a third can
only come when the first is gone, in a state the second reached as well (the
theorems below are about any number).  Two links are the least at which one
replaces another.  Two requests in `app_lock` are the least that cross; a PIN
waits for the bloc of the change PIN screen one at a time, and one of its blocs
at a time.  In `history`, three entries with pages of two give a full page, a
short one and an empty one, and a whole page that is left out.  `app_lock` and
`history` check for deadlock too.

Without `FrameLag`, a tap falls only on frames that show the latest state.  A
frame takes milliseconds, and the code has no guard for taps in between, so the
properties about outcomes are checked without it; what `issuance_in_disclosure`
checks does not depend on it.

Fairness.  `Paint`, `Dispose`, `ReceiveEvent`, `DispatchFromNative` and the
goroutines are weakly fair: frames are painted, event loops run and goroutines
are scheduled.  Likewise `StartApp`, `OnMethodCall` and `Receive` of an activity;
`Handle`, `VerifyOldPin`, `ReceiveAnswer`, `ReceiveStatus` and `ReceiveFatal` of `AppLock`, and
`Serve`, as the requests of irmaclient to the keyshare server time out; `loadLogs`
and `Receive` of `History`.  Nothing is assumed of the user, of the other servers
irmaclient talks to, of the operating system or of the wallet.  The disclosure
walk has safety properties only: all progress in it is the user's.

What the liveness properties except is what the code does: an app is not answered
while the UI thread is blocked (`AppReadyIsAnswered`, `LinkArrives`), nor with more
than an error of no consequence when its data directory is missing; a list loads
for ever after a load that failed, as an error is no answer to it (`LoadingEnds`).
The same goes for safety.  `PinFits` excepts a PIN that may have changed unnoticed
(`unsure`: an answer lost or crossed, a restart before it) until the next success;
`AnswersAreOwn` excepts requests that cross, when one answer completes both;
`OpenAfterPin` excepts an app that a fatal error has opened; `ListIsNewest` and
`EndIsTheEnd` except lists whose loads crossed or failed, and `EndIsTheEnd` a whole page
that is left out, which the FIXME in `history_repository.dart` names.  What falls under
such an exception is noted with its hazard in `PROJECT.json`.

The violations are disagreements between the code and a line of its own, quoted
in `PROJECT.json` under `findings`:

* `session_pin_screen.dart` waits in its `PopScope` handler for "irmago response
  before closing", with `firstWhere` on the stream of the bloc.  That stream does
  not repeat its current state: with no PIN under way the gesture has no effect,
  until a later wrong PIN, which then cancels the session.
* `_findSelectedConIndex` looks an option up as the first that contains the
  previous choice.  When several options have a credential in common that may be
  another option: a choice cut to the previously added credentials becomes half an
  option that is confirmed and that no verifier accepts (`partial_option`).
* The issue wizard removes options and cuts them to the types that were missing
  at the start.  It can be left with nothing to show, and then every later event
  of the session throws (`crossed_options`).
* `Start` returns early when there is a client, "nothing to do", though the `Stop`
  of the activity that made it may still come and take client and channel away:
  the next call of the app blocks the UI thread in `<-clientLoaded`
  (`bridge_overlap`).
* `error_screen.dart` calls fatal events unrecoverable.  The loading screen that shows
  one leaves it on a late enrollment status, and as the error has opened the app, the
  way home asks no PIN (`late_status`).

Of the same root causes, and not reported by a run of their own: for options B,A
and A a choice of A turns into B,A when irmaclient repeats a request with the same
candidates; for A=1,B or A=2,B,D the wizard is completed by B alone, with no
option that can be chosen; for A,B or D, with A and D in the wallet, the wizard
asks for B, although D can be given.  What they have in common is a discon with
several options of which one has several credentials.  `OneWay` excludes them: a
discon has options of one credential at most, or one option that is not empty.
All requests of `disclosure_walk` are of this kind, and for all requests of this
kind section 4 proves what the run checks.

The walk has one more weakness the instances avoid and no run reports: the
parent state of a choice is not refreshed with it.  When a singleton of the
overview is replaced while the user looks at its options, going back shows and
confirms the credential that is gone.  So no singleton is replaced in
`disclosure_walk` (`SingletonsStay`).  A singleton that is replaced has another
consequence: with A or B=1 asked for, A expired and the singleton B=1 chosen, the
dialog asks for confirmation while a session started by a link replaces B=1 by B=2.
The refresh below the dialog falls back on A, and the button of the dialog, unlike
that of the overview, is there for choices that are not valid: the bloc throws
("Selected choices are not valid", `disclosure_permission_bloc.dart:294`) and the
press is lost.

Two more the instances of `disclosure_walk` avoid.  For the discons D or A and B, with
A in the wallet, D can be obtained in the wizard before B.  The overview of previously
added credentials then has A, and its list of options is cut to A alone, while the
selected index still counts D: it is out of range, against an assertion of the state
(`disclosure_permission_state.dart:201`), and the next event of the session throws.
And for A=1 or A=2, with A=2 selected in the wizard, A=1 can be obtained and reported
as wrong.  The planned steps then look the selected index up in candidates that came
in another order, and the overview of previously added credentials comes up without
having been planned; the progress indicator shows step 0
(`disclosure_permission_choices_screen.dart:160`).

## 4. Theorems

All are for every value of the constants, under the named assumptions of the
modules.  An invariant a run checks is seldom inductive; below is, per module,
what had to be added to it and why.

### The sessions

For any set of sessions, of any kinds, needs and URLs, and any bounds.

`SessionFlowProofs`: `TypeCorrect` (`TypeOK`) and `ConsentTheorem`
(`ConsentBeforeDisclosure`).  `ConsentInv` adds where an answer is on its way:
every message of the channel and every goroutine that lets a session proceed is
consented, and every state that asks for the issuance permission of a combined
session, in the repository, in the stream or on the screen, holds choices the
user confirmed.  Consent is never withdrawn (`HistoryGrows`), so a step can only
break it by sending something new, which the lemmas exclude action by action.
The second part of the module has no theorem: its lemmas say what each action can do to one session, to its messages, to its goroutines and to its screen, so
that the modules above it argue about one session at a time.

`SessionMessagesProofs`: `ShownRequestTheorem` (`ShownRequestIsCurrent`),
`HandlersTheorem` (`HandlersInPlace`) and `RefusedTheorem`, that nothing is disclosed or
issued for a request the app refuses.

* `StreamInv`: the stream of a screen agrees with the repository in the status,
  in the whole request of a disclosure, and in the choices of an issuance.
  `distinct` drops nothing that matters here.
* `HandlersInv`: a message about a session comes after the `NewSession` that
  introduces it (`Introduced`, `Known`), and each answer, each request under way
  and each request on screen belongs to a handler Go has (`AnswersFit`,
  `RequestsFit`, `ShownFits`).
* `Starts`: a session is started once.
* `Ordered`, with `Rank` of an event and `Reach` of a session at irmaclient: the
  events of a session are under way in the order of the protocol, none later than
  what irmaclient has reached, and nothing after its end.
* `UsedInv`: a session that proceeded is past its questions.
* `UnsupportedInv`: a request the app refuses is never answered, so it never
  proceeds.

`SessionContractProofs`: `OutcomesTheorem` (`OutcomesAgree`), `QuestionTheorem`
(`QuestionIsShown`), `ContractTheorem` (`ImplementsContract`) and
`ClientContractTheorem`.

* `EndInv`: the repository reports an end only after the last event of the
  session, or has refused the request (`ReportsEnd`); the end of a session is on
  its way, or the repository shows that end (`EndArrives`); a session that is past
  its PIN request finds the repository there, or the request is on its way
  (`PinAsked`).
* `QuestionInv`: when irmaclient waits for a permission, then the request is on
  its way, or the repository asks, or the answer is under way (`QuestionOpen`).
* `PinInv`: a PIN on display, or a bloc, means that the session has got to its PIN
  (`PinHasReason`); a PIN on display has a bloc (`PinHasBloc`); a bloc that is
  authenticated belongs to a session that ended (`PinAccepted`), and one that is
  busy has its PIN under way or another request coming (`PinAnswered`).
* `ContractTheorem` maps `Init` to the initial states of `SessionContract` and
  every step to a step of the contract, or to a stutter.

The first three assume `~FrameLag`, as the runs that check them set it: a tap on an
outdated frame can decline a session that has just succeeded, and the repository
then forgets the outcome, so with `FrameLag` they are false.  What survives for
every value of `FrameLag` is the part of the contract that irmaclient keeps, that
a session proceeds once, consented, and ends once: `ClientContractTheorem`.

### The bridge life cycle

`BridgeLifecycleProofs`, for any number of activities, links and sessions:
`TypeCorrect`, `ChannelTheorem` (`Sealed`), `BlockingTheorem`
(`BlockedOnlyWhenUndercut`), `FatalTheorem` (`FatalOrKnown`), `AnswersTheorem`
(`AnswersReachOwnSession`), `SessionsTheorem` (`SessionsAreUnderWay`) and
`PointerTheorem` (`PointerIsLatest`).

* `LifeInv` is the inductive invariant of the first three.  It adds that the
  activity that is alive is alone and is the one Go knows (`Alone`, `Current`),
  that one that finishes has made its last call (`Quiet`), that nothing is known
  of one that is not created (`Unborn`), and that a platform half that has started
  finds the channel closed unless an activity was destroyed over it (`Started`).
  `Sealed` has one exception, the data directory that is missing: Start takes the nil
  that `errors.WrapPrefix` makes of no error for one, so no fatal error is reported,
  and the next run of Start closes the channel again, which panics.
* `ToldInv`: the first call of an app is AppReadyEvent and the others come after
  its answer (`Calls`), and an app is told once how its client is, in its state or
  on the way (`Told`).
* `HandledInv`: each open session of the app has its handler, or its
  NewSessionEvent ahead of every answer (`Handled`).
* `UnderWayInv` is `HandledInv` with `SessionsAreUnderWay`: a NewSessionEvent that is
  handled puts the session into those that run, as an app that started one has a
  client; Stop ends none; and one that ends sends its event to the app Go knows,
  which is the one that waits as long as that one is alive (`Current`).
* `PointInv`: the platform half keeps the latest link until the app asks for the
  first time (`Ready`); from then on the last link under way is the latest, or it
  has arrived (`Points`, `LeadsTo`).

### The lock

`AppLockProofs`, for any PINs and any number of requests: `TypeCorrect`,
`OpenTheorem` (`OpenAfterPin`), `AnswersTheorem` (`AnswersAreOwn`) and `FitsTheorem`
(`PinFits`).

* `OpenInv`: an app that does not know its status is locked and has only that to
  wait for (`Fresh`), whoever is open has no account, was let in, or was opened by a
  fatal error (`Open`, which does not ask that the status be in), and every success and every new account on
  its way to the app stands for a PIN the server took (`Vouched`).
* `OwnInv`: as long as no two requests crossed, one future waits at most, and its
  request is in one place, as a call, at the server or as an answer (`Single`).
* `FitInv`: requests outstanding have numbers of their own, and who waits under a
  number asked with the PIN of that request (`Distinct`, `Asked`); a success that
  no answer follows was for the PIN the server has (`LastSuccess`); the last
  status under way is right, and one from before the account is followed by news
  of its PIN (`Known`, `Founded`); and unless the app may be unsure, its length
  fits, or the news of the PIN is under way (`Aware`).

### The activity list

`HistoryProofs`, for any log, any size of pages and any number of requests:
`TypeCorrect` (`TypeOK`), `ListTheorem` (`ListIsNewest`) and `EndTheorem`
(`EndIsTheEnd`).

* `TypeInv`: a list that may ask for more shows an entry, the one its next request
  starts from.
* `ListInv`: unless a load failed or requests crossed, an open list asks for a
  page, has its answer coming, or is done (`Asking`, `Answered`, `Done`); in each
  the list is what is visible of the newest entries down to some ID (`Loaded`).

What a recursive function computes is within reach when the induction is over a
set, as opposed to an operator: `Induction` derives it from the well-foundedness of
the order on Nat, and `VisibleType` and the lemmas about a page that is cut in two
(`PartConcat`, `PartLast`, `PartHidden`) apply it to sets of page lengths.

### The disclosure walk

`DisclosureFlowProofs`, for any requests, wallets and credentials: `TypeCorrect`
(`TypeOK`) and `ReportsTheorem` (`ReportedIsForgotten`).

* `WalkInv` has the state of the bloc as a stack (`IsStack`): the lowest state is a
  root and no other is, and each of the others is on a parent of a type its code casts
  it to (`FrameOK` has what a state of a kind consists of).  It adds that what is
  announced is not in the wallet yet, so the wallet holds each credential once
  (`KnownOK`).
* The heart of it is `MapOK`: at every level of the recursion the map leaves a stack
  with a state of the same kind on top, or with a report on top that the states
  above can have for a parent (`MappedOK`, `LiftedOK`).
* `ReportsOK` says of each level of the same recursion that what it takes off the
  list is in a report it makes, and that what its new reports name is off the list
  (`MapReports`).

The content of discons and wizards is opaque to these proofs.

`DisclosureAnswerProofs` opens it, for any wallets and credentials, of the requests
named: `AnswerTheorem` (`AnswerIsOffered`), `WizardTheorem` (`WizardLeadsOn`),
`ChoiceTheorem` (`ChoiceKept`), `DialogTheorem` (`DialogIsValid`), `ObtainedTheorem`
(`ObtainedStays`), `StreamTheorem` (`StreamSurvives`) and `ThrowsTheorem`, where the map may throw at
all.  Their hypotheses are definitions of the module:

* `OneWayRequests`, `SingletonsStay`: all of them, for the reasons given in section 3;
  the runs `partial_option` and `crossed_options` show what happens without the first.
* `EmptyFirst`, for `ChoiceTheorem` and `DialogTheorem`: a discon that may be left out has the empty
  option first, as in the tests of the bloc
  (`test/disclosure_permission_bloc_test.dart:893`).  With the empty option last, a
  discon the user left out can get a choice at a refresh.
* `OneTypeRequests`, for `StreamTheorem`: no option is empty and all options of a discon
  ask for the same types.  Without it the list of options of the overview of previously added
  credentials may be `Narrowed`, and a further event of the session then throws;
  `ThrowsTheorem` says that this is the only place.
* `OneValueRequests`, for `ObtainedTheorem`: a request asks for one value of each
  type.  It is needed.  Say it asks for "A=1 and B, or D" and for "A=2": the user
  obtains A=1 for a template of the first discon, then D, which completes that
  discon, so the wizard is at A=2; A=1 is now reported as wrong and leaves the list
  of added credentials, and with it what the open list counted as obtained.

The argument:

* On candidates.  What is offered comes from one wallet (`FromWallet`); an option of
  the candidates is an option of the request with every entry served or kept
  (`FlattenBlocks`, `CombinesOK`, `DisConOffers`), and one that can be chosen comes
  before those that cannot (`Preceded`).  For `OneWay` discons an option with
  something in it that can be chosen has all that is on offer for its entries
  (`Covered`), so a lookup by content finds the option that was meant (`SameOption`,
  `EmptyOption`).
* `OfferInv` is `WalkInv` with the content of every state (`Content`): choices are
  options on offer, held in full (`ChoicesOK`), or what of one was there before; a
  wizard has options for just the discons that miss something, and what it counts as
  obtained is on offer (`WizardOK`, `Named`); a list of options is one of the discon
  it was opened for, or of the discons that may be added (`MakeOK`, `AddOK`).  The map
  keeps it level by level (`LevelsContent`), and what is announced or reported does not
  matter to it.
* The same invariant carries `DialogTheorem`: nothing but a refresh changes what is
  below the dialog (`DialogStays`), and a refresh keeps choices that are valid
  (`OverviewValid`), as the wallet still holds them.  Where a singleton may be replaced
  this fails, as section 3 shows.
* `SurvivalInv` adds to it what lasts while the candidates change (`Endures`): a
  wizard has an option for each discon that is open, there is something to add under a
  list of additions (`Free`), and a selection is in range unless the list is `Narrowed`.
* `ObtainInv` adds to that (`Lists`) that the states ask for entries of the request
  (`Asks`), that there is at most one list of credentials to obtain, however deep
  (`Single`), and that what it says was obtained is on the list of added credentials
  and in the wallet (`HeldOK`, `Got`).  At each level of the recursion (`RenewedOK`,
  `MapRenewed`) the map takes off the list of added credentials only what no entry of
  the request matches (`ValidateGains`, `Gained`), and builds the one list anew from
  what was obtained (`Renews`).

All inductions, over the options, the entries of an option and the levels of the
stack, are over sets of natural numbers, as in `HistoryProofs`.  `FromWallet` quantifies
over all sequences of credentials, so TLC cannot evaluate `OfferInv` itself; its
conjuncts on the states were checked on the instances of the run before they were
proved.

### Only model-checked

Liveness and what needs ENABLED is out of the prover's reach.  Of the walk,
`CurrentStepIsPlanned` is checked only: it is false of requests the theorems cover,
as the second of the two cases at the end of section 3 shows, and it depends on an
index into candidates that have changed since it was computed, so on the order in
which the wallet lists what it holds.

## 5. Plan

What is left, in this order.

1. `CurrentStepIsPlanned`, the one invariant that is only checked, for requests
   that ask for one value of each type.
2. The composition of `AppLock` with the navigation of `AppSessions`: a session
   started by a link while the app is locked, and what a lock does to its screens.
3. `IssueWizard` and `Notifications`: small machines, with the races of their
   answers; `PinQuality`: the predicates on digit lists against reference
   definitions over all lists of five digits of a small alphabet.

## 6. Not modelled

The issue wizard of the home screen, notifications and the quality of PINs are in
the plan.  Credentials, schemes, configuration and preferences are values each
event of Go replaces as a whole.  Pointers, QR codes and return URLs are parsed,
which is data here; widgets, themes and static screens have no state that another
part depends on; reports to Sentry and the native plugins are adapters to the
operating system; the generator of the Dart models (`structodart`), debug screens
and the mock bridge are not part of the shipped app.  Time is not modelled: the
fifteen seconds of the loading screen, the minutes after which the app locks and
the countdown of a blocked PIN are steps that may come at any moment, or are left
out.  The list of components with its reasons, and the hazards no property covers,
are in `PROJECT.json`.
