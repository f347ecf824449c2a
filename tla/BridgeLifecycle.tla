--------------------------- MODULE BridgeLifecycle ---------------------------
(***************************************************************************)
(* The life of the Go bridge next to that of the app: activities come and  *)
(* go in one process, each with a platform half (IrmaMobileBridge), a      *)
(* Flutter engine and a repository of its own, and all of them share the   *)
(* global variables of irmagobridge.                                       *)
(*                                                                         *)
(* The platform half, Start, Stop and DispatchFromNative run on the UI     *)
(* thread, one at a time.  Receiving from clientLoaded while it is open    *)
(* blocks that thread, and then only the end of the process helps.         *)
(***************************************************************************)
EXTENDS Naturals, Sequences

CONSTANTS
  Activity,     \* the activities a process may create
  NoActivity,   \* the value of bridge before the first Start
  Link,         \* URLs that open the app, each of them once
  NoLink,
  MaxSessions   \* bound: sessions an app starts

ASSUME LifecycleAssumption ==
  /\ NoActivity \notin Activity
  /\ NoLink \notin Link
  /\ MaxSessions \in Nat

VARIABLES
  client,       \* bridge.go: the irmaclient.Client, open or nil
  clientErr,    \* bridge.go: whether clientErr is set
  loaded,       \* bridge.go: whether the channel clientLoaded is closed
  bridge,       \* bridge.go: the activity events of Go go to
  lookup,       \* sessionLookup: for which app the handler of an ID was made
  running,      \* irmaclient: sessions under way
  ui,           \* the UI thread: free, or blocked in <-clientLoaded
  life,         \* of an activity
  appReady, initialURL, nativeError,    \* fields of IrmaMobileBridge
  toNative,     \* calls of an app under way to its platform half
  toApp,        \* messages under way to an app
  app,          \* what the repository of an app knows
  opened,       \* history: the links used so far
  latest,       \* history: the link an activity was opened with last
  missing,      \* history: activities whose Start found no data directory
  undercut      \* history: an activity was destroyed after its successor began

goVars == <<client, clientErr, loaded, bridge, lookup, running>>
nativeVars == <<ui, life, appReady, initialURL, nativeError>>
vars == <<goVars, nativeVars, toNative, toApp, app, opened, latest, missing, undercut>>

SessionID == 1..MaxSessions

Call == [type : {"AppReadyEvent"}]
          \cup [type : {"NewSessionEvent", "RespondEvent"}, id : SessionID]

Message == [type : {"ErrorEvent"}, fatal : BOOLEAN]
             \cup [type : {"HandleURLEvent"}, link : Link]
             \cup [type : {"StatusEvents"}]
             \cup [type : {"SessionEvent"}, id : SessionID, of : Activity]

ErrorEvent(fatal) == [type |-> "ErrorEvent", fatal |-> fatal]

\* The repository: whether it has sent AppReadyEvent, whether the status
\* events are in, the fatal error, the pending pointer, the session counter
\* and the sessions it waits for.
App == [up : BOOLEAN, known : BOOLEAN, fatal : BOOLEAN,
        pointer : Link \cup {NoLink}, counter : 0..MaxSessions,
        open : SUBSET SessionID]

NewApp == [up |-> FALSE, known |-> FALSE, fatal |-> FALSE, pointer |-> NoLink,
           counter |-> 0, open |-> {}]

TypeOK ==
  /\ client \in {"none", "open"}
  /\ clientErr \in BOOLEAN
  /\ loaded \in BOOLEAN
  /\ bridge \in Activity \cup {NoActivity}
  /\ lookup \in [SessionID -> Activity \cup {NoActivity}]
  /\ running \subseteq Activity \X SessionID
  /\ ui \in {"free", "blocked"}
  /\ life \in [Activity -> {"none", "alive", "finishing", "gone"}]
  /\ appReady \in [Activity -> BOOLEAN]
  /\ initialURL \in [Activity -> Link \cup {NoLink}]
  /\ nativeError \in [Activity -> BOOLEAN]
  /\ toNative \in [Activity -> Seq(Call)]
  /\ toApp \in [Activity -> Seq(Message)]
  /\ app \in [Activity -> App]
  /\ opened \subseteq Link
  /\ latest \in [Activity -> Link \cup {NoLink}]
  /\ missing \subseteq Activity
  /\ undercut \in BOOLEAN

GoInit ==
  /\ client = "none" /\ clientErr = FALSE /\ loaded = FALSE
  /\ bridge = NoActivity
  /\ lookup = [i \in SessionID |-> NoActivity]
  /\ running = {}

Init ==
  /\ GoInit
  /\ ui = "free"
  /\ life = [a \in Activity |-> "none"]
  /\ appReady = [a \in Activity |-> FALSE]
  /\ initialURL = [a \in Activity |-> NoLink]
  /\ nativeError = [a \in Activity |-> FALSE]
  /\ toNative = [a \in Activity |-> <<>>]
  /\ toApp = [a \in Activity |-> <<>>]
  /\ app = [a \in Activity |-> NewApp]
  /\ opened = {}
  /\ latest = [a \in Activity |-> NoLink]
  /\ missing = {}
  /\ undercut = FALSE

-----------------------------------------------------------------------------
(* irmagobridge: Start, Stop and the events of the app. *)

WasRun == client # "none" \/ clientErr

\* Start for activity a.  A first run ends in a client, in an error (also of a
\* panic), in both, or in neither, when the data directory does not exist:
\* there is no error to wrap then.  It closes the channel in any case; closing
\* it once more panics, which is an error too.
Start(a) ==
  /\ bridge' = a
  /\ \/ WasRun /\ UNCHANGED <<client, clientErr, loaded, missing>>
     \/ /\ ~WasRun
        /\ client' \in {"none", "open"}
        /\ \E failed \in BOOLEAN : clientErr' = (failed \/ loaded)
        /\ loaded' = TRUE
        /\ missing' = IF WasRun' THEN missing ELSE missing \cup {a}
  /\ UNCHANGED <<lookup, running>>

\* Variants with a fault: the channel stays closed, a failed Close opens a
\* channel as well.
StopKeepingChannel ==
  /\ client' = "none" /\ clientErr' = FALSE
  /\ UNCHANGED <<loaded, bridge, lookup, running>>

StopAfterFailure ==
  /\ clientErr' = TRUE /\ loaded' = FALSE
  /\ UNCHANGED <<client, bridge, lookup, running>>

\* Stop.  When Close fails (or panics) everything stays, with the error set.
\* Nothing here ends a session: those of the client that is closed go on, and
\* their handlers stay in the lookup.
Stop ==
  /\ \/ /\ client = "open"
        /\ clientErr' = TRUE
        /\ UNCHANGED <<client, loaded>>
     \/ client' = "none" /\ clientErr' = FALSE /\ loaded' = FALSE
  /\ UNCHANGED <<bridge, lookup, running>>

Fatal == clientErr /\ client = "none"

StatusEvents == <<[type |-> "StatusEvents"]>>

\* Variants with a fault: a fatal error does not return, an error that is not
\* fatal does.
AnswersWithoutReturn(call) ==
  IF call.type # "AppReadyEvent" THEN <<>>
  ELSE (IF clientErr THEN <<ErrorEvent(Fatal)>> ELSE <<>>) \o StatusEvents

AnswersEitherWay(call) ==
  IF call.type # "AppReadyEvent" THEN <<>>
  ELSE IF clientErr THEN <<ErrorEvent(Fatal)>> ELSE StatusEvents

\* What DispatchFromNative dispatches for a call once the channel is closed.
\* Whatever needs a client that is not there panics, and the panic is reported
\* as an error that is not fatal.
Answers(call) ==
  IF call.type = "AppReadyEvent"
    THEN (IF clientErr \/ client = "none" THEN <<ErrorEvent(Fatal)>> ELSE <<>>)
           \o (IF client = "open" THEN StatusEvents ELSE <<>>)
    ELSE IF ~Fatal /\ (IF call.type = "NewSessionEvent" THEN client = "none"
                       ELSE lookup[call.id] = NoActivity)
           THEN <<ErrorEvent(FALSE)>> ELSE <<>>

\* Variants with a fault: a handler that is there is kept, or the session is
\* refused because of it; the pair is swapped.
NewSessionKeepingOld(a, call) ==
  /\ lookup' = [lookup EXCEPT ![call.id] = IF @ = NoActivity THEN a ELSE @]
  /\ running' = running \cup {<<a, call.id>>}

NewSessionRefused(a, call) ==
  IF lookup[call.id] = NoActivity
  THEN lookup' = [lookup EXCEPT ![call.id] = a] /\ running' = running \cup {<<a, call.id>>}
  ELSE UNCHANGED <<lookup, running>>

NewSessionSwapped(a, call) ==
  /\ lookup' = [lookup EXCEPT ![call.id] = a]
  /\ running' = running \cup {<<call.id, a>>}

\* newSession puts a handler in the lookup, over what was there, and then asks
\* the client, if there is one, to start.
NewSession(a, call) ==
  /\ lookup' = [lookup EXCEPT ![call.id] = a]
  /\ running' = IF client = "open" THEN running \cup {<<a, call.id>>} ELSE running

-----------------------------------------------------------------------------
(* The platform half. *)

Attached(a) == life[a] \in {"alive", "finishing"}

\* Messages for the activity of a call and for the one Go knows, which may be
\* another one.  What is sent to an engine that is gone is dropped.
Send(a, own, go) ==
  toApp' = [b \in Activity |->
              toApp[b] \o (IF b = a THEN own ELSE <<>>)
                       \o (IF b = bridge /\ Attached(b) THEN go ELSE <<>>)]

\* onCreate and the constructor of the bridge, with the link of the intent if
\* there is one.  Reading the key or the assets may fail; Start is then never
\* called.  Activities that are finishing may still be there.
Create(a) ==
  /\ ui = "free"
  /\ life[a] = "none"
  /\ \A b \in Activity : life[b] # "alive"
  /\ life' = [life EXCEPT ![a] = "alive"]
  /\ \E link \in {NoLink} \cup (Link \ opened) :
       /\ initialURL' = [initialURL EXCEPT ![a] = link]
       /\ latest' = [latest EXCEPT ![a] = link]
       /\ opened' = opened \cup ({link} \ {NoLink})
  /\ \/ /\ nativeError' = [nativeError EXCEPT ![a] = TRUE]
        /\ UNCHANGED <<goVars, missing>>
     \/ /\ Start(a)
        /\ UNCHANGED nativeError
  /\ UNCHANGED <<ui, appReady, toNative, toApp, app, undercut>>

\* Variant with a fault: the first link is kept.
KeepFirst(a, link) ==
  initialURL' = [initialURL EXCEPT ![a] = IF @ = NoLink THEN link ELSE @]

\* The platform half keeps one link, the last one.
Keep(a, link) == initialURL' = [initialURL EXCEPT ![a] = link]

\* onNewIntent: the link waits until the app is ready.
OpenLink(a) ==
  /\ ui = "free"
  /\ life[a] = "alive"
  /\ \E link \in Link \ opened :
       /\ opened' = opened \cup {link}
       /\ latest' = [latest EXCEPT ![a] = link]
       /\ \/ /\ appReady[a]
             /\ Send(a, <<[type |-> "HandleURLEvent", link |-> link]>>, <<>>)
             /\ UNCHANGED initialURL
          \/ /\ ~appReady[a]
             /\ Keep(a, link)
             /\ UNCHANGED toApp
  /\ UNCHANGED <<goVars, ui, life, appReady, nativeError, toNative, app,
                 missing, undercut>>

\* A call of the app whose platform half could not start.
RejectCall(a) ==
  /\ nativeError[a]
  /\ Send(a, <<ErrorEvent(TRUE)>>, <<>>)
  /\ UNCHANGED <<goVars, ui, appReady>>

\* Variant with a fault: the app is never ready.
NoteReadyNever(a, call) == UNCHANGED appReady

NoteReady(a, call) ==
  appReady' = [appReady EXCEPT ![a] = @ \/ call.type = "AppReadyEvent"]

\* A call goes to Go, after the platform half has noted that the app is ready
\* and has sent the link it kept.
HandleCall(a, call) ==
  LET kept == IF call.type = "AppReadyEvent" /\ initialURL[a] # NoLink
                THEN <<[type |-> "HandleURLEvent", link |-> initialURL[a]]>>
                ELSE <<>>
  IN  /\ ~nativeError[a]
      /\ NoteReady(a, call)
      /\ \/ /\ ~loaded
            /\ ui' = "blocked"
            /\ Send(a, kept, <<>>)
            /\ UNCHANGED goVars
         \/ /\ loaded
            /\ Send(a, kept, Answers(call))
            /\ IF ~Fatal /\ call.type = "NewSessionEvent"
                 THEN NewSession(a, call)
                 ELSE UNCHANGED <<lookup, running>>
            /\ UNCHANGED <<ui, client, clientErr, loaded, bridge>>

OnMethodCall(a) ==
  /\ ui = "free"
  /\ Attached(a)
  /\ toNative[a] # <<>>
  /\ toNative' = [toNative EXCEPT ![a] = Tail(@)]
  /\ RejectCall(a) \/ HandleCall(a, Head(toNative[a]))
  /\ UNCHANGED <<life, initialURL, nativeError, app, opened, latest, missing, undercut>>

\* A back gesture where nothing is below: the call that finishes the activity
\* comes after all others, and its engine lives on until it is destroyed.
Finish(a) ==
  /\ ui = "free"
  /\ life[a] = "alive" /\ app[a].up /\ toNative[a] = <<>>
  /\ life' = [life EXCEPT ![a] = "finishing"]
  /\ UNCHANGED <<goVars, ui, appReady, initialURL, nativeError, toNative, toApp,
                 app, opened, latest, missing, undercut>>

\* What is left of activities that are gone: nothing, neither of the platform
\* half nor of the engine, nor of what was under way between them.
EndOf(S) ==
  LET Cleared(f, none) == [a \in Activity |-> IF a \in S THEN none ELSE f[a]]
  IN  /\ life' = Cleared(life, "gone")
      /\ appReady' = Cleared(appReady, FALSE)
      /\ initialURL' = Cleared(initialURL, NoLink)
      /\ nativeError' = Cleared(nativeError, FALSE)
      /\ toNative' = Cleared(toNative, <<>>)
      /\ toApp' = Cleared(toApp, <<>>)
      /\ app' = Cleared(app, NewApp)
      /\ latest' = Cleared(latest, NoLink)

\* onDestroy stops the bridge.
Destroy(a) ==
  /\ ui = "free"
  /\ Attached(a)
  /\ Stop
  /\ EndOf({a})
  /\ undercut' = (undercut \/ \E b \in Activity \ {a} : Attached(b))
  /\ UNCHANGED <<ui, opened, missing>>

\* The process ends, and with it every activity and all of Go's variables.
Kill ==
  /\ \E a \in Activity : Attached(a)
  /\ client' = "none" /\ clientErr' = FALSE /\ loaded' = FALSE
  /\ bridge' = NoActivity
  /\ lookup' = [i \in SessionID |-> NoActivity]
  /\ running' = {}
  /\ ui' = "free"
  /\ EndOf({a \in Activity : Attached(a)})
  /\ missing' = {}
  /\ undercut' = FALSE
  /\ UNCHANGED opened

\* irmaclient ends a session, with an event to whatever app Go knows by now.
EndSession ==
  /\ \E s \in running :
       /\ running' = running \ {s}
       /\ Send(bridge, <<>>, <<[type |-> "SessionEvent", id |-> s[2], of |-> s[1]]>>)
  /\ UNCHANGED <<client, clientErr, loaded, bridge, lookup, nativeVars, toNative,
                 app, opened, latest, missing, undercut>>

-----------------------------------------------------------------------------
(* The app. *)

\* bridgedDispatch.
Dispatch(a, call) == toNative' = [toNative EXCEPT ![a] = Append(@, call)]

AppUnchanged == UNCHANGED <<goVars, nativeVars, opened, latest, missing, undercut>>

\* The constructor of the repository.
StartApp(a) ==
  /\ Attached(a) /\ ~app[a].up
  /\ app' = [app EXCEPT ![a].up = TRUE]
  /\ Dispatch(a, [type |-> "AppReadyEvent"])
  /\ UNCHANGED toApp /\ AppUnchanged

\* A session of the pending pointer or of a scanned code; IDs count from one in
\* every app.
StartSession(a) ==
  /\ life[a] = "alive" /\ app[a].known /\ ~app[a].fatal
  /\ app[a].counter < MaxSessions
  /\ LET id == app[a].counter + 1
     IN  /\ app' = [app EXCEPT ![a].counter = id, ![a].pointer = NoLink,
                               ![a].open = @ \cup {id}]
         /\ Dispatch(a, [type |-> "NewSessionEvent", id |-> id])
  /\ UNCHANGED toApp /\ AppUnchanged

\* An answer of the user.
Respond(a) ==
  /\ life[a] = "alive"
  /\ \E id \in app[a].open :
       /\ app' = [app EXCEPT ![a].open = @ \ {id}]
       /\ Dispatch(a, [type |-> "RespondEvent", id |-> id])
  /\ UNCHANGED toApp /\ AppUnchanged

\* _eventListener.
Receive(a) ==
  /\ Attached(a) /\ toApp[a] # <<>>
  /\ LET m == Head(toApp[a])
     IN  app' = [app EXCEPT
           ![a].fatal = @ \/ (m.type = "ErrorEvent" /\ m.fatal),
           ![a].known = @ \/ m.type = "StatusEvents",
           ![a].pointer = IF m.type = "HandleURLEvent" THEN m.link ELSE @,
           ![a].open = IF m.type = "SessionEvent" THEN @ \ {m.id} ELSE @]
  /\ toApp' = [toApp EXCEPT ![a] = Tail(@)]
  /\ UNCHANGED toNative /\ AppUnchanged

-----------------------------------------------------------------------------
Next ==
  \/ \E a \in Activity :
       \/ Create(a) \/ OpenLink(a) \/ OnMethodCall(a) \/ Finish(a) \/ Destroy(a)
       \/ StartApp(a) \/ StartSession(a) \/ Respond(a) \/ Receive(a)
  \/ Kill
  \/ EndSession

Spec == Init /\ [][Next]_vars

\* Engines run and the UI thread goes on, unless it is blocked.  Nothing is
\* assumed of the user, of irmaclient or of the system.
Fairness ==
  \A a \in Activity :
    WF_vars(StartApp(a)) /\ WF_vars(OnMethodCall(a)) /\ WF_vars(Receive(a))

FairSpec == Spec /\ Fairness

-----------------------------------------------------------------------------
(* Safety. *)

\* The channel is closed whenever there is a client or an error, and the other
\* way round but for one case: the last Start found no data directory.  But for
\* that case Start, which only asks for the client and the error, closes no
\* channel twice, and the events of an app whose bridge was started do not wait.
Sealed ==
  /\ WasRun => loaded
  /\ loaded => WasRun \/ bridge \in missing

\* The UI thread waits for a client only when Stop of an old activity came
\* after Start for the new one, which had returned early.
BlockedOnlyWhenUndercut == ui = "blocked" => undercut


\* An app that was told of a fatal error is not told the status of a client as
\* well, nor the other way round.
FatalOrKnown == \A a \in Activity : ~(app[a].fatal /\ app[a].known)

\* What the user answers goes to the handler made for the session of this app,
\* though the lookup holds handlers of earlier apps under the same IDs.
AnswersReachOwnSession ==
  \A a \in Activity :
    /\ life[a] = "alive" /\ ~nativeError[a] /\ loaded /\ ~Fatal
    /\ toNative[a] # <<>> /\ Head(toNative[a]).type = "RespondEvent"
    => lookup[Head(toNative[a]).id] = a

\* A session an app waits for is one Go runs for it, or it is about to start, or
\* its end is on the way: none gets lost between the handlers an earlier app has
\* left under the same IDs and the sessions that outlive Stop.
SessionsAreUnderWay ==
  \A a \in Activity : life[a] = "alive" /\ ui = "free" =>
    \A id \in app[a].open :
      \/ <<a, id>> \in running
      \/ \E i \in DOMAIN toNative[a] :
           toNative[a][i] = [type |-> "NewSessionEvent", id |-> id]
      \/ \E i \in DOMAIN toApp[a] :
           toApp[a][i] = [type |-> "SessionEvent", id |-> id, of |-> a]

IsLink(m) == m.type = "HandleURLEvent"

\* With no link under way, the pointer of an app that is ready is that of the
\* latest link, or gone with the session it started.
PointerIsLatest ==
  \A a \in Activity :
    Attached(a) /\ appReady[a] /\ (\A i \in DOMAIN toApp[a] : ~IsLink(toApp[a][i])) =>
      app[a].pointer \in {NoLink, latest[a]}

-----------------------------------------------------------------------------
(* Liveness. *)

\* An app on the screen hears of its client, or of a fatal error, unless its
\* Start found no data directory: then it only gets an error of no consequence.
AppReadyIsAnswered ==
  \A a \in Activity :
    life[a] = "alive" ~>
      \/ app[a].known \/ app[a].fatal
      \/ life[a] # "alive" \/ ui = "blocked" \/ a \in missing

\* A link is with the platform half, or under way from there.
IsKept(a, link) ==
  \/ ~appReady[a] /\ initialURL[a] = link
  \/ \E i \in DOMAIN toApp[a] : IsLink(toApp[a][i]) /\ toApp[a][i].link = link

\* A link that an activity was opened with gets to its app, however early it
\* came, unless a later one takes its place.
LinkArrives ==
  \A a \in Activity, link \in Link :
    life[a] = "alive" /\ IsKept(a, link) ~>
      \/ app[a].pointer = link
      \/ latest[a] # link \/ life[a] # "alive" \/ ui = "blocked" \/ nativeError[a]

=============================================================================
