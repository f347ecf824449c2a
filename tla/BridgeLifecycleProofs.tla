------------------------ MODULE BridgeLifecycleProofs ------------------------
(***************************************************************************)
(* Proofs about BridgeLifecycle: types, the channel clientLoaded, who may  *)
(* block the UI thread, what an app is told of its client, where answers   *)
(* go, which sessions are under way, and which link it gets.               *)
(***************************************************************************)
EXTENDS BridgeLifecycle, TLAPS

\* What the proofs below keep next to the properties.
\* One activity is alive at a time, and it is the one Go knows.
Alone ==
  \A a, b \in Activity : life[a] = "alive" /\ life[b] = "alive" => a = b

Current ==
  \A a \in Activity : life[a] = "alive" /\ ~nativeError[a] => bridge = a

\* An activity that finishes has made its last call.
Quiet ==
  \A a \in Activity :
    /\ life[a] # "alive" => toNative[a] = <<>>
    /\ life[a] = "finishing" => app[a].up

\* Nothing is known of an activity that has not been created.
Unborn ==
  \A a \in Activity :
    life[a] = "none" => toApp[a] = <<>> /\ app[a] = NewApp

\* A platform half that has started finds the channel closed.
Started ==
  \A a \in Activity : Attached(a) /\ ~nativeError[a] => loaded \/ undercut

\* A message tells of a fatal error or of the status.
IsFatal(m) == m.type = "ErrorEvent" /\ m.fatal
IsStatus(m) == m.type = "StatusEvents"
TellsFatal(a) == app[a].fatal \/ \E i \in DOMAIN toApp[a] : IsFatal(toApp[a][i])
TellsStatus(a) == app[a].known \/ \E i \in DOMAIN toApp[a] : IsStatus(toApp[a][i])

\* The first call of an app is AppReadyEvent; the others come after its answer.
IsReadyCall(c) == c.type = "AppReadyEvent"
Asking(a) == ~app[a].up \/ \E i \in DOMAIN toNative[a] : IsReadyCall(toNative[a][i])

Calls ==
  \A a \in Activity :
    /\ ~app[a].up => toNative[a] = <<>>
    /\ app[a].open # {} => app[a].known
    /\ \A i \in DOMAIN toNative[a] :
         IF IsReadyCall(toNative[a][i]) THEN Len(toNative[a]) = 1 ELSE app[a].known

\* An app is told once how its client is.
Told ==
  \A a \in Activity :
    /\ ~(TellsFatal(a) /\ TellsStatus(a))
    /\ nativeError[a] => ~TellsStatus(a)
    /\ life[a] = "alive" /\ ~nativeError[a] /\ Asking(a)
         => ~TellsFatal(a) /\ ~TellsStatus(a)

\* The handler of a session this app has open is in the lookup, or its
\* NewSessionEvent is under way, ahead of any answer.
Starts(a, id, n) ==
  lookup[id] = a \/ \E j \in DOMAIN toNative[a] :
                      j < n /\ toNative[a][j] = [type |-> "NewSessionEvent", id |-> id]

Handled ==
  \A a \in Activity :
    life[a] = "alive" /\ ~nativeError[a] /\ loaded =>
      /\ TellsStatus(a) => client = "open"
      /\ \A id \in app[a].open : Starts(a, id, Len(toNative[a]) + 1)
      /\ \A i \in DOMAIN toNative[a] :
           toNative[a][i].type = "RespondEvent" => Starts(a, toNative[a][i].id, i)

LifeInv ==
  /\ TypeOK /\ Sealed /\ BlockedOnlyWhenUndercut
  /\ Alone /\ Current /\ Quiet /\ Unborn /\ Started

-----------------------------------------------------------------------------
(* Helpers. *)

\* Send keeps the type of the channels.
LEMMA SendType ==
  ASSUME TypeOK, NEW a, NEW own \in Seq(Message), NEW go \in Seq(Message),
         Send(a, own, go)
  PROVE  toApp' \in [Activity -> Seq(Message)]
<1>1. ASSUME NEW b \in Activity
      PROVE  toApp[b] \o (IF b = a THEN own ELSE <<>>)
                      \o (IF b = bridge /\ Attached(b) THEN go ELSE <<>>)
               \in Seq(Message)
  <2>1. toApp[b] \in Seq(Message)
    BY DEF TypeOK
  <2>2. (IF b = a THEN own ELSE <<>>) \in Seq(Message)
    OBVIOUS
  <2>3. (IF b = bridge /\ Attached(b) THEN go ELSE <<>>) \in Seq(Message)
    OBVIOUS
  <2> QED
    BY <2>1, <2>2, <2>3
<1> QED
  BY <1>1 DEF Send

\* What a channel holds after Send was there before, or is one of the two
\* sequences sent.
SentOrOld(a, own, go, b, i) ==
  \/ \E j \in DOMAIN toApp[b] : toApp'[b][i] = toApp[b][j]
  \/ b = a /\ \E j \in DOMAIN own : toApp'[b][i] = own[j]
  \/ b = bridge /\ \E j \in DOMAIN go : toApp'[b][i] = go[j]

LEMMA SendHolds ==
  ASSUME TypeOK, NEW a, NEW own \in Seq(Message), NEW go \in Seq(Message),
         Send(a, own, go), NEW b \in Activity, NEW i \in DOMAIN toApp'[b]
  PROVE  SentOrOld(a, own, go, b, i)
<1> USE DEF SentOrOld
<1> DEFINE x == toApp[b]
           y == IF b = a THEN own ELSE <<>>
           z == IF b = bridge /\ Attached(b) THEN go ELSE <<>>
<1>1. x \in Seq(Message) /\ y \in Seq(Message) /\ z \in Seq(Message)
  BY DEF TypeOK
<1>2. toApp'[b] = (x \o y) \o z
  BY DEF Send
<1> HIDE DEF x, y, z
<1>3. i \in DOMAIN ((x \o y) \o z)
  BY <1>2
<1>4. \/ \E j \in DOMAIN x : ((x \o y) \o z)[i] = x[j]
      \/ \E j \in DOMAIN y : ((x \o y) \o z)[i] = y[j]
      \/ \E j \in DOMAIN z : ((x \o y) \o z)[i] = z[j]
  <2>1. CASE i \in 1..Len(x)
    BY <2>1, <1>1
  <2>2. CASE i \in Len(x) + 1 .. Len(x) + Len(y)
    <3>1. i - Len(x) \in DOMAIN y
      BY <2>2, <1>1
    <3> QED
      BY <2>2, <3>1, <1>1
  <2>3. CASE i \in Len(x) + Len(y) + 1 .. Len(x) + Len(y) + Len(z)
    <3>1. i - Len(x) - Len(y) \in DOMAIN z
      BY <2>3, <1>1
    <3> QED
      BY <2>3, <3>1, <1>1
  <2> QED
    BY <1>1, <1>3, <2>1, <2>2, <2>3
<1>5. CASE \E j \in DOMAIN x : ((x \o y) \o z)[i] = x[j]
  BY <1>2, <1>5 DEF x
<1>6. CASE \E j \in DOMAIN y : ((x \o y) \o z)[i] = y[j]
  <2>1. b = a /\ y = own
    BY <1>6 DEF y
  <2> QED
    BY <1>2, <1>6, <2>1
<1>7. CASE \E j \in DOMAIN z : ((x \o y) \o z)[i] = z[j]
  <2>1. b = bridge /\ z = go
    BY <1>7 DEF z
  <2> QED
    BY <1>2, <1>7, <2>1
<1> QED
  BY <1>4, <1>5, <1>6, <1>7

\* What Go answers are messages, none of them of a session or a link.
LEMMA AnswersType ==
  ASSUME NEW call \in Call
  PROVE  /\ Answers(call) \in Seq(Message)
         /\ \A i \in DOMAIN Answers(call) :
              Answers(call)[i].type \notin {"SessionEvent", "HandleURLEvent"}
<1> DEFINE P == {m \in Message : m.type \notin {"SessionEvent", "HandleURLEvent"}}
           status == [type |-> "StatusEvents"]
<1>1. status \in P /\ \A f \in BOOLEAN : ErrorEvent(f) \in P
  BY DEF ErrorEvent, Message
<1>2. Fatal \in BOOLEAN
  BY DEF Fatal
<1> HIDE DEF P, status
<1>3. <<status>> \in Seq(P) /\ \A f \in BOOLEAN : <<ErrorEvent(f)>> \in Seq(P)
  BY <1>1
<1>4. \A x, y \in Seq(P) : x \o y \in Seq(P)
  OBVIOUS
<1>5. Answers(call) \in Seq(P)
  <2> DEFINE x == IF clientErr \/ client = "none" THEN <<ErrorEvent(Fatal)>> ELSE <<>>
             y == IF client = "open" THEN <<status>> ELSE <<>>
  <2>1. x \in Seq(P) /\ y \in Seq(P) /\ <<>> \in Seq(P)
    BY <1>2, <1>3
  <2>2. Answers(call) \in {x \o y, <<ErrorEvent(FALSE)>>, <<>>}
    BY DEF Answers, StatusEvents, status
  <2> HIDE DEF x, y
  <2> QED
    BY <1>3, <1>4, <2>1, <2>2
<1> QED
  BY <1>5 DEF P

-----------------------------------------------------------------------------
(* Types. *)

\* Start and Stop keep the types of Go's variables.
LEMMA StartType ==
  ASSUME TypeOK, NEW a \in Activity, Start(a)
  PROVE  /\ client' \in {"none", "open"} /\ clientErr' \in BOOLEAN
         /\ loaded' \in BOOLEAN /\ bridge' \in Activity \cup {NoActivity}
         /\ lookup' \in [SessionID -> Activity \cup {NoActivity}]
         /\ running' \subseteq Activity \X SessionID
         /\ missing' \subseteq Activity
BY DEF TypeOK, Start, WasRun

LEMMA StopType ==
  ASSUME TypeOK, Stop
  PROVE  /\ client' \in {"none", "open"} /\ clientErr' \in BOOLEAN
         /\ loaded' \in BOOLEAN /\ bridge' \in Activity \cup {NoActivity}
         /\ lookup' \in [SessionID -> Activity \cup {NoActivity}]
         /\ running' \subseteq Activity \X SessionID
BY DEF TypeOK, Stop

\* Activities that end keep the types of everything they have.
LEMMA EndType ==
  ASSUME TypeOK, NEW S, EndOf(S)
  PROVE  /\ life' \in [Activity -> {"none", "alive", "finishing", "gone"}]
         /\ appReady' \in [Activity -> BOOLEAN]
         /\ initialURL' \in [Activity -> Link \cup {NoLink}]
         /\ nativeError' \in [Activity -> BOOLEAN]
         /\ toNative' \in [Activity -> Seq(Call)]
         /\ toApp' \in [Activity -> Seq(Message)]
         /\ app' \in [Activity -> App]
         /\ latest' \in [Activity -> Link \cup {NoLink}]
<1>1. NewApp \in App
  BY LifecycleAssumption DEF NewApp, App
<1>2. <<>> \in Seq(Call) /\ <<>> \in Seq(Message)
  OBVIOUS
<1> QED
  BY <1>1, <1>2 DEF TypeOK, EndOf

LEMMA Singleton == ASSUME NEW S, NEW x \in S PROVE <<x>> \in Seq(S)
OBVIOUS

\* The link the platform half kept, as HandleCall sends it.
LEMMA KeptType ==
  ASSUME TypeOK, NEW a \in Activity, NEW P \in BOOLEAN
  PROVE  (IF P /\ initialURL[a] # NoLink
            THEN <<[type |-> "HandleURLEvent", link |-> initialURL[a]]>>
            ELSE <<>>) \in Seq(Message)
<1>1. CASE initialURL[a] # NoLink
  <2>1. [type |-> "HandleURLEvent", link |-> initialURL[a]] \in Message
    BY <1>1 DEF TypeOK, Message
  <2> QED
    BY <2>1
<1> QED
  BY <1>1

\* Elements of sequences of one element, or none.
LEMMA Only == ASSUME NEW x, NEW j \in DOMAIN <<x>> PROVE <<x>>[j] = x
OBVIOUS

LEMMA TailOfOne ==
  ASSUME NEW S, NEW q \in Seq(S), Len(q) = 1, NEW i \in DOMAIN Tail(q)
  PROVE  FALSE
<1>1. Tail(q) \in Seq(S) /\ Len(Tail(q)) = 0
  <2>1. q # <<>>
    OBVIOUS
  <2> QED
    BY <2>1
<1>2. PICK t \in Seq(S) : t = Tail(q) /\ Len(t) = 0
  BY <1>1
<1>3. DOMAIN t = 1..Len(t) /\ i \in DOMAIN t
  BY <1>2
<1> QED
  BY <1>2, <1>3

LEMMA None == DOMAIN <<>> = {}
OBVIOUS

LEMMA EmptyMessages == <<>> \in Seq(Message)
OBVIOUS

\* What an app knows stays typed when one of its fields changes.
LEMMA AppFields ==
  ASSUME NEW p \in App
  PROVE  /\ [p EXCEPT !.up = TRUE] \in App
         /\ \A o \in SUBSET SessionID : [p EXCEPT !.open = o] \in App
         /\ \A n \in 0..MaxSessions, o \in SUBSET SessionID :
              [p EXCEPT !.counter = n, !.pointer = NoLink, !.open = o] \in App
         /\ \A f, k \in BOOLEAN, q \in Link \cup {NoLink}, o \in SUBSET SessionID :
              [p EXCEPT !.fatal = f, !.known = k, !.pointer = q, !.open = o] \in App
BY DEF App

\* Every step keeps the types.
LEMMA TypeStep ==
  ASSUME TypeOK, [Next]_vars
  PROVE  TypeOK'
<1>1. ASSUME NEW a \in Activity, Create(a) PROVE TypeOK'
  <2>1. CASE nativeError' = [nativeError EXCEPT ![a] = TRUE] /\ UNCHANGED <<goVars, missing>>
    BY <1>1, <2>1 DEF TypeOK, Create, goVars
  <2>2. CASE Start(a) /\ UNCHANGED nativeError
    BY <1>1, <2>2, StartType DEF TypeOK, Create
  <2> QED
    BY <1>1, <2>1, <2>2 DEF Create
<1>2. ASSUME NEW a \in Activity, OpenLink(a) PROVE TypeOK'
  <2>1. PICK link \in Link :
          /\ opened' = opened \cup {link}
          /\ latest' = [latest EXCEPT ![a] = link]
          /\ \/ /\ Send(a, <<[type |-> "HandleURLEvent", link |-> link]>>, <<>>)
                /\ UNCHANGED initialURL
             \/ Keep(a, link) /\ UNCHANGED toApp
    BY <1>2 DEF OpenLink
  <2>2. [type |-> "HandleURLEvent", link |-> link] \in Message
    BY DEF Message
  <2>3. <<[type |-> "HandleURLEvent", link |-> link]>> \in Seq(Message)
    BY <2>2
  <2>4. toApp' \in [Activity -> Seq(Message)]
    <3>1. CASE UNCHANGED toApp
      BY <3>1 DEF TypeOK
    <3>2. CASE Send(a, <<[type |-> "HandleURLEvent", link |-> link]>>, <<>>)
      BY <2>3, <3>2, SendType, EmptyMessages
    <3> QED
      BY <2>1, <3>1, <3>2
  <2>5. initialURL' \in [Activity -> Link \cup {NoLink}]
    BY <2>1 DEF TypeOK, Keep
  <2> QED
    BY <1>2, <2>1, <2>4, <2>5 DEF TypeOK, OpenLink, goVars
<1>3. ASSUME NEW a \in Activity, OnMethodCall(a) PROVE TypeOK'
  <2>1. toNative' \in [Activity -> Seq(Call)] /\ Head(toNative[a]) \in Call
    <3>1. toNative[a] \in Seq(Call) /\ toNative[a] # <<>>
      BY <1>3 DEF OnMethodCall, TypeOK
    <3>2. Tail(toNative[a]) \in Seq(Call) /\ Head(toNative[a]) \in Call
      BY <3>1
    <3> QED
      BY <1>3, <3>2 DEF OnMethodCall, TypeOK
  <2>2. CASE RejectCall(a)
    <3>1. ErrorEvent(TRUE) \in Message
      BY DEF ErrorEvent, Message
    <3>2. <<ErrorEvent(TRUE)>> \in Seq(Message)
      BY <3>1, Singleton
    <3>3. toApp' \in [Activity -> Seq(Message)]
      BY <2>2, <3>2, SendType, EmptyMessages DEF RejectCall
    <3> QED
      BY <1>3, <2>1, <2>2, <3>3 DEF TypeOK, OnMethodCall, RejectCall, goVars
  <2>3. CASE HandleCall(a, Head(toNative[a]))
    <3> DEFINE call == Head(toNative[a])
               kept == IF call.type = "AppReadyEvent" /\ initialURL[a] # NoLink
                         THEN <<[type |-> "HandleURLEvent", link |-> initialURL[a]]>>
                         ELSE <<>>
    <3>1. kept \in Seq(Message)
      BY KeptType
    <3>2. Answers(call) \in Seq(Message) /\ <<>> \in Seq(Message)
      BY <2>1, AnswersType
    <3>3. Send(a, kept, <<>>) \/ Send(a, kept, Answers(call))
      BY <2>3 DEF HandleCall
    <3> HIDE DEF kept
    <3>4. toApp' \in [Activity -> Seq(Message)]
      BY <3>1, <3>2, <3>3, SendType
    <3>5. appReady' \in [Activity -> BOOLEAN] /\ ui' \in {"free", "blocked"}
      BY <2>3 DEF HandleCall, NoteReady, TypeOK
    <3>6. /\ lookup' \in [SessionID -> Activity \cup {NoActivity}]
          /\ running' \subseteq Activity \X SessionID
      <4>1. CASE NewSession(a, call) /\ call.type = "NewSessionEvent"
        <5>1. call.id \in SessionID
          BY <2>1, <4>1 DEF Call
        <5> QED
          BY <4>1, <5>1 DEF NewSession, TypeOK
      <4>2. CASE UNCHANGED <<lookup, running>>
        BY <4>2 DEF TypeOK
      <4> QED
        BY <2>3, <4>1, <4>2 DEF HandleCall, goVars
    <3>7. UNCHANGED <<client, clientErr, loaded, bridge>>
      BY <2>3 DEF HandleCall, goVars
    <3> QED
      BY <1>3, <2>1, <3>4, <3>5, <3>6, <3>7 DEF TypeOK, OnMethodCall
  <2> QED
    BY <1>3, <2>2, <2>3 DEF OnMethodCall
<1>4. ASSUME NEW a \in Activity, Finish(a) PROVE TypeOK'
  BY <1>4 DEF TypeOK, Finish, goVars
<1>5. ASSUME NEW a \in Activity, Destroy(a) PROVE TypeOK'
  BY <1>5, StopType, EndType DEF TypeOK, Destroy
<1>6. ASSUME Kill PROVE TypeOK'
  <2>1. EndOf({a \in Activity : Attached(a)})
    BY <1>6 DEF Kill
  <2> HIDE DEF Attached
  <2> QED
    BY <1>6, <2>1, EndType DEF TypeOK, Kill
<1>7. ASSUME EndSession PROVE TypeOK'
  <2>1. PICK s \in running :
          /\ running' = running \ {s}
          /\ Send(bridge, <<>>, <<[type |-> "SessionEvent", id |-> s[2], of |-> s[1]]>>)
    BY <1>7 DEF EndSession
  <2>2. [type |-> "SessionEvent", id |-> s[2], of |-> s[1]] \in Message
    BY DEF TypeOK, Message
  <2>3. <<[type |-> "SessionEvent", id |-> s[2], of |-> s[1]]>> \in Seq(Message)
    BY <2>2
  <2>4. toApp' \in [Activity -> Seq(Message)]
    BY <2>1, <2>3, SendType, EmptyMessages
  <2> QED
    BY <1>7, <2>1, <2>4 DEF TypeOK, EndSession, nativeVars
<1>8. ASSUME NEW a \in Activity, StartApp(a) PROVE TypeOK'
  <2>1. [type |-> "AppReadyEvent"] \in Call
    BY DEF Call
  <2>2. toNative' \in [Activity -> Seq(Call)]
    BY <1>8, <2>1 DEF StartApp, Dispatch, TypeOK
  <2>3. app' \in [Activity -> App]
    <3>1. app' = [app EXCEPT ![a] = [app[a] EXCEPT !.up = TRUE]]
      BY <1>8 DEF StartApp
    <3> QED
      BY <3>1, AppFields DEF TypeOK
  <2> QED
    BY <1>8, <2>2, <2>3 DEF TypeOK, StartApp, AppUnchanged, goVars, nativeVars
<1>9. ASSUME NEW a \in Activity, StartSession(a) PROVE TypeOK'
  <2> DEFINE id == app[a].counter + 1
  <2>1. app[a] \in App
    BY DEF TypeOK
  <2>2. id \in SessionID /\ id \in 0..MaxSessions
    BY <1>9, <2>1, LifecycleAssumption DEF StartSession, SessionID, App
  <2>3. app' \in [Activity -> App]
    <3> DEFINE o == app[a].open \cup {id}
    <3>1. o \in SUBSET SessionID
      BY <2>1, <2>2 DEF App
    <3>2. app' = [app EXCEPT ![a] =
                   [app[a] EXCEPT !.counter = id, !.pointer = NoLink, !.open = o]]
      BY <1>9 DEF StartSession
    <3> HIDE DEF o, id
    <3> QED
      BY <2>1, <2>2, <3>1, <3>2, AppFields DEF TypeOK
  <2>4. [type |-> "NewSessionEvent", id |-> id] \in Call
    BY <2>2 DEF Call
  <2>5. toNative' \in [Activity -> Seq(Call)]
    BY <1>9, <2>4 DEF StartSession, Dispatch, TypeOK
  <2> QED
    BY <1>9, <2>3, <2>5 DEF TypeOK, StartSession, AppUnchanged, goVars, nativeVars
<1>10. ASSUME NEW a \in Activity, Respond(a) PROVE TypeOK'
  <2>1. PICK id \in app[a].open :
          /\ app' = [app EXCEPT ![a].open = @ \ {id}]
          /\ Dispatch(a, [type |-> "RespondEvent", id |-> id])
    BY <1>10 DEF Respond
  <2>2. [type |-> "RespondEvent", id |-> id] \in Call
    BY DEF TypeOK, App, Call
  <2>3. toNative' \in [Activity -> Seq(Call)]
    BY <2>1, <2>2 DEF Dispatch, TypeOK
  <2>4. app' \in [Activity -> App]
    <3>1. app[a] \in App /\ app[a].open \ {id} \in SUBSET SessionID
      BY DEF TypeOK, App
    <3>2. app' = [app EXCEPT ![a] = [app[a] EXCEPT !.open = app[a].open \ {id}]]
      BY <2>1
    <3> QED
      BY <3>1, <3>2, AppFields DEF TypeOK
  <2> QED
    BY <1>10, <2>3, <2>4 DEF TypeOK, Respond, AppUnchanged, goVars, nativeVars
<1>11. ASSUME NEW a \in Activity, Receive(a) PROVE TypeOK'
  <2> DEFINE m == Head(toApp[a])
  <2>1. toApp[a] \in Seq(Message) /\ toApp[a] # <<>>
    BY <1>11 DEF Receive, TypeOK
  <2>2. m \in Message /\ Tail(toApp[a]) \in Seq(Message)
    BY <2>1
  <2>3. app' \in [Activity -> App]
    <3> DEFINE f == app[a].fatal \/ (m.type = "ErrorEvent" /\ m.fatal)
               k == app[a].known \/ m.type = "StatusEvents"
               q == IF m.type = "HandleURLEvent" THEN m.link ELSE app[a].pointer
               o == IF m.type = "SessionEvent" THEN app[a].open \ {m.id} ELSE app[a].open
    <3>1. app[a] \in App
      BY DEF TypeOK
    <3>2. f \in BOOLEAN /\ k \in BOOLEAN
      OBVIOUS
    <3>3. q \in Link \cup {NoLink} /\ o \in SUBSET SessionID
      BY <2>2, <3>1 DEF Message, App
    <3>4. app' = [app EXCEPT ![a] =
                   [app[a] EXCEPT !.fatal = f, !.known = k, !.pointer = q, !.open = o]]
      BY <1>11 DEF Receive
    <3> HIDE DEF f, k, q, o
    <3> QED
      BY <3>1, <3>2, <3>3, <3>4, AppFields DEF TypeOK
  <2> QED
    BY <1>11, <2>2, <2>3 DEF TypeOK, Receive, AppUnchanged, goVars, nativeVars
<1>12. ASSUME UNCHANGED vars PROVE TypeOK'
  BY <1>12 DEF TypeOK, vars, goVars, nativeVars
<1> QED
  BY <1>1, <1>2, <1>3, <1>4, <1>5, <1>6, <1>7, <1>8, <1>9, <1>10, <1>11, <1>12 DEF Next

LEMMA InitTypes == Init => TypeOK
<1>1. NewApp \in App
  BY LifecycleAssumption DEF NewApp, App
<1>2. <<>> \in Seq(Call) /\ <<>> \in Seq(Message)
  OBVIOUS
<1> QED
  BY <1>1, <1>2 DEF Init, GoInit, TypeOK

\* Every variable of Go, of the platform halves and of the apps has its type.
THEOREM TypeCorrect == Spec => []TypeOK
<1>1. Init => TypeOK
  BY InitTypes
<1>2. TypeOK /\ [Next]_vars => TypeOK'
  BY TypeStep
<1> QED
  BY <1>1, <1>2, PTL DEF Spec

-----------------------------------------------------------------------------
(* The life of the bridge. *)

\* After Start the channel is closed, with a client, an error or neither.
LEMMA StartFacts ==
  ASSUME TypeOK, Sealed, NEW a \in Activity, Start(a)
  PROVE  Sealed' /\ loaded' /\ bridge' = a
BY DEF TypeOK, Sealed, Start, WasRun

LEMMA StopFacts ==
  ASSUME TypeOK, Sealed, Stop, UNCHANGED missing
  PROVE  Sealed' /\ bridge' = bridge
BY DEF TypeOK, Sealed, Stop, WasRun

\* What an app knows after a message.
LEMMA AppReceives ==
  ASSUME TypeOK, NEW a \in Activity, Receive(a)
  PROVE  LET m == Head(toApp[a])
         IN  /\ toApp[a] \in Seq(Message) /\ toApp[a] # <<>> /\ m \in Message
             /\ toApp' = [toApp EXCEPT ![a] = Tail(@)]
             /\ app'[a].up = app[a].up
             /\ app'[a].fatal = (app[a].fatal \/ (m.type = "ErrorEvent" /\ m.fatal))
             /\ app'[a].known = (app[a].known \/ m.type = "StatusEvents")
             /\ app'[a].pointer = IF m.type = "HandleURLEvent" THEN m.link ELSE app[a].pointer
             /\ app'[a].open \subseteq app[a].open
             /\ m.type = "SessionEvent" => m.id \notin app'[a].open
             /\ \A b \in Activity \ {a} : app'[b] = app[b]
<1> DEFINE m == Head(toApp[a])
           f == app[a].fatal \/ (m.type = "ErrorEvent" /\ m.fatal)
           k == app[a].known \/ m.type = "StatusEvents"
           q == IF m.type = "HandleURLEvent" THEN m.link ELSE app[a].pointer
           o == IF m.type = "SessionEvent" THEN app[a].open \ {m.id} ELSE app[a].open
<1>1. /\ toApp[a] \in Seq(Message) /\ toApp[a] # <<>>
      /\ toApp' = [toApp EXCEPT ![a] = Tail(@)]
  BY DEF TypeOK, Receive
<1>2. m \in Message
  BY <1>1
<1>3. app' = [app EXCEPT ![a] =
               [app[a] EXCEPT !.fatal = f, !.known = k, !.pointer = q, !.open = o]]
  BY DEF Receive
<1>4. o \subseteq app[a].open /\ (m.type = "SessionEvent" => m.id \notin o)
  OBVIOUS
<1>5. app[a] \in App /\ app \in [Activity -> App]
  BY DEF TypeOK
<1> HIDE DEF f, k, q, o, m
<1>6. /\ app'[a].up = app[a].up /\ app'[a].fatal = f /\ app'[a].known = k
      /\ app'[a].pointer = q /\ app'[a].open = o
      /\ \A b \in Activity \ {a} : app'[b] = app[b]
  BY <1>3, <1>5 DEF App
<1> QED
  BY <1>1, <1>2, <1>4, <1>6 DEF f, k, q, m

\* No step of an app takes back that it is up.
LEMMA UpStays ==
  ASSUME TypeOK, NEW a \in Activity,
         StartApp(a) \/ StartSession(a) \/ Respond(a) \/ Receive(a)
  PROVE  \A b \in Activity : app[b].up => app'[b].up
<1>1. app \in [Activity -> App]
  BY DEF TypeOK
<1>2. CASE StartApp(a)
  BY <1>1, <1>2 DEF StartApp, App
<1>3. CASE StartSession(a)
  BY <1>1, <1>3 DEF StartSession, App
<1>4. CASE Respond(a)
  BY <1>1, <1>4 DEF Respond, App
<1>5. CASE Receive(a)
  BY <1>1, <1>5, AppReceives
<1> QED
  BY <1>2, <1>3, <1>4, <1>5

\* What an activity that ends leaves to the others.
LEMMA EndFacts ==
  ASSUME TypeOK, NEW S, EndOf(S), NEW b \in Activity
  PROVE  IF b \in S
         THEN /\ life'[b] = "gone" /\ nativeError'[b] = FALSE /\ appReady'[b] = FALSE
              /\ toNative'[b] = <<>> /\ toApp'[b] = <<>> /\ app'[b] = NewApp
         ELSE /\ life'[b] = life[b] /\ nativeError'[b] = nativeError[b]
              /\ appReady'[b] = appReady[b] /\ initialURL'[b] = initialURL[b]
              /\ toNative'[b] = toNative[b] /\ toApp'[b] = toApp[b]
              /\ app'[b] = app[b] /\ latest'[b] = latest[b]
BY DEF EndOf, TypeOK

\* An event that goes out leaves the channels of unborn activities alone.
LEMMA SendUnborn ==
  ASSUME TypeOK, NEW a, NEW own, NEW go, Send(a, own, go)
  PROVE  \A b \in Activity : ~Attached(b) /\ b # a => toApp'[b] = toApp[b]
<1>1. \A b \in Activity :
        ~Attached(b) /\ b # a => toApp'[b] = toApp[b] \o <<>> \o <<>>
  BY DEF Send
<1>2. \A b \in Activity : toApp[b] \in Seq(Message)
  BY DEF TypeOK
<1> QED
  BY <1>1, <1>2

LEMMA InitLife == Init => LifeInv
<1>1. Init => TypeOK
  BY InitTypes
<1> QED
  BY <1>1, LifecycleAssumption DEF Init, GoInit, LifeInv, Sealed, WasRun, BlockedOnlyWhenUndercut,
      Alone, Quiet, Unborn, Current, Started, Attached

\* The last call of an app comes while its activity is alive, over its own
\* platform half.
LEMMA CallerIsCurrent ==
  ASSUME LifeInv, NEW a \in Activity, OnMethodCall(a)
  PROVE  /\ life[a] = "alive" /\ ui = "free"
         /\ toNative[a] \in Seq(Call) /\ toNative[a] # <<>>
         /\ Head(toNative[a]) \in Call
         /\ ~nativeError[a] => bridge = a
<1>1. toNative[a] \in Seq(Call) /\ toNative[a] # <<>> /\ ui = "free"
  BY DEF OnMethodCall, LifeInv, TypeOK
<1>2. life[a] = "alive"
  BY <1>1 DEF LifeInv, Quiet
<1> QED
  BY <1>1, <1>2 DEF LifeInv, Current

\* Every step keeps the life of the bridge in order.
LEMMA LifeStep ==
  ASSUME LifeInv, [Next]_vars
  PROVE  LifeInv'
<1> USE DEF LifeInv
<1>0. TypeOK'
  BY TypeStep
<1>1. ASSUME NEW a \in Activity, Create(a) PROVE LifeInv'
  <2>1. /\ ui = "free" /\ life[a] = "none" /\ \A b \in Activity : life[b] # "alive"
        /\ life' = [life EXCEPT ![a] = "alive"]
        /\ UNCHANGED <<ui, toNative, toApp, app, undercut>>
    BY <1>1 DEF Create
  <2>2. CASE nativeError' = [nativeError EXCEPT ![a] = TRUE] /\ UNCHANGED <<goVars, missing>>
    <3>1. Sealed' /\ BlockedOnlyWhenUndercut'
      BY <2>1, <2>2 DEF goVars, Sealed, WasRun, BlockedOnlyWhenUndercut
    <3>2. Alone' /\ Quiet' /\ Unborn'
      BY <2>1, <2>2 DEF TypeOK, Alone, Quiet, Unborn
    <3>3. Current' /\ Started'
      BY <2>1, <2>2 DEF TypeOK, goVars, Current, Started, Attached
    <3> QED
      BY <1>0, <3>1, <3>2, <3>3
  <2>3. CASE Start(a) /\ UNCHANGED nativeError
    <3>1. Sealed' /\ loaded' /\ bridge' = a
      BY <2>3, StartFacts
    <3>2. BlockedOnlyWhenUndercut' /\ Started'
      BY <2>1, <3>1 DEF BlockedOnlyWhenUndercut, Started
    <3>4. Alone' /\ Quiet' /\ Unborn'
      BY <2>1, <3>1 DEF TypeOK, Alone, Quiet, Unborn
    <3>5. Current'
      BY <2>1, <3>1 DEF TypeOK, Current
    <3> QED
      BY <1>0, <3>1, <3>2, <3>4, <3>5
  <2> QED
    BY <1>1, <2>2, <2>3 DEF Create
<1>2. ASSUME NEW a \in Activity, OpenLink(a) PROVE LifeInv'
  <2>1. /\ life[a] = "alive"
        /\ UNCHANGED <<goVars, ui, life, nativeError, toNative, app, missing, undercut>>
    BY <1>2 DEF OpenLink
  <2>2. ASSUME NEW b \in Activity, life[b] = "none" PROVE toApp'[b] = toApp[b]
    <3>1. CASE UNCHANGED toApp
      BY <3>1
    <3>2. ASSUME NEW link \in Link,
                 Send(a, <<[type |-> "HandleURLEvent", link |-> link]>>, <<>>)
          PROVE  toApp'[b] = toApp[b]
      <4>1. ~Attached(b) /\ b # a
        BY <2>1, <2>2 DEF Attached
      <4> QED
        BY <3>2, <4>1, SendUnborn
    <3> QED
      BY <1>2, <3>1, <3>2 DEF OpenLink
  <2> QED
    BY <1>0, <2>1, <2>2 DEF goVars, Sealed, WasRun, BlockedOnlyWhenUndercut,
      Alone, Quiet, Unborn, Current, Started, Attached
<1>3. ASSUME NEW a \in Activity, OnMethodCall(a) PROVE LifeInv'
  <2>1. /\ life[a] = "alive" /\ ui = "free" /\ Head(toNative[a]) \in Call
        /\ ~nativeError[a] => bridge = a
        /\ toNative' = [toNative EXCEPT ![a] = Tail(@)]
        /\ UNCHANGED <<life, nativeError, app, missing, undercut>>
    BY <1>3, CallerIsCurrent DEF OnMethodCall
  <2> DEFINE call == Head(toNative[a])
  <2>2. Alone' /\ Quiet'
    BY <2>1 DEF TypeOK, Alone, Quiet
  <2>3. CASE RejectCall(a)
    <3>1. \A b \in Activity : life[b] = "none" => toApp'[b] = toApp[b]
      <4>1. Send(a, <<ErrorEvent(TRUE)>>, <<>>)
        BY <2>3 DEF RejectCall
      <4>2. \A b \in Activity : life[b] = "none" => ~Attached(b) /\ b # a
        BY <2>1 DEF Attached
      <4> QED
        BY <4>1, <4>2, SendUnborn
    <3> QED
      BY <1>0, <2>1, <2>2, <2>3, <3>1 DEF RejectCall, goVars, Sealed, WasRun, BlockedOnlyWhenUndercut,
      Unborn, Current, Started, Attached
  <2>4. CASE HandleCall(a, call)
    <3> DEFINE kept == IF call.type = "AppReadyEvent" /\ initialURL[a] # NoLink
                         THEN <<[type |-> "HandleURLEvent", link |-> initialURL[a]]>>
                         ELSE <<>>
    <3>3. Send(a, kept, <<>>) \/ Send(a, kept, Answers(call))
      BY <2>4 DEF HandleCall
    <3> HIDE DEF kept
    <3>4. \A b \in Activity : life[b] = "none" => toApp'[b] = toApp[b]
      <4>1. \A b \in Activity : life[b] = "none" => ~Attached(b) /\ b # a
        BY <2>1 DEF Attached
      <4>2. CASE Send(a, kept, <<>>)
        BY <4>1, <4>2, SendUnborn
      <4>3. CASE Send(a, kept, Answers(call))
        BY <4>1, <4>3, SendUnborn
      <4> QED
        BY <3>3, <4>2, <4>3
    <3>5. UNCHANGED <<client, clientErr, loaded, bridge>> /\ bridge = a
      BY <2>1, <2>4 DEF HandleCall, goVars
    <3>6. Sealed' /\ Current' /\ Unborn' /\ Started'
      BY <2>1, <3>4, <3>5 DEF Sealed, WasRun, Current, Unborn, Started, Attached
    <3>7. BlockedOnlyWhenUndercut'
      <4>1. CASE ui' = "blocked" /\ ~loaded
        <5>1. ~nativeError[a]
          BY <2>4 DEF HandleCall
        <5>2. undercut
          BY <2>1, <4>1, <5>1 DEF Started, Attached
        <5> QED
          BY <2>1, <5>2 DEF BlockedOnlyWhenUndercut
      <4>2. CASE UNCHANGED ui
        BY <2>1, <4>2 DEF BlockedOnlyWhenUndercut
      <4> QED
        BY <2>4, <4>1, <4>2 DEF HandleCall
    <3> QED
      BY <1>0, <2>2, <3>6, <3>7
  <2> QED
    BY <1>3, <2>3, <2>4 DEF OnMethodCall
<1>4. ASSUME NEW a \in Activity, Finish(a) PROVE LifeInv'
  <2>1. /\ life[a] = "alive" /\ app[a].up /\ toNative[a] = <<>>
        /\ life' = [life EXCEPT ![a] = "finishing"]
        /\ UNCHANGED <<goVars, ui, nativeError, toNative, toApp, app, missing, undercut>>
    BY <1>4 DEF Finish
  <2>2. life'[a] = "finishing" /\ \A b \in Activity \ {a} : life'[b] = life[b]
    BY <1>0, <2>1 DEF TypeOK
  <2>3. Sealed' /\ BlockedOnlyWhenUndercut'
    BY <1>0, <2>1 DEF goVars, Sealed, WasRun, BlockedOnlyWhenUndercut
  <2>4. Alone' /\ Quiet'
    BY <1>0, <2>1, <2>2 DEF Alone, Quiet
  <2>5. Unborn' /\ Current' /\ Started'
    BY <1>0, <2>1, <2>2 DEF goVars, Unborn, Current, Started, Attached
  <2> QED
    BY <1>0, <2>3, <2>4, <2>5
<1>5. ASSUME NEW a \in Activity, Destroy(a) PROVE LifeInv'
  <2>1. Sealed' /\ bridge' = bridge
    BY <1>5, StopFacts DEF Destroy
  <2>2. /\ EndOf({a}) /\ ui = "free" /\ UNCHANGED <<ui, missing>>
        /\ undercut' = (undercut \/ \E b \in Activity \ {a} : Attached(b))
    BY <1>5 DEF Destroy
  <2>3. /\ life'[a] = "gone" /\ toNative'[a] = <<>>
        /\ \A b \in Activity \ {a} :
             /\ life'[b] = life[b] /\ nativeError'[b] = nativeError[b]
             /\ toNative'[b] = toNative[b] /\ toApp'[b] = toApp[b] /\ app'[b] = app[b]
    BY <2>2, EndFacts
  <2>4. Alone' /\ Current' /\ Quiet' /\ Unborn'
    BY <2>1, <2>2, <2>3 DEF Alone, Current, Quiet, Unborn
  <2>5. BlockedOnlyWhenUndercut' /\ Started'
    BY <2>1, <2>2, <2>3 DEF BlockedOnlyWhenUndercut, Started, Attached
  <2> QED
    BY <1>0, <2>1, <2>4, <2>5
<1>6. ASSUME Kill PROVE LifeInv'
  <2> DEFINE S == {a \in Activity : Attached(a)}
  <2>1. /\ EndOf(S) /\ ui' = "free" /\ client' = "none"
        /\ clientErr' = FALSE /\ loaded' = FALSE
    BY <1>6 DEF Kill
  <2> HIDE DEF S
  <2>2. \A b \in Activity :
          IF b \in S THEN life'[b] = "gone" /\ toNative'[b] = <<>>
          ELSE life'[b] = life[b] /\ toNative'[b] = toNative[b]
                 /\ toApp'[b] = toApp[b] /\ app'[b] = app[b]
    BY <2>1, EndFacts
  <2>3. \A b \in Activity : life'[b] \notin {"alive", "finishing"}
    BY <2>2 DEF S, Attached
  <2>4. Sealed' /\ BlockedOnlyWhenUndercut'
    BY <2>1 DEF Sealed, WasRun, BlockedOnlyWhenUndercut
  <2>5. Alone' /\ Current' /\ Started' /\ Quiet'
    BY <2>2, <2>3 DEF Alone, Current, Started, Quiet, Attached
  <2>6. Unborn'
    BY <2>1, <2>2 DEF Unborn
  <2> QED
    BY <1>0, <2>4, <2>5, <2>6
<1>7. ASSUME EndSession PROVE LifeInv'
  <2>1. PICK s \in running :
          /\ running' = running \ {s}
          /\ Send(bridge, <<>>, <<[type |-> "SessionEvent", id |-> s[2], of |-> s[1]]>>)
    BY <1>7 DEF EndSession
  <2>4. ASSUME NEW b \in Activity, life[b] = "none" PROVE toApp'[b] = toApp[b]
    <3>1. toApp'[b] = toApp[b] \o <<>> \o <<>>
      BY <2>1, <2>4 DEF Send, Attached
    <3>2. toApp[b] \in Seq(Message)
      BY DEF TypeOK
    <3> QED
      BY <3>1, <3>2
  <2>5. UNCHANGED <<client, clientErr, loaded, bridge, ui, life, nativeError, toNative,
                    app, missing, undercut>>
    BY <1>7 DEF EndSession, nativeVars
  <2> QED
    BY <1>0, <2>1, <2>4, <2>5 DEF Sealed, WasRun, BlockedOnlyWhenUndercut,
      Alone, Quiet, Unborn, Current, Started, Attached
<1>8. ASSUME NEW a \in Activity,
             StartApp(a) \/ StartSession(a) \/ Respond(a) \/ Receive(a)
      PROVE  LifeInv'
  <2>1. UNCHANGED <<goVars, ui, life, nativeError, missing, undercut>>
    BY <1>8 DEF StartApp, StartSession, Respond, Receive, AppUnchanged, nativeVars
  <2>2. /\ Attached(a)
        /\ \A b \in Activity \ {a} : toNative'[b] = toNative[b]
                                     /\ toApp'[b] = toApp[b] /\ app'[b] = app[b]
    BY <1>8 DEF StartApp, StartSession, Respond, Receive, Dispatch, Attached, TypeOK
  <2>3. life[a] # "alive" => toNative'[a] = toNative[a]
    BY <1>8 DEF StartApp, StartSession, Respond, Receive, Attached, Quiet
  <2>4. app[a].up => app'[a].up
    BY <1>8, UpStays
  <2>5. Alone' /\ Current' /\ Started'
    BY <2>1 DEF Alone, Current, Started, Attached, goVars
  <2>6. Quiet' /\ Unborn'
    BY <2>1, <2>2, <2>3, <2>4 DEF Quiet, Unborn, Attached
  <2> QED
    BY <1>0, <2>1, <2>5, <2>6 DEF goVars, Sealed, WasRun, BlockedOnlyWhenUndercut
<1>9. ASSUME UNCHANGED vars PROVE LifeInv'
  BY <1>0, <1>9 DEF vars, goVars, nativeVars, Sealed, WasRun, BlockedOnlyWhenUndercut,
      Alone, Quiet, Unborn, Current, Started, Attached
<1> QED
  BY <1>1, <1>2, <1>3, <1>4, <1>5, <1>6, <1>7, <1>8, <1>9 DEF Next

\* The channel clientLoaded is closed as long as there is a client or an error,
\* and otherwise only when the last Start found no data directory, for any
\* number of activities, links and sessions.
THEOREM ChannelTheorem == Spec => []Sealed
<1>1. Init => LifeInv
  BY InitLife
<1>2. LifeInv /\ [Next]_vars => LifeInv'
  BY LifeStep
<1>3. LifeInv => Sealed
  BY DEF LifeInv
<1> QED
  BY <1>1, <1>2, <1>3, PTL DEF Spec

\* The UI thread is blocked only after Stop has come behind a Start that had
\* returned early.
THEOREM BlockingTheorem == Spec => []BlockedOnlyWhenUndercut
<1>1. Init => LifeInv
  BY InitLife
<1>2. LifeInv /\ [Next]_vars => LifeInv'
  BY LifeStep
<1>3. LifeInv => BlockedOnlyWhenUndercut
  BY DEF LifeInv
<1> QED
  BY <1>1, <1>2, <1>3, PTL DEF Spec

-----------------------------------------------------------------------------
(* What is under way to an app. *)

\* What a message that is not of a session does not change.
IsOld(b, i) == \E j \in DOMAIN toApp[b] : toApp'[b][i] = toApp[b][j]

\* What an activity finds in its channel after a step: what was there, a link,
\* an error of the platform half, an answer of Go or the event of a session.
LEMMA Delivered ==
  ASSUME LifeInv, [Next]_vars, NEW b \in Activity, NEW i \in DOMAIN toApp'[b]
  PROVE  LET m == toApp'[b][i]
         IN  \/ IsOld(b, i)
             \/ IsLink(m)
             \/ nativeError[b] /\ m = ErrorEvent(TRUE) /\ OnMethodCall(b)
             \/ /\ ~nativeError[b] /\ loaded /\ OnMethodCall(b)
                /\ \E k \in DOMAIN Answers(Head(toNative[b])) :
                     m = Answers(Head(toNative[b]))[k]
             \/ /\ b = bridge
                /\ \E s \in running :
                     m = [type |-> "SessionEvent", id |-> s[2], of |-> s[1]]
<1> USE DEF LifeInv
<1> DEFINE m == toApp'[b][i]
<1>1. ASSUME toApp'[b] = toApp[b] PROVE IsOld(b, i)
  BY <1>1 DEF IsOld
<1>2. ASSUME toApp'[b] = <<>> PROVE FALSE
  BY <1>2
<1>3. CASE \E a \in Activity : Create(a) \/ Finish(a) \/ StartApp(a) \/ StartSession(a) \/ Respond(a)
  BY <1>1, <1>3 DEF Create, Finish, StartApp, StartSession, Respond
<1>4. ASSUME NEW a \in Activity, Destroy(a) PROVE IsOld(b, i)
  <2>1. toApp'[b] = <<>> \/ toApp'[b] = toApp[b]
    BY <1>4, EndFacts DEF Destroy
  <2> QED
    BY <1>1, <1>2, <2>1
<1>5. ASSUME Kill PROVE IsOld(b, i)
  <2>1. toApp'[b] = <<>> \/ toApp'[b] = toApp[b]
    BY <1>5, EndFacts DEF Kill
  <2> QED
    BY <1>1, <1>2, <2>1
<1>6. ASSUME NEW a \in Activity, Receive(a) PROVE IsOld(b, i)
  <2>1. CASE b # a
    BY <1>1, <1>6, <2>1 DEF Receive, TypeOK
  <2>2. CASE b = a
    <3>1. /\ toApp[b] \in Seq(Message) /\ toApp[b] # <<>>
          /\ toApp'[b] = Tail(toApp[b])
      BY <1>6, <2>2, AppReceives DEF TypeOK
    <3>2. i + 1 \in DOMAIN toApp[b] /\ toApp'[b][i] = toApp[b][i + 1]
      BY <3>1
    <3> QED
      BY <3>2 DEF IsOld
  <2> QED
    BY <2>1, <2>2
<1>7. ASSUME NEW a \in Activity, OpenLink(a) PROVE IsOld(b, i) \/ IsLink(m)
  <2>1. CASE UNCHANGED toApp
    BY <1>1, <2>1
  <2>2. ASSUME NEW link \in Link,
               Send(a, <<[type |-> "HandleURLEvent", link |-> link]>>, <<>>)
        PROVE  IsOld(b, i) \/ IsLink(m)
    <3> DEFINE own == <<[type |-> "HandleURLEvent", link |-> link]>>
    <3>1. [type |-> "HandleURLEvent", link |-> link] \in Message
      BY DEF Message
    <3>2. own \in Seq(Message) /\ \A j \in DOMAIN own : IsLink(own[j])
      BY <3>1 DEF IsLink
    <3>3. Send(a, own, <<>>)
      BY <2>2
    <3> HIDE DEF own
    <3>4. SentOrOld(a, own, <<>>, b, i)
      BY <3>2, <3>3, EmptyMessages, SendHolds
    <3> QED
      BY <3>2, <3>4 DEF IsOld, SentOrOld
  <2> QED
    BY <1>7, <2>1, <2>2 DEF OpenLink
<1>8. ASSUME NEW a \in Activity, OnMethodCall(a), RejectCall(a)
      PROVE  IsOld(b, i) \/ (nativeError[b] /\ m = ErrorEvent(TRUE) /\ OnMethodCall(b))
  <2> DEFINE own == <<ErrorEvent(TRUE)>>
  <2>1. ErrorEvent(TRUE) \in Message
    BY DEF ErrorEvent, Message
  <2>2. own \in Seq(Message) /\ \A j \in DOMAIN own : own[j] = ErrorEvent(TRUE)
    BY <2>1, Singleton, Only
  <2>3. Send(a, own, <<>>) /\ nativeError[a]
    BY <1>8 DEF RejectCall
  <2> HIDE DEF own
  <2>4. SentOrOld(a, own, <<>>, b, i)
    BY <2>2, <2>3, EmptyMessages, SendHolds
  <2> QED
    BY <1>8, <2>2, <2>3, <2>4, None DEF IsOld, SentOrOld
<1>9. ASSUME NEW a \in Activity, OnMethodCall(a), HandleCall(a, Head(toNative[a]))
      PROVE  \/ IsOld(b, i) \/ IsLink(m)
             \/ /\ ~nativeError[b] /\ loaded /\ OnMethodCall(b)
                /\ \E k \in DOMAIN Answers(Head(toNative[b])) :
                     m = Answers(Head(toNative[b]))[k]
  <2> DEFINE call == Head(toNative[a])
             kept == IF call.type = "AppReadyEvent" /\ initialURL[a] # NoLink
                       THEN <<[type |-> "HandleURLEvent", link |-> initialURL[a]]>>
                       ELSE <<>>
  <2>1. kept \in Seq(Message) /\ \A j \in DOMAIN kept : IsLink(kept[j])
    <3> DEFINE e == [type |-> "HandleURLEvent", link |-> initialURL[a]]
    <3>1. IsLink(e)
      BY DEF IsLink
    <3> HIDE DEF e
    <3>2. \A j \in DOMAIN <<e>> : IsLink(<<e>>[j])
      BY <3>1, Only
    <3>3. \A j \in DOMAIN kept : IsLink(kept[j])
      BY <3>2, None DEF e
    <3> QED
      BY <3>3, KeptType
  <2>2. ~nativeError[a] /\ bridge = a /\ call \in Call
    BY <1>9, CallerIsCurrent DEF HandleCall
  <2>3. Send(a, kept, <<>>) \/ (loaded /\ Send(a, kept, Answers(call)))
    BY <1>9 DEF HandleCall
  <2>4. Answers(call) \in Seq(Message)
    BY <2>2, AnswersType
  <2> HIDE DEF kept
  <2>5. CASE Send(a, kept, <<>>)
    <3>1. SentOrOld(a, kept, <<>>, b, i)
      BY <2>1, <2>5, EmptyMessages, SendHolds
    <3> QED
      BY <2>1, <3>1, None DEF IsOld, SentOrOld
  <2>6. CASE loaded /\ Send(a, kept, Answers(call))
    <3>1. SentOrOld(a, kept, Answers(call), b, i)
      BY <2>1, <2>4, <2>6, SendHolds
    <3> QED
      BY <1>9, <2>1, <2>2, <2>6, <3>1 DEF IsOld, SentOrOld
  <2> QED
    BY <2>3, <2>5, <2>6
<1>10. ASSUME EndSession
       PROVE  \/ IsOld(b, i)
              \/ /\ b = bridge
                 /\ \E s \in running :
                      m = [type |-> "SessionEvent", id |-> s[2], of |-> s[1]]
  <2>1. PICK s \in running :
          Send(bridge, <<>>, <<[type |-> "SessionEvent", id |-> s[2], of |-> s[1]]>>)
    BY <1>10 DEF EndSession
  <2> DEFINE e == [type |-> "SessionEvent", id |-> s[2], of |-> s[1]]
             go == <<e>>
  <2>2. e \in Message
    BY DEF TypeOK, Message
  <2>3. go \in Seq(Message) /\ \A j \in DOMAIN go : go[j] = e
    BY <2>2, Singleton, Only
  <2>4. Send(bridge, <<>>, go)
    BY <2>1
  <2> HIDE DEF go
  <2>5. SentOrOld(bridge, <<>>, go, b, i)
    BY <2>3, <2>4, EmptyMessages, SendHolds
  <2> QED
    BY <2>1, <2>3, <2>5, None DEF IsOld, SentOrOld
<1>11. ASSUME UNCHANGED vars PROVE IsOld(b, i)
  BY <1>1, <1>11 DEF vars
<1> QED
  BY <1>3, <1>4, <1>5, <1>6, <1>7, <1>8, <1>9, <1>10, <1>11 DEF Next, OnMethodCall

-----------------------------------------------------------------------------
(* What an app is told of its client. *)

ToldInv == LifeInv /\ Calls /\ Told

\* Only the answer to AppReadyEvent tells of a fatal error or of the status, and
\* only of one of them.
LEMMA AnswersTell ==
  ASSUME NEW call \in Call, NEW k \in DOMAIN Answers(call)
  PROVE  /\ IsFatal(Answers(call)[k]) => IsReadyCall(call) /\ Fatal
         /\ IsStatus(Answers(call)[k]) => IsReadyCall(call) /\ client = "open"
<1> DEFINE status == [type |-> "StatusEvents"]
           P == {m \in Message : /\ IsFatal(m) => IsReadyCall(call) /\ Fatal
                                 /\ IsStatus(m) => IsReadyCall(call) /\ client = "open"}
           x == IF clientErr \/ client = "none" THEN <<ErrorEvent(Fatal)>> ELSE <<>>
           y == IF client = "open" THEN <<status>> ELSE <<>>
<1>1. ErrorEvent(FALSE) \in P
  BY DEF ErrorEvent, Message, IsFatal, IsStatus
<1>2. IsReadyCall(call) => ErrorEvent(Fatal) \in P
  BY DEF ErrorEvent, Message, IsFatal, IsStatus, Fatal
<1>3. IsReadyCall(call) /\ client = "open" => status \in P
  BY DEF Message, IsFatal, IsStatus
<1>4. IsReadyCall(call) => Answers(call) = x \o y
  BY DEF Answers, StatusEvents, IsReadyCall
<1>5. ~IsReadyCall(call) => Answers(call) \in {<<ErrorEvent(FALSE)>>, <<>>}
  BY DEF Answers, IsReadyCall
<1> HIDE DEF status, P
<1>6. \A e \in P : <<e>> \in Seq(P)
  OBVIOUS
<1>7. <<>> \in Seq(P) /\ \A v, w \in Seq(P) : v \o w \in Seq(P)
  OBVIOUS
<1>8. IsReadyCall(call) => x \in Seq(P) /\ y \in Seq(P)
  BY <1>2, <1>3, <1>6, <1>7
<1> HIDE DEF x, y
<1>9. Answers(call) \in Seq(P)
  BY <1>1, <1>4, <1>5, <1>6, <1>7, <1>8
<1>10. Answers(call)[k] \in P
  BY <1>9
<1> QED
  BY <1>10 DEF P

\* The first call of an app is asked and answered before any other.
IsAnswered(b) ==
  /\ OnMethodCall(b) /\ ~nativeError[b] /\ IsReadyCall(Head(toNative[b]))

\* What an app comes to be told in a step.
LEMMA ToldStep ==
  ASSUME LifeInv, [Next]_vars, NEW b \in Activity
  PROVE  /\ TellsFatal(b)' => \/ TellsFatal(b)
                              \/ nativeError[b] /\ OnMethodCall(b)
                              \/ IsAnswered(b) /\ Fatal
         /\ TellsStatus(b)' => TellsStatus(b) \/ (IsAnswered(b) /\ client = "open")
<1>1. /\ app'[b].fatal => TellsFatal(b)
      /\ app'[b].known => TellsStatus(b)
  <2>1. CASE Receive(b)
    <3>1. /\ toApp[b] \in Seq(Message) /\ toApp[b] # <<>>
          /\ app'[b].fatal = (app[b].fatal \/ IsFatal(Head(toApp[b])))
          /\ app'[b].known = (app[b].known \/ IsStatus(Head(toApp[b])))
      BY <2>1, AppReceives DEF LifeInv, IsFatal, IsStatus
    <3>2. 1 \in DOMAIN toApp[b] /\ Head(toApp[b]) = toApp[b][1]
      BY <3>1
    <3> QED
      BY <3>1, <3>2 DEF TellsFatal, TellsStatus
  <2>2. CASE app'[b].fatal = app[b].fatal /\ app'[b].known = app[b].known
    BY <2>2 DEF TellsFatal, TellsStatus
  <2>3. CASE app'[b] = NewApp
    BY <2>3 DEF NewApp
  <2>4. ASSUME ~Receive(b)
        PROVE  \/ app'[b] = NewApp
               \/ app'[b].fatal = app[b].fatal /\ app'[b].known = app[b].known
    <3>1. TypeOK
      BY DEF LifeInv
    <3>2. CASE Kill \/ \E a \in Activity : Destroy(a)
      BY <3>1, <3>2, EndFacts DEF Kill, Destroy
    <3>3. CASE \E a \in Activity : Receive(a)
      BY <2>4, <3>1, <3>3, AppReceives
    <3>4. CASE UNCHANGED app
      BY <3>4
    <3>5. CASE \E a \in Activity : StartApp(a) \/ StartSession(a) \/ Respond(a)
      <4>1. app[b] \in App /\ app \in [Activity -> App]
        BY <3>1 DEF TypeOK
      <4>2. ASSUME NEW a \in Activity, StartApp(a)
            PROVE  app'[b].fatal = app[b].fatal /\ app'[b].known = app[b].known
        BY <4>1, <4>2 DEF StartApp, App
      <4>3. ASSUME NEW a \in Activity, StartSession(a)
            PROVE  app'[b].fatal = app[b].fatal /\ app'[b].known = app[b].known
        BY <4>1, <4>3 DEF StartSession, App
      <4>4. ASSUME NEW a \in Activity, Respond(a)
            PROVE  app'[b].fatal = app[b].fatal /\ app'[b].known = app[b].known
        BY <4>1, <4>4 DEF Respond, App
      <4> QED
        BY <3>5, <4>2, <4>3, <4>4
    <3> QED
      BY <3>2, <3>3, <3>4, <3>5 DEF Next, Create, OpenLink, OnMethodCall, Finish,
        EndSession, vars
  <2> QED
    BY <2>1, <2>2, <2>3, <2>4
<1>2. ASSUME NEW i \in DOMAIN toApp'[b]
      PROVE  LET m == toApp'[b][i]
             IN  /\ IsFatal(m) => \/ TellsFatal(b)
                                  \/ nativeError[b] /\ OnMethodCall(b)
                                  \/ IsAnswered(b) /\ Fatal
                 /\ IsStatus(m) => TellsStatus(b) \/ (IsAnswered(b) /\ client = "open")
  <2> DEFINE m == toApp'[b][i]
  <2>1. CASE IsOld(b, i)
    BY <2>1 DEF IsOld, TellsFatal, TellsStatus
  <2>2. CASE IsLink(m)
    BY <2>2 DEF IsLink, IsFatal, IsStatus
  <2>3. CASE nativeError[b] /\ m = ErrorEvent(TRUE) /\ OnMethodCall(b)
    BY <2>3 DEF ErrorEvent, IsStatus
  <2>4. CASE ~nativeError[b] /\ OnMethodCall(b)
               /\ \E k \in DOMAIN Answers(Head(toNative[b])) :
                    m = Answers(Head(toNative[b]))[k]
    BY <2>4, CallerIsCurrent, AnswersTell DEF IsAnswered
  <2>5. CASE \E s \in running : m = [type |-> "SessionEvent", id |-> s[2], of |-> s[1]]
    BY <2>5 DEF IsFatal, IsStatus
  <2> QED
    BY <2>1, <2>2, <2>3, <2>4, <2>5, Delivered
<1>3. /\ TellsFatal(b)' <=> \/ app'[b].fatal
                            \/ \E i \in DOMAIN toApp'[b] : IsFatal(toApp'[b][i])
      /\ TellsStatus(b)' <=> \/ app'[b].known
                             \/ \E i \in DOMAIN toApp'[b] : IsStatus(toApp'[b][i])
  BY DEF TellsFatal, TellsStatus, IsFatal, IsStatus
<1>4. ASSUME TellsFatal(b)'
      PROVE  \/ TellsFatal(b)
             \/ nativeError[b] /\ OnMethodCall(b)
             \/ IsAnswered(b) /\ Fatal
  BY <1>1, <1>2, <1>3, <1>4, Zenon
<1>5. ASSUME TellsStatus(b)'
      PROVE  TellsStatus(b) \/ (IsAnswered(b) /\ client = "open")
  BY <1>1, <1>2, <1>3, <1>5, Zenon
<1> QED
  BY <1>4, <1>5, Zenon

\* What is under way from an app to its platform half after a step.
LEMMA Called ==
  ASSUME LifeInv, [Next]_vars, NEW b \in Activity
  PROVE  \/ toNative'[b] = <<>> /\ app'[b] = NewApp /\ life'[b] = "gone"
         \/ /\ toNative'[b] = toNative[b]
            /\ app'[b].up = app[b].up
            /\ app[b].known => app'[b].known
            /\ app'[b].open \subseteq app[b].open
         \/ /\ OnMethodCall(b) /\ toNative[b] # <<>>
            /\ toNative'[b] = Tail(toNative[b]) /\ app'[b] = app[b]
         \/ /\ StartApp(b) /\ app'[b].up /\ app'[b].known = app[b].known
            /\ app'[b].open = app[b].open
            /\ toNative'[b] = Append(toNative[b], [type |-> "AppReadyEvent"])
         \/ /\ app[b].known /\ life[b] = "alive"
            /\ app'[b].known /\ app'[b].up = app[b].up
            /\ \E id \in SessionID :
                 /\ toNative'[b] = Append(toNative[b], [type |-> "NewSessionEvent", id |-> id])
                 /\ app'[b].open = app[b].open \cup {id}
         \/ /\ Respond(b) /\ life[b] = "alive"
            /\ app'[b].known = app[b].known /\ app'[b].up = app[b].up
            /\ \E id \in app[b].open :
                 /\ toNative'[b] = Append(toNative[b], [type |-> "RespondEvent", id |-> id])
                 /\ app'[b].open = app[b].open \ {id}
<1>1. TypeOK /\ app[b] \in App /\ app \in [Activity -> App] /\ toNative[b] \in Seq(Call)
      /\ toNative \in [Activity -> Seq(Call)]
  BY DEF LifeInv, TypeOK
<1>2. CASE Kill \/ \E a \in Activity : Destroy(a)
  BY <1>1, <1>2, EndFacts DEF Kill, Destroy
<1>3. CASE UNCHANGED <<toNative, app>>
  BY <1>3
<1>4. ASSUME NEW a \in Activity, OnMethodCall(a), a = b
      PROVE  /\ toNative[b] # <<>>
             /\ toNative'[b] = Tail(toNative[b]) /\ app'[b] = app[b]
  BY <1>1, <1>4 DEF OnMethodCall
<1>5. ASSUME NEW a \in Activity, a # b,
             OnMethodCall(a) \/ StartApp(a) \/ StartSession(a) \/ Respond(a) \/ Receive(a)
      PROVE  toNative'[b] = toNative[b] /\ app'[b] = app[b]
  <2>1. toNative'[b] = toNative[b]
    BY <1>1, <1>5 DEF OnMethodCall, StartApp, StartSession, Respond, Receive, Dispatch
  <2>2. app'[b] = app[b]
    BY <1>1, <1>5 DEF OnMethodCall, StartApp, StartSession, Respond, Receive
  <2> QED
    BY <2>1, <2>2
<1>6. ASSUME StartApp(b)
      PROVE  /\ app'[b].up /\ app'[b].known = app[b].known /\ app'[b].open = app[b].open
             /\ toNative'[b] = Append(toNative[b], [type |-> "AppReadyEvent"])
  <2>1. toNative'[b] = Append(toNative[b], [type |-> "AppReadyEvent"])
    BY <1>1, <1>6 DEF StartApp, Dispatch
  <2>2. app'[b].up /\ app'[b].known = app[b].known /\ app'[b].open = app[b].open
    BY <1>1, <1>6 DEF StartApp, App
  <2> QED
    BY <2>1, <2>2
<1>7. ASSUME StartSession(b)
      PROVE  /\ app[b].known /\ life[b] = "alive" /\ app'[b].known /\ app'[b].up = app[b].up
             /\ \E id \in SessionID :
                  /\ toNative'[b] = Append(toNative[b], [type |-> "NewSessionEvent", id |-> id])
                  /\ app'[b].open = app[b].open \cup {id}
  <2> DEFINE id == app[b].counter + 1
  <2>1. id \in SessionID /\ app[b].known /\ life[b] = "alive"
    BY <1>1, <1>7, LifecycleAssumption DEF StartSession, SessionID, App
  <2>2. toNative'[b] = Append(toNative[b], [type |-> "NewSessionEvent", id |-> id])
    BY <1>1, <1>7 DEF StartSession, Dispatch
  <2>3. app'[b].known = app[b].known /\ app'[b].up = app[b].up
        /\ app'[b].open = app[b].open \cup {id}
    BY <1>1, <1>7 DEF StartSession, App
  <2> HIDE DEF id
  <2> QED
    BY <2>1, <2>2, <2>3
<1>8. ASSUME Respond(b)
      PROVE  /\ life[b] = "alive" /\ app'[b].known = app[b].known /\ app'[b].up = app[b].up
             /\ \E id \in app[b].open :
                  /\ toNative'[b] = Append(toNative[b], [type |-> "RespondEvent", id |-> id])
                  /\ app'[b].open = app[b].open \ {id}
  <2>1. PICK id \in app[b].open :
          /\ app' = [app EXCEPT ![b].open = @ \ {id}]
          /\ Dispatch(b, [type |-> "RespondEvent", id |-> id])
    BY <1>8 DEF Respond
  <2>2. toNative'[b] = Append(toNative[b], [type |-> "RespondEvent", id |-> id])
    BY <1>1, <2>1 DEF Dispatch
  <2>3. app'[b].known = app[b].known /\ app'[b].up = app[b].up
        /\ app'[b].open = app[b].open \ {id}
    BY <1>1, <2>1 DEF App
  <2> QED
    BY <1>8, <2>2, <2>3 DEF Respond
<1>9. ASSUME Receive(b)
      PROVE  /\ toNative'[b] = toNative[b] /\ app'[b].up = app[b].up
             /\ app[b].known => app'[b].known
             /\ app'[b].open \subseteq app[b].open
  BY <1>1, <1>9, AppReceives DEF Receive
<1>10. ASSUME NEW a \in Activity, Create(a) \/ OpenLink(a) \/ Finish(a)
       PROVE  UNCHANGED <<toNative, app>>
  BY <1>10 DEF Create, OpenLink, Finish
<1>11. CASE EndSession \/ UNCHANGED vars
  BY <1>11 DEF EndSession, vars
<1> QED
  BY <1>2, <1>3, <1>4, <1>5, <1>6, <1>7, <1>8, <1>9, <1>10, <1>11 DEF Next

LEMMA CallsStep ==
  ASSUME ToldInv, [Next]_vars
  PROVE  Calls'
<1> USE DEF ToldInv
<1> SUFFICES ASSUME NEW b \in Activity
             PROVE  /\ ~app'[b].up => toNative'[b] = <<>>
                    /\ app'[b].open # {} => app'[b].known
                    /\ \A i \in DOMAIN toNative'[b] :
                         IF IsReadyCall(toNative'[b][i])
                         THEN Len(toNative'[b]) = 1 ELSE app'[b].known
  BY DEF Calls, IsReadyCall
<1> DEFINE q == toNative[b]
<1>1. /\ ~app[b].up => q = <<>>
      /\ app[b].open # {} => app[b].known
      /\ \A i \in DOMAIN q : IF IsReadyCall(q[i]) THEN Len(q) = 1 ELSE app[b].known
      /\ q \in Seq(Call)
  BY DEF Calls, LifeInv, TypeOK
<1>2. ASSUME app[b].known, life[b] = "alive"
      PROVE  app[b].up /\ \A i \in DOMAIN q : ~IsReadyCall(q[i])
  <2>1. TellsStatus(b)
    BY <1>2 DEF TellsStatus
  <2>2. ~Asking(b)
    BY <1>2, <2>1 DEF Told
  <2> QED
    BY <2>2 DEF Asking
<1>3. CASE toNative'[b] = <<>> /\ app'[b] = NewApp
  BY <1>1, <1>3 DEF NewApp
<1>4. CASE /\ toNative'[b] = q /\ app'[b].up = app[b].up
           /\ app[b].known => app'[b].known
           /\ app'[b].open \subseteq app[b].open
  BY <1>1, <1>4
<1>5. CASE q # <<>> /\ toNative'[b] = Tail(q) /\ app'[b] = app[b]
  <2>1. ASSUME NEW i \in DOMAIN Tail(q)
        PROVE  i + 1 \in DOMAIN q /\ Tail(q)[i] = q[i + 1] /\ Len(q) # 1
    BY <1>1, <1>5
  <2> QED
    BY <1>1, <1>5, <2>1
<1>6. CASE /\ StartApp(b) /\ app'[b].up /\ app'[b].known = app[b].known
           /\ app'[b].open = app[b].open
           /\ toNative'[b] = Append(q, [type |-> "AppReadyEvent"])
  <2>1. q = <<>>
    BY <1>1, <1>6 DEF StartApp
  <2>2. Len(toNative'[b]) = 1 /\ \A i \in DOMAIN toNative'[b] : IsReadyCall(toNative'[b][i])
    BY <1>6, <2>1 DEF IsReadyCall
  <2> QED
    BY <1>1, <1>6, <2>2
<1>7. ASSUME app[b].known, life[b] = "alive", app'[b].known, app'[b].up = app[b].up,
             NEW c, c.type # "AppReadyEvent", toNative'[b] = Append(q, c)
      PROVE  /\ app'[b].up
             /\ \A i \in DOMAIN toNative'[b] : ~IsReadyCall(toNative'[b][i])
  <2>1. app[b].up /\ \A i \in DOMAIN q : ~IsReadyCall(q[i])
    BY <1>2, <1>7
  <2>2. ~IsReadyCall(c)
    BY <1>7 DEF IsReadyCall
  <2>3. ASSUME NEW i \in DOMAIN toNative'[b]
        PROVE  toNative'[b][i] = c \/ (i \in DOMAIN q /\ toNative'[b][i] = q[i])
    BY <1>1, <1>7
  <2> QED
    BY <1>7, <2>1, <2>2, <2>3
<1>8. CASE /\ app[b].known /\ life[b] = "alive"
           /\ app'[b].known /\ app'[b].up = app[b].up
           /\ \E id \in SessionID :
                toNative'[b] = Append(q, [type |-> "NewSessionEvent", id |-> id])
  <2>1. PICK id \in SessionID :
          toNative'[b] = Append(q, [type |-> "NewSessionEvent", id |-> id])
    BY <1>8
  <2>2. [type |-> "NewSessionEvent", id |-> id].type # "AppReadyEvent"
    OBVIOUS
  <2> QED
    BY <1>7, <1>8, <2>1, <2>2
<1>9. CASE /\ Respond(b) /\ life[b] = "alive"
           /\ app'[b].known = app[b].known /\ app'[b].up = app[b].up
           /\ \E id \in app[b].open :
                toNative'[b] = Append(q, [type |-> "RespondEvent", id |-> id])
  <2>1. PICK id \in app[b].open :
          toNative'[b] = Append(q, [type |-> "RespondEvent", id |-> id])
    BY <1>9
  <2>2. [type |-> "RespondEvent", id |-> id].type # "AppReadyEvent"
    OBVIOUS
  <2>3. app[b].known
    BY <1>1
  <2> QED
    BY <1>7, <1>9, <2>1, <2>2, <2>3
<1> QED
  BY <1>3, <1>4, <1>5, <1>6, <1>8, <1>9, Called

\* An app that is not asking any more does not ask again.
LEMMA AskingStep ==
  ASSUME ToldInv, [Next]_vars, NEW b \in Activity, Asking(b)', life'[b] = "alive"
  PROVE  Asking(b) /\ ~IsAnswered(b)
<1> USE DEF ToldInv
<1> DEFINE q == toNative[b]
<1>1. ~app'[b].up \/ \E i \in DOMAIN toNative'[b] : IsReadyCall(toNative'[b][i])
  BY DEF Asking, IsReadyCall
<1>2. /\ q \in Seq(Call)
      /\ ~app[b].up => q = <<>>
      /\ \A i \in DOMAIN q : IsReadyCall(q[i]) => Len(q) = 1
  BY DEF LifeInv, TypeOK, Calls
<1>3. ASSUME IsAnswered(b) PROVE FALSE
  <2>1. q # <<>> /\ IsReadyCall(Head(q)) /\ toNative'[b] = Tail(q) /\ app'[b] = app[b]
    BY <1>3, CallerIsCurrent DEF IsAnswered, OnMethodCall, LifeInv, TypeOK
  <2>2. 1 \in DOMAIN q /\ Head(q) = q[1]
    BY <1>2, <2>1
  <2>3. Len(q) = 1
    BY <1>2, <2>1, <2>2
  <2>4. \A i \in DOMAIN Tail(q) : FALSE
    BY <1>2, <2>1, <2>3, TailOfOne
  <2> QED
    BY <1>1, <1>2, <2>1, <2>4
<1>4. ASSUME app'[b].up = app[b].up, toNative'[b] = q
      PROVE  Asking(b)
  BY <1>1, <1>4 DEF Asking
<1>6. CASE q # <<>> /\ toNative'[b] = Tail(q) /\ app'[b] = app[b]
  <2>1. ASSUME NEW i \in DOMAIN Tail(q)
        PROVE  i + 1 \in DOMAIN q /\ Tail(q)[i] = q[i + 1]
    BY <1>2, <1>6
  <2> QED
    BY <1>1, <1>3, <1>6, <2>1 DEF Asking
<1>7. CASE StartApp(b)
  BY <1>3, <1>7 DEF StartApp, Asking
<1>8. ASSUME app'[b].up = app[b].up, NEW c, c.type # "AppReadyEvent",
             toNative'[b] = Append(q, c)
      PROVE  Asking(b)
  <2>1. ASSUME NEW i \in DOMAIN toNative'[b]
        PROVE  toNative'[b][i] = c \/ (i \in DOMAIN q /\ toNative'[b][i] = q[i])
    BY <1>2, <1>8
  <2>2. ~IsReadyCall(c)
    BY <1>8 DEF IsReadyCall
  <2> QED
    BY <1>1, <1>8, <2>1, <2>2 DEF Asking
<1>9. \A id : /\ [type |-> "NewSessionEvent", id |-> id].type # "AppReadyEvent"
              /\ [type |-> "RespondEvent", id |-> id].type # "AppReadyEvent"
  OBVIOUS
<1>10. Asking(b)
  <2>2. CASE toNative'[b] = q /\ app'[b].up = app[b].up
    BY <1>4, <2>2
  <2>3. CASE /\ app'[b].up = app[b].up
             /\ \E id \in SessionID :
                  toNative'[b] = Append(q, [type |-> "NewSessionEvent", id |-> id])
    <3>1. PICK id \in SessionID :
            toNative'[b] = Append(q, [type |-> "NewSessionEvent", id |-> id])
      BY <2>3
    <3> QED
      BY <1>8, <1>9, <2>3, <3>1
  <2>4. CASE /\ app'[b].up = app[b].up
             /\ \E id \in app[b].open :
                  toNative'[b] = Append(q, [type |-> "RespondEvent", id |-> id])
    <3>1. PICK id \in app[b].open :
            toNative'[b] = Append(q, [type |-> "RespondEvent", id |-> id])
      BY <2>4
    <3> QED
      BY <1>8, <1>9, <2>4, <3>1
  <2> QED
    BY <1>6, <1>7, <2>2, <2>3, <2>4, Called
<1> QED
  BY <1>3, <1>10

\* An activity that is alive after a step was so before, unless it is new.
LEMMA AliveBefore ==
  ASSUME LifeInv, [Next]_vars, NEW b \in Activity, ~Create(b)
  PROVE  /\ nativeError'[b] => nativeError[b]
         /\ life'[b] = "alive" =>
              life[b] = "alive" /\ nativeError'[b] = nativeError[b]
<1>1. life \in [Activity -> {"none", "alive", "finishing", "gone"}]
      /\ nativeError \in [Activity -> BOOLEAN]
  BY DEF LifeInv, TypeOK
<1>2. ASSUME NEW a \in Activity, Create(a)
      PROVE  life'[b] = life[b] /\ nativeError'[b] = nativeError[b]
  <2>1. a # b
    BY <1>2
  <2> QED
    BY <1>1, <1>2, <2>1 DEF Create
<1>3. CASE Kill \/ \E a \in Activity : Destroy(a)
  <2>1. CASE Kill
    BY <2>1, EndFacts DEF Kill, LifeInv
  <2>2. ASSUME NEW a \in Activity, Destroy(a)
        PROVE  \/ life'[b] = "gone" /\ nativeError'[b] = FALSE
               \/ life'[b] = life[b] /\ nativeError'[b] = nativeError[b]
    BY <2>2, EndFacts DEF Destroy, LifeInv
  <2> QED
    BY <1>3, <2>1, <2>2
<1>4. CASE \E a \in Activity : Finish(a)
  BY <1>1, <1>4 DEF Finish
<1>5. CASE UNCHANGED <<life, nativeError>>
  BY <1>5
<1> QED
  BY <1>2, <1>3, <1>4, <1>5 DEF Next, OpenLink, OnMethodCall, StartApp, StartSession,
    Respond, Receive, AppUnchanged, EndSession, nativeVars, vars

\* Every step keeps what apps have been told.
LEMMA ToldInvStep ==
  ASSUME ToldInv, [Next]_vars
  PROVE  ToldInv'
<1> USE DEF ToldInv
<1>1. LifeInv' /\ Calls'
  BY LifeStep, CallsStep
<1>2. Told'
  <2> SUFFICES ASSUME NEW b \in Activity
               PROVE  /\ ~(TellsFatal(b)' /\ TellsStatus(b)')
                      /\ nativeError'[b] => ~TellsStatus(b)'
                      /\ life'[b] = "alive" /\ ~nativeError'[b] /\ Asking(b)'
                           => ~TellsFatal(b)' /\ ~TellsStatus(b)'
    BY DEF Told
  <2>1. /\ ~(TellsFatal(b) /\ TellsStatus(b))
        /\ nativeError[b] => ~TellsStatus(b)
        /\ life[b] = "alive" /\ ~nativeError[b] /\ Asking(b)
             => ~TellsFatal(b) /\ ~TellsStatus(b)
    BY DEF Told
  <2>2. /\ TellsFatal(b)' => \/ TellsFatal(b)
                             \/ nativeError[b] /\ OnMethodCall(b)
                             \/ IsAnswered(b) /\ Fatal
        /\ TellsStatus(b)' => TellsStatus(b) \/ (IsAnswered(b) /\ client = "open")
    BY ToldStep
  <2>3. IsAnswered(b) => life[b] = "alive" /\ ~nativeError[b] /\ Asking(b)
    <3> SUFFICES ASSUME IsAnswered(b)
                 PROVE  life[b] = "alive" /\ ~nativeError[b] /\ Asking(b)
      OBVIOUS
    <3>1. toNative[b] \in Seq(Call) /\ toNative[b] # <<>> /\ life[b] = "alive"
      BY CallerIsCurrent DEF IsAnswered
    <3>2. 1 \in DOMAIN toNative[b] /\ Head(toNative[b]) = toNative[b][1]
      BY <3>1
    <3> QED
      BY <3>1, <3>2 DEF IsAnswered, Asking
  <2>4. CASE Create(b)
    <3>1. /\ life[b] = "none" /\ toApp'[b] = <<>> /\ app'[b] = NewApp
      BY <2>4 DEF Create, LifeInv, Unborn
    <3>2. ~TellsFatal(b)' /\ ~TellsStatus(b)'
      BY <3>1, None DEF TellsFatal, TellsStatus, NewApp
    <3> QED
      BY <3>2
  <2>5. ~Create(b) => /\ nativeError'[b] => nativeError[b]
                      /\ life'[b] = "alive" =>
                           life[b] = "alive" /\ nativeError'[b] = nativeError[b]
    BY AliveBefore
  <2>6. CASE ~Create(b)
    <3>1. Asking(b)' /\ life'[b] = "alive" => Asking(b) /\ ~IsAnswered(b)
      BY AskingStep
    <3>2. ~(TellsFatal(b)' /\ TellsStatus(b)')
      BY <2>1, <2>2, <2>3 DEF Fatal, IsAnswered
    <3>3. nativeError'[b] => ~TellsStatus(b)'
      BY <2>1, <2>2, <2>5, <2>6 DEF IsAnswered
    <3> QED
      BY <2>1, <2>2, <2>5, <2>6, <3>1, <3>2, <3>3
  <2> QED
    BY <2>4, <2>6
<1> QED
  BY <1>1, <1>2

LEMMA InitTold == Init => ToldInv
<1> SUFFICES ASSUME Init PROVE ToldInv
  OBVIOUS
<1>1. \A a \in Activity : /\ ~app[a].up /\ ~app[a].fatal /\ ~app[a].known
                          /\ app[a].open = {} /\ ~nativeError[a]
                          /\ toNative[a] = <<>> /\ toApp[a] = <<>>
  BY DEF Init, NewApp
<1>2. Calls /\ Told
  BY <1>1, None DEF Calls, Told, TellsFatal, TellsStatus
<1> QED
  BY <1>2, InitLife DEF ToldInv

\* No app is told both of a fatal error and of the status of a client.
THEOREM FatalTheorem == Spec => []FatalOrKnown
<1>1. Init => ToldInv
  BY InitTold
<1>2. ToldInv /\ [Next]_vars => ToldInv'
  BY ToldInvStep
<1>3. ToldInv => FatalOrKnown
  BY DEF ToldInv, Told, TellsFatal, TellsStatus, FatalOrKnown
<1> QED
  BY <1>1, <1>2, <1>3, PTL DEF Spec

-----------------------------------------------------------------------------
(* The lookup and the answers of the user. *)

HandledInv == ToldInv /\ Handled

\* While an activity stays alive no client is made, and the handlers of its
\* sessions stay where they are.
LEMMA WhileAlive ==
  ASSUME LifeInv, [Next]_vars, NEW b \in Activity,
         life[b] = "alive", life'[b] = "alive", loaded', ~nativeError[b]
  PROVE  /\ loaded
         /\ client = "open" => client' = "open"
         /\ \A id \in SessionID : lookup[id] = b => lookup'[id] = b
<1>1. TypeOK /\ Sealed
  BY DEF LifeInv
<1>2. ASSUME NEW a \in Activity, Create(a) PROVE FALSE
  BY <1>2 DEF Create
<1>3. ASSUME Kill PROVE FALSE
  BY <1>1, <1>3, EndFacts DEF Kill, Attached
<1>4. ASSUME NEW a \in Activity, Destroy(a)
      PROVE  loaded /\ UNCHANGED <<client, lookup>>
  BY <1>4 DEF Destroy, Stop
<1>5. ASSUME NEW a \in Activity, OnMethodCall(a)
      PROVE  /\ UNCHANGED <<client, clientErr, loaded>>
             /\ \A id \in SessionID : lookup[id] = b => lookup'[id] = b
  <2>1. life[a] = "alive" /\ Head(toNative[a]) \in Call
    BY <1>5, CallerIsCurrent
  <2>2. a = b
    BY <2>1 DEF LifeInv, Alone
  <2>3. CASE UNCHANGED goVars
    BY <2>3 DEF goVars
  <2>4. CASE NewSession(a, Head(toNative[a])) /\ UNCHANGED <<client, clientErr, loaded>>
    BY <1>1, <2>2, <2>4 DEF NewSession, TypeOK
  <2>5. CASE UNCHANGED <<lookup, client, clientErr, loaded>>
    BY <2>5
  <2> QED
    BY <1>5, <2>3, <2>4, <2>5 DEF OnMethodCall, RejectCall, HandleCall
<1>6. CASE UNCHANGED <<client, clientErr, loaded, lookup>>
  BY <1>6
<1> QED
  BY <1>2, <1>3, <1>4, <1>5, <1>6 DEF Next, OpenLink, Finish, StartApp, StartSession,
    Respond, Receive, AppUnchanged, EndSession, goVars, vars

\* The same of the next state.
StartsNext(a, id, n) ==
  lookup'[id] = a \/ \E j \in DOMAIN toNative'[a] :
                       j < n /\ toNative'[a][j] = [type |-> "NewSessionEvent", id |-> id]

\* A session that starts goes on doing so, when the first call is taken and
\* when another is added.
LEMMA StartsOn ==
  ASSUME LifeInv, [Next]_vars, NEW b \in Activity, NEW id \in SessionID, NEW n \in Nat,
         life[b] = "alive", life'[b] = "alive", loaded', ~nativeError[b],
         Starts(b, id, n)
  PROVE  /\ toNative'[b] = toNative[b] => StartsNext(b, id, n)
         /\ \A c : toNative'[b] = Append(toNative[b], c) => StartsNext(b, id, n)
         /\ /\ OnMethodCall(b) /\ loaded /\ n > 1
            /\ IsReadyCall(Head(toNative[b])) \/ ~Fatal
            => StartsNext(b, id, n - 1)
<1> DEFINE q == toNative[b]
           new == [type |-> "NewSessionEvent", id |-> id]
<1>1. q \in Seq(Call)
  BY DEF LifeInv, TypeOK
<1>2. lookup[id] = b => lookup'[id] = b
  BY WhileAlive
<1>3. lookup[id] = b \/ \E j \in DOMAIN q : j < n /\ q[j] = new
  BY DEF Starts
<1>4. \A k : StartsNext(b, id, k) <=>
               \/ lookup'[id] = b
               \/ \E j \in DOMAIN toNative'[b] : j < k /\ toNative'[b][j] = new
  BY DEF StartsNext
<1> HIDE DEF new
<1>5. ASSUME toNative'[b] = q PROVE StartsNext(b, id, n)
  BY <1>2, <1>3, <1>4, <1>5
<1>6. ASSUME NEW c, toNative'[b] = Append(q, c) PROVE StartsNext(b, id, n)
  <2>1. \A j \in DOMAIN q : j \in DOMAIN toNative'[b] /\ toNative'[b][j] = q[j]
    BY <1>1, <1>6
  <2> QED
    BY <1>2, <1>3, <1>4, <2>1
<1>7. ASSUME OnMethodCall(b), loaded, n > 1, IsReadyCall(Head(q)) \/ ~Fatal
      PROVE  StartsNext(b, id, n - 1)
  <2>1. q # <<>> /\ toNative'[b] = Tail(q) /\ HandleCall(b, Head(q))
    BY <1>7, CallerIsCurrent DEF OnMethodCall, RejectCall, LifeInv, TypeOK
  <2>2. CASE q[1] = new
    <3>1. Head(q) = new
      BY <1>1, <2>1, <2>2
    <3>2. Head(q).type = "NewSessionEvent" /\ Head(q).id = id /\ ~IsReadyCall(Head(q))
      BY <3>1 DEF new, IsReadyCall
    <3>3. NewSession(b, Head(q))
      BY <1>7, <2>1, <3>2 DEF HandleCall
    <3>4. lookup'[id] = b
      BY <3>2, <3>3 DEF NewSession, LifeInv, TypeOK
    <3> QED
      BY <1>4, <3>4
  <2>3. ASSUME NEW j \in DOMAIN q, j < n, q[j] = new, j # 1
        PROVE  StartsNext(b, id, n - 1)
    <3>1. j - 1 \in DOMAIN Tail(q) /\ Tail(q)[j - 1] = q[j] /\ j - 1 < n - 1
      BY <1>1, <2>1, <2>3
    <3> QED
      BY <1>4, <2>1, <2>3, <3>1
  <2> QED
    BY <1>2, <1>3, <1>4, <2>2, <2>3
<1> QED
  BY <1>5, <1>6, <1>7

\* An answer under way is that of a session.
LEMMA RespondId ==
  ASSUME NEW c \in Call, c.type = "RespondEvent" PROVE c.id \in SessionID
BY DEF Call

\* Every step keeps the handlers of the sessions that are open.
LEMMA HandledStep ==
  ASSUME HandledInv, [Next]_vars
  PROVE  Handled'
<1> USE DEF HandledInv
<1> SUFFICES ASSUME NEW b \in Activity, life'[b] = "alive", ~nativeError'[b], loaded'
             PROVE  /\ TellsStatus(b)' => client' = "open"
                    /\ \A id \in app'[b].open : StartsNext(b, id, Len(toNative'[b]) + 1)
                    /\ \A i \in DOMAIN toNative'[b] : toNative'[b][i].type = "RespondEvent"
                         => StartsNext(b, toNative'[b][i].id, i)
  BY DEF Handled, Starts, StartsNext
<1> DEFINE q == toNative[b]
<1>1. LifeInv /\ TypeOK /\ Told /\ Calls /\ q \in Seq(Call) /\ app[b] \in App
  BY DEF ToldInv, LifeInv, TypeOK
<1>2. CASE Create(b)
  <2>1. toNative'[b] = <<>> /\ toApp'[b] = <<>> /\ app'[b] = NewApp
    BY <1>1, <1>2 DEF Create, LifeInv, Unborn, Quiet
  <2> QED
    BY <2>1, None DEF NewApp, TellsStatus
<1>3. CASE ~Create(b)
  <2>1. life[b] = "alive" /\ ~nativeError[b]
    BY <1>1, <1>3, AliveBefore
  <2>2. /\ loaded /\ (client = "open" => client' = "open")
        /\ \A id \in SessionID : lookup[id] = b => lookup'[id] = b
    BY <1>1, <2>1, WhileAlive
  <2>3. /\ TellsStatus(b) => client = "open"
        /\ \A id \in app[b].open : Starts(b, id, Len(q) + 1)
        /\ \A i \in DOMAIN q : q[i].type = "RespondEvent" => Starts(b, q[i].id, i)
    BY <2>1, <2>2 DEF Handled
  <2>4. TellsStatus(b)' => client' = "open"
    <3>1. TellsStatus(b)' => TellsStatus(b) \/ (IsAnswered(b) /\ client = "open")
      BY <1>1, ToldStep
    <3> QED
      BY <2>2, <2>3, <3>1
  <2>5. /\ Len(q) \in Nat /\ app[b].open \subseteq SessionID
        /\ \A i \in DOMAIN q :
             i \in Nat /\ (q[i].type = "RespondEvent" => q[i].id \in SessionID)
    <3>1. \A i \in DOMAIN q : i \in Nat /\ q[i] \in Call
      BY <1>1
    <3> QED
      BY <1>1, <3>1, RespondId DEF App
  <2>6. CASE toNative'[b] = q /\ app'[b].open \subseteq app[b].open
    <3>1. ASSUME NEW id \in SessionID, NEW n \in Nat, Starts(b, id, n)
          PROVE  StartsNext(b, id, n)
      BY <1>1, <2>1, <2>6, <3>1, StartsOn
    <3> QED
      BY <2>3, <2>4, <2>5, <2>6, <3>1
  <2>7. CASE OnMethodCall(b) /\ q # <<>> /\ toNative'[b] = Tail(q) /\ app'[b] = app[b]
    <3>1. 1 \in DOMAIN q /\ Head(q) = q[1] /\ Len(q) >= 1
      BY <1>1, <2>7
    <3>2. IsReadyCall(Head(q)) \/ ~Fatal
      <4>1. IsReadyCall(Head(q)) \/ app[b].known
        BY <1>1, <3>1 DEF Calls
      <4> QED
        BY <2>3, <4>1 DEF TellsStatus, Fatal
    <3>3. ASSUME NEW id \in SessionID, NEW n \in Nat, n > 1, Starts(b, id, n)
          PROVE  StartsNext(b, id, n - 1)
      BY <1>1, <2>1, <2>2, <2>7, <3>2, <3>3, StartsOn
    <3>4. Len(toNative'[b]) + 1 = (Len(q) + 1) - 1 /\ Len(q) + 1 \in Nat /\ Len(q) + 1 > 1
      BY <1>1, <2>5, <2>7, <3>1
    <3>5. \A id \in app'[b].open : StartsNext(b, id, Len(toNative'[b]) + 1)
      <4> SUFFICES ASSUME NEW id \in app'[b].open
                   PROVE  StartsNext(b, id, Len(toNative'[b]) + 1)
        OBVIOUS
      <4>1. id \in SessionID /\ Starts(b, id, Len(q) + 1)
        BY <2>3, <2>5, <2>7
      <4>2. StartsNext(b, id, (Len(q) + 1) - 1)
        BY <3>3, <3>4, <4>1
      <4> QED
        BY <3>4, <4>2
    <3>6. ASSUME NEW i \in DOMAIN toNative'[b], toNative'[b][i].type = "RespondEvent"
          PROVE  StartsNext(b, toNative'[b][i].id, i)
      <4>1. i + 1 \in DOMAIN q /\ toNative'[b][i] = q[i + 1] /\ i + 1 > 1 /\ (i + 1) - 1 = i
        BY <1>1, <2>7, <3>6
      <4>2. q[i + 1].id \in SessionID /\ i + 1 \in Nat /\ Starts(b, q[i + 1].id, i + 1)
        BY <2>3, <2>5, <3>6, <4>1
      <4>3. StartsNext(b, q[i + 1].id, (i + 1) - 1)
        BY <3>3, <4>1, <4>2
      <4> QED
        BY <4>1, <4>3
    <3> QED
      BY <2>4, <3>5, <3>6
  <2>8. ASSUME NEW c, toNative'[b] = Append(q, c)
        PROVE  /\ \A id \in SessionID, n \in Nat : Starts(b, id, n) => StartsNext(b, id, n)
               /\ Len(toNative'[b]) = Len(q) + 1
               /\ toNative'[b][Len(q) + 1] = c /\ Len(q) + 1 \in DOMAIN toNative'[b]
               /\ \A i \in DOMAIN toNative'[b] :
                    i = Len(q) + 1 \/ (i \in DOMAIN q /\ toNative'[b][i] = q[i])
    <3>1. \A id \in SessionID, n \in Nat : Starts(b, id, n) => StartsNext(b, id, n)
      BY <1>1, <2>1, <2>8, StartsOn
    <3> QED
      BY <1>1, <2>8, <3>1
  <2>9. ASSUME NEW id \in SessionID, NEW n \in Nat, NEW k \in Nat, k >= n,
               StartsNext(b, id, n)
        PROVE  StartsNext(b, id, k)
    <3>1. DOMAIN toNative'[b] \subseteq Nat
      <4>1. toNative'[b] \in Seq(Call)
        BY <1>1, TypeStep DEF TypeOK
      <4> QED
        BY <4>1
    <3> QED
      BY <2>9, <3>1 DEF StartsNext
  <2>10. ASSUME NEW c, toNative'[b] = Append(q, c), c.type # "RespondEvent",
                NEW new \in SUBSET SessionID, app'[b].open \subseteq app[b].open \cup new,
                \A id \in new : c = [type |-> "NewSessionEvent", id |-> id]
         PROVE  /\ \A id \in app'[b].open : StartsNext(b, id, Len(toNative'[b]) + 1)
                /\ \A i \in DOMAIN toNative'[b] : toNative'[b][i].type = "RespondEvent"
                     => StartsNext(b, toNative'[b][i].id, i)
    <3>1. /\ \A id \in SessionID, n \in Nat : Starts(b, id, n) => StartsNext(b, id, n)
          /\ Len(toNative'[b]) = Len(q) + 1
          /\ toNative'[b][Len(q) + 1] = c /\ Len(q) + 1 \in DOMAIN toNative'[b]
          /\ \A i \in DOMAIN toNative'[b] :
               i = Len(q) + 1 \/ (i \in DOMAIN q /\ toNative'[b][i] = q[i])
      BY <2>8, <2>10
    <3>2. ASSUME NEW id \in new PROVE StartsNext(b, id, Len(toNative'[b]) + 1)
      <4>1. /\ toNative'[b][Len(q) + 1] = [type |-> "NewSessionEvent", id |-> id]
            /\ Len(q) + 1 \in DOMAIN toNative'[b] /\ Len(q) + 1 < Len(toNative'[b]) + 1
        BY <2>5, <2>10, <3>1
      <4> QED
        BY <4>1 DEF StartsNext
    <3>3. ASSUME NEW id \in app[b].open PROVE StartsNext(b, id, Len(toNative'[b]) + 1)
      <4>1. id \in SessionID /\ StartsNext(b, id, Len(q) + 1)
        BY <2>3, <2>5, <3>1
      <4> QED
        BY <2>5, <2>9, <3>1, <4>1
    <3>4. ASSUME NEW i \in DOMAIN toNative'[b], toNative'[b][i].type = "RespondEvent"
          PROVE  StartsNext(b, toNative'[b][i].id, i)
      <4>1. i \in DOMAIN q /\ toNative'[b][i] = q[i]
        BY <2>10, <3>1, <3>4
      <4> QED
        BY <2>3, <2>5, <3>1, <3>4, <4>1
    <3> QED
      BY <2>10, <3>2, <3>3, <3>4
  <2>11. CASE /\ StartApp(b) /\ app'[b].open = app[b].open
              /\ toNative'[b] = Append(q, [type |-> "AppReadyEvent"])
    <3>1. app'[b].open \subseteq app[b].open \cup {} /\ {} \in SUBSET SessionID
      BY <2>11
    <3>2. [type |-> "AppReadyEvent"].type # "RespondEvent"
      OBVIOUS
    <3> QED
      BY <2>4, <2>10, <2>11, <3>1, <3>2
  <2>12. CASE \E id \in SessionID :
                /\ toNative'[b] = Append(q, [type |-> "NewSessionEvent", id |-> id])
                /\ app'[b].open = app[b].open \cup {id}
    <3>1. PICK id \in SessionID :
            /\ toNative'[b] = Append(q, [type |-> "NewSessionEvent", id |-> id])
            /\ app'[b].open = app[b].open \cup {id}
      BY <2>12
    <3>2. /\ [type |-> "NewSessionEvent", id |-> id].type # "RespondEvent"
          /\ {id} \in SUBSET SessionID
      OBVIOUS
    <3> QED
      BY <2>4, <2>10, <3>1, <3>2
  <2>13. CASE \E id \in app[b].open :
                /\ toNative'[b] = Append(q, [type |-> "RespondEvent", id |-> id])
                /\ app'[b].open = app[b].open \ {id}
    <3>1. PICK id \in app[b].open :
            /\ toNative'[b] = Append(q, [type |-> "RespondEvent", id |-> id])
            /\ app'[b].open = app[b].open \ {id}
      BY <2>13
    <3>2. /\ \A x \in SessionID, n \in Nat : Starts(b, x, n) => StartsNext(b, x, n)
          /\ Len(toNative'[b]) = Len(q) + 1
          /\ toNative'[b][Len(q) + 1].id = id
          /\ \A i \in DOMAIN toNative'[b] :
               i = Len(q) + 1 \/ (i \in DOMAIN q /\ toNative'[b][i] = q[i])
      BY <2>8, <3>1
    <3>3. ASSUME NEW x \in app[b].open
          PROVE  StartsNext(b, x, Len(q) + 1) /\ StartsNext(b, x, Len(toNative'[b]) + 1)
      <4>1. x \in SessionID /\ StartsNext(b, x, Len(q) + 1)
        BY <2>3, <2>5, <3>2
      <4> QED
        BY <2>5, <2>9, <3>2, <4>1
    <3>4. ASSUME NEW i \in DOMAIN toNative'[b], toNative'[b][i].type = "RespondEvent"
          PROVE  StartsNext(b, toNative'[b][i].id, i)
      <4>1. CASE i = Len(q) + 1
        BY <3>2, <3>3, <4>1
      <4>2. CASE i \in DOMAIN q /\ toNative'[b][i] = q[i]
        BY <2>3, <2>5, <3>2, <3>4, <4>2
      <4> QED
        BY <3>2, <4>1, <4>2
    <3> QED
      BY <2>4, <3>1, <3>3, <3>4
  <2>14. life'[b] # "gone"
    OBVIOUS
  <2> QED
    BY <1>1, <2>6, <2>7, <2>11, <2>12, <2>13, <2>14, Called
<1> QED
  BY <1>2, <1>3

\* What the user answers goes to the handler made for the session of this app.
THEOREM AnswersTheorem == Spec => []AnswersReachOwnSession
<1>1. Init => HandledInv
  <2> SUFFICES ASSUME Init PROVE HandledInv
    OBVIOUS
  <2>1. \A a \in Activity : life[a] = "none"
    BY DEF Init
  <2> QED
    BY <2>1, InitTold DEF HandledInv, Handled
<1>2. HandledInv /\ [Next]_vars => HandledInv'
  BY ToldInvStep, HandledStep DEF HandledInv
<1>3. HandledInv => AnswersReachOwnSession
  <2> SUFFICES ASSUME HandledInv, NEW a \in Activity,
                      life[a] = "alive", ~nativeError[a], loaded,
                      toNative[a] # <<>>, Head(toNative[a]).type = "RespondEvent"
               PROVE  lookup[Head(toNative[a]).id] = a
    BY DEF AnswersReachOwnSession
  <2>1. toNative[a] \in Seq(Call)
    BY DEF HandledInv, ToldInv, LifeInv, TypeOK
  <2>2. /\ 1 \in DOMAIN toNative[a] /\ Head(toNative[a]) = toNative[a][1]
        /\ \A j \in DOMAIN toNative[a] : ~(j < 1)
    BY <2>1
  <2>3. Starts(a, toNative[a][1].id, 1)
    BY <2>2 DEF HandledInv, Handled
  <2> QED
    BY <2>2, <2>3 DEF Starts
<1> QED
  BY <1>1, <1>2, <1>3, PTL DEF Spec

-----------------------------------------------------------------------------
(* The sessions an app waits for. *)

NewSessionCall(id) == [type |-> "NewSessionEvent", id |-> id]
EndEvent(b, id) == [type |-> "SessionEvent", id |-> id, of |-> b]

IsIn(q, e) == \E i \in DOMAIN q : q[i] = e

UnderWayInv == HandledInv /\ SessionsAreUnderWay

LEMMA KillEnds ==
  ASSUME TypeOK, Kill, NEW b \in Activity, life[b] = "alive", life'[b] = "alive"
  PROVE  FALSE
<1> DEFINE S == {a \in Activity : Attached(a)}
<1>1. EndOf(S) /\ b \in S
  BY DEF Kill, Attached
<1> HIDE DEF S
<1>2. life'[b] = "gone"
  BY <1>1, EndFacts
<1> QED
  BY <1>2

\* Send takes nothing out of a channel, and Go's own message gets to the app it
\* knows.
LEMMA SentStays ==
  ASSUME TypeOK, NEW a, NEW own \in Seq(Message), NEW go \in Seq(Message),
         Send(a, own, go), NEW b \in Activity
  PROVE  /\ \A e : IsIn(toApp[b], e) => IsIn(toApp'[b], e)
         /\ b = bridge /\ Attached(b) => \A e : IsIn(go, e) => IsIn(toApp'[b], e)
<1> DEFINE x == toApp[b]
           y == IF b = a THEN own ELSE <<>>
           z == IF b = bridge /\ Attached(b) THEN go ELSE <<>>
<1>1. x \in Seq(Message) /\ y \in Seq(Message) /\ z \in Seq(Message)
  BY DEF TypeOK
<1>2. toApp'[b] = (x \o y) \o z
  BY DEF Send
<1> HIDE DEF x, y, z
<1>3. \A i \in DOMAIN x : i \in DOMAIN ((x \o y) \o z) /\ ((x \o y) \o z)[i] = x[i]
  BY <1>1
<1>4. \A i \in DOMAIN z :
        /\ Len(x) + Len(y) + i \in DOMAIN ((x \o y) \o z)
        /\ ((x \o y) \o z)[Len(x) + Len(y) + i] = z[i]
  BY <1>1
<1>5. \A e : IsIn(x, e) => IsIn((x \o y) \o z, e)
  BY <1>3 DEF IsIn
<1>6. \A e : IsIn(z, e) => IsIn((x \o y) \o z, e)
  BY <1>4 DEF IsIn
<1>7. b = bridge /\ Attached(b) => z = go
  BY DEF z
<1> QED
  BY <1>2, <1>5, <1>6, <1>7 DEF x

\* What is in the tail of a sequence, or at its head.
LEMMA HeadOrTail ==
  ASSUME NEW S, NEW q \in Seq(S), NEW e, IsIn(q, e)
  PROVE  q # <<>> /\ (Head(q) = e \/ IsIn(Tail(q), e))
<1>1. PICK i \in DOMAIN q : q[i] = e
  BY DEF IsIn
<1>2. q # <<>> /\ Head(q) = q[1]
  BY <1>1
<1>3. CASE i = 1
  BY <1>1, <1>2, <1>3
<1>4. CASE i # 1
  <2>1. i - 1 \in DOMAIN Tail(q) /\ Tail(q)[i - 1] = q[i]
    BY <1>1, <1>2, <1>4
  <2> QED
    BY <1>1, <1>2, <2>1 DEF IsIn
<1> QED
  BY <1>3, <1>4

LEMMA AppendKeeps ==
  ASSUME NEW S, NEW q \in Seq(S), NEW c
  PROVE  IsIn(Append(q, c), c) /\ \A e : IsIn(q, e) => IsIn(Append(q, c), e)
<1>1. Len(q) + 1 \in DOMAIN Append(q, c) /\ Append(q, c)[Len(q) + 1] = c
  OBVIOUS
<1>2. \A i \in DOMAIN q : i \in DOMAIN Append(q, c) /\ Append(q, c)[i] = q[i]
  OBVIOUS
<1> QED
  BY <1>1, <1>2 DEF IsIn

\* What a call of its own or of another app leaves in the channel of an app.
LEMMA CallStays ==
  ASSUME LifeInv, NEW a \in Activity, OnMethodCall(a), NEW b \in Activity, NEW e,
         IsIn(toApp[b], e)
  PROVE  IsIn(toApp'[b], e)
<1> USE DEF LifeInv
<1>1. CASE RejectCall(a)
  <2>1. ErrorEvent(TRUE) \in Message
    BY DEF ErrorEvent, Message
  <2>2. <<ErrorEvent(TRUE)>> \in Seq(Message) /\ Send(a, <<ErrorEvent(TRUE)>>, <<>>)
    BY <1>1, <2>1, Singleton DEF RejectCall
  <2> QED
    BY <2>2, EmptyMessages, SentStays
<1>2. CASE HandleCall(a, Head(toNative[a]))
  <2> DEFINE call == Head(toNative[a])
             kept == IF call.type = "AppReadyEvent" /\ initialURL[a] # NoLink
                       THEN <<[type |-> "HandleURLEvent", link |-> initialURL[a]]>>
                       ELSE <<>>
  <2>1. kept \in Seq(Message)
    BY KeptType
  <2>2. Answers(call) \in Seq(Message)
    BY CallerIsCurrent, AnswersType
  <2>3. Send(a, kept, <<>>) \/ Send(a, kept, Answers(call))
    BY <1>2 DEF HandleCall
  <2> HIDE DEF kept, call
  <2> QED
    BY <2>1, <2>2, <2>3, EmptyMessages, SentStays
<1> QED
  BY <1>1, <1>2 DEF OnMethodCall

\* A message to an app that stays alive stays until the app receives it.
LEMMA MessagesStay ==
  ASSUME LifeInv, [Next]_vars, NEW b \in Activity, life'[b] = "alive", ~Receive(b),
         NEW e, IsIn(toApp[b], e)
  PROVE  IsIn(toApp'[b], e)
<1> USE DEF LifeInv
<1>1. CASE UNCHANGED toApp
  BY <1>1
<1>2. CASE Kill \/ \E a \in Activity : Destroy(a)
  BY <1>2, EndFacts DEF Kill, Destroy
<1>3. ASSUME NEW a \in Activity, OpenLink(a) PROVE IsIn(toApp'[b], e)
  <2>1. ASSUME NEW link \in Link,
               Send(a, <<[type |-> "HandleURLEvent", link |-> link]>>, <<>>)
        PROVE  IsIn(toApp'[b], e)
    <3> DEFINE own == <<[type |-> "HandleURLEvent", link |-> link]>>
    <3>1. [type |-> "HandleURLEvent", link |-> link] \in Message
      BY DEF Message
    <3>2. own \in Seq(Message) /\ Send(a, own, <<>>)
      BY <2>1, <3>1, Singleton
    <3> HIDE DEF own
    <3> QED
      BY <3>2, EmptyMessages, SentStays
  <2> QED
    BY <1>1, <1>3, <2>1 DEF OpenLink
<1>4. ASSUME NEW a \in Activity, OnMethodCall(a) PROVE IsIn(toApp'[b], e)
  BY <1>4, CallStays
<1>5. CASE EndSession
  <2>1. PICK s \in running :
          Send(bridge, <<>>, <<[type |-> "SessionEvent", id |-> s[2], of |-> s[1]]>>)
    BY <1>5 DEF EndSession
  <2> DEFINE m == [type |-> "SessionEvent", id |-> s[2], of |-> s[1]]
             go == <<m>>
  <2>2. m \in Message
    BY DEF TypeOK, Message
  <2>3. go \in Seq(Message) /\ Send(bridge, <<>>, go)
    BY <2>1, <2>2, Singleton
  <2> HIDE DEF go
  <2> QED
    BY <2>3, EmptyMessages, SentStays
<1>6. ASSUME NEW a \in Activity, Receive(a) PROVE IsIn(toApp'[b], e)
  <2>1. a # b
    BY <1>6
  <2> QED
    BY <1>6, <2>1 DEF Receive, TypeOK
<1> QED
  BY <1>1, <1>2, <1>3, <1>4, <1>5, <1>6 DEF Next, Create, Finish, StartApp, StartSession,
    Respond, vars

\* A session of an app that stays alive goes on, or its end is on the way.
LEMMA RunningStays ==
  ASSUME LifeInv, [Next]_vars, NEW b \in Activity, life[b] = "alive", life'[b] = "alive",
         ~nativeError[b], NEW id, <<b, id>> \in running
  PROVE  <<b, id>> \in running' \/ IsIn(toApp'[b], EndEvent(b, id))
<1> USE DEF LifeInv
<1>1. CASE UNCHANGED running
  BY <1>1
<1>2. CASE Kill
  BY <1>2, KillEnds
<1>3. ASSUME NEW a \in Activity, OnMethodCall(a) PROVE <<b, id>> \in running'
  BY <1>3 DEF OnMethodCall, RejectCall, HandleCall, NewSession, goVars
<1>4. CASE EndSession
  <2>1. PICK s \in running :
          /\ running' = running \ {s}
          /\ Send(bridge, <<>>, <<[type |-> "SessionEvent", id |-> s[2], of |-> s[1]]>>)
    BY <1>4 DEF EndSession
  <2>2. CASE s # <<b, id>>
    BY <2>1, <2>2
  <2>3. CASE s = <<b, id>>
    <3> DEFINE m == EndEvent(b, id)
               go == <<m>>
    <3>1. m \in Message
      BY <2>3 DEF TypeOK, Message, EndEvent
    <3>2. go \in Seq(Message) /\ Send(bridge, <<>>, go)
      BY <2>1, <2>3, <3>1, Singleton DEF EndEvent
    <3>3. IsIn(go, m)
      BY DEF IsIn
    <3>4. b = bridge /\ Attached(b)
      BY DEF Current, Attached
    <3> HIDE DEF go, m
    <3>5. IsIn(toApp'[b], m)
      BY <3>2, <3>3, <3>4, EmptyMessages, SentStays
    <3> QED
      BY <3>5 DEF m
  <2> QED
    BY <2>2, <2>3
<1>5. ASSUME NEW a \in Activity, Create(a) PROVE UNCHANGED running
  BY <1>5 DEF Create, Start, goVars
<1>6. ASSUME NEW a \in Activity, Destroy(a) PROVE UNCHANGED running
  BY <1>6 DEF Destroy, Stop
<1> QED
  BY <1>1, <1>2, <1>3, <1>4, <1>5, <1>6 DEF Next, OpenLink, Finish, StartApp, StartSession,
    Respond, Receive, AppUnchanged, goVars, vars

\* Every step keeps the sessions the apps wait for under way.
LEMMA UnderWayStep ==
  ASSUME UnderWayInv, [Next]_vars
  PROVE  SessionsAreUnderWay'
<1> USE DEF UnderWayInv, HandledInv, ToldInv
<1> DEFINE IsUnderWay(b, id) == \/ <<b, id>> \in running
                                \/ IsIn(toNative[b], NewSessionCall(id))
                                \/ IsIn(toApp[b], EndEvent(b, id))
<1> SUFFICES ASSUME NEW b \in Activity, life'[b] = "alive", ui' = "free",
                    NEW id \in app'[b].open
             PROVE  \/ <<b, id>> \in running'
                    \/ IsIn(toNative'[b], NewSessionCall(id))
                    \/ IsIn(toApp'[b], EndEvent(b, id))
  BY DEF SessionsAreUnderWay, IsIn, NewSessionCall, EndEvent
<1> DEFINE q == toNative[b]
           Goal == \/ <<b, id>> \in running'
                   \/ IsIn(toNative'[b], NewSessionCall(id))
                   \/ IsIn(toApp'[b], EndEvent(b, id))
<1>1. LifeInv /\ TypeOK /\ Calls /\ Told /\ q \in Seq(Call)
  BY DEF LifeInv, TypeOK
<1>2. ~Create(b)
  <2> SUFFICES ASSUME Create(b) PROVE FALSE
    OBVIOUS
  <2>1. app'[b] = NewApp
    BY <1>1 DEF Create, LifeInv, Unborn
  <2> QED
    BY <2>1 DEF NewApp
<1>3. life[b] = "alive" /\ nativeError'[b] = nativeError[b]
  BY <1>1, <1>2, AliveBefore
<1>4. ui = "free"
  <2>1. CASE Kill
    BY <1>1, <1>3, <2>1, KillEnds
  <2>2. CASE \E a \in Activity : OnMethodCall(a)
    BY <2>2 DEF OnMethodCall
  <2>3. CASE UNCHANGED ui
    BY <2>3
  <2> QED
    BY <2>1, <2>2, <2>3 DEF Next, Create, OpenLink, Finish, Destroy, StartApp, StartSession,
      Respond, Receive, AppUnchanged, EndSession, nativeVars, vars
<1>5. ASSUME id \in app[b].open PROVE IsUnderWay(b, id)
  BY <1>3, <1>4, <1>5 DEF SessionsAreUnderWay, IsIn, NewSessionCall, EndEvent
<1>6. app[b].known => ~nativeError[b]
  BY <1>1 DEF Told, TellsStatus
<1>7. ASSUME id \in app[b].open PROVE app[b].known /\ ~nativeError[b]
  BY <1>1, <1>6, <1>7 DEF Calls
<1>8. ASSUME id \in app[b].open, <<b, id>> \in running PROVE Goal
  BY <1>1, <1>3, <1>7, <1>8, RunningStays
<1>9. ASSUME id \in app[b].open, IsIn(toApp[b], EndEvent(b, id)) PROVE Goal
  <2>1. CASE ~Receive(b)
    BY <1>1, <1>9, <2>1, MessagesStay
  <2>2. CASE Receive(b)
    <3>1. /\ toApp[b] \in Seq(Message) /\ toApp'[b] = Tail(toApp[b])
          /\ Head(toApp[b]).type = "SessionEvent" => Head(toApp[b]).id \notin app'[b].open
      BY <1>1, <2>2, AppReceives DEF TypeOK
    <3>2. Head(toApp[b]) # EndEvent(b, id)
      BY <3>1 DEF EndEvent
    <3> QED
      BY <1>9, <3>1, <3>2, HeadOrTail
  <2> QED
    BY <2>1, <2>2
<1>10. CASE toNative'[b] = q /\ app'[b].open \subseteq app[b].open
  BY <1>5, <1>8, <1>9, <1>10
<1>11. CASE OnMethodCall(b) /\ q # <<>> /\ toNative'[b] = Tail(q) /\ app'[b] = app[b]
  <2>1. ASSUME Head(q) = NewSessionCall(id) PROVE <<b, id>> \in running'
    <3>1. HandleCall(b, Head(q)) /\ loaded
      BY <1>7, <1>11 DEF OnMethodCall, RejectCall, HandleCall
    <3>2. client = "open"
      BY <1>3, <1>7, <1>11, <3>1 DEF Handled, TellsStatus
    <3>3. Head(q).type = "NewSessionEvent" /\ Head(q).id = id
      BY <2>1 DEF NewSessionCall
    <3>4. NewSession(b, Head(q))
      BY <3>1, <3>2, <3>3 DEF HandleCall, Fatal
    <3> QED
      BY <3>2, <3>3, <3>4 DEF NewSession
  <2>2. ASSUME IsIn(q, NewSessionCall(id)) PROVE Goal
    BY <1>1, <1>11, <2>1, <2>2, HeadOrTail
  <2> QED
    BY <1>5, <1>8, <1>9, <1>11, <2>2
<1>12. ASSUME NEW c, toNative'[b] = Append(q, c),
              id \in app[b].open \/ c = NewSessionCall(id)
       PROVE  Goal
  <2>1. IsIn(toNative'[b], c) /\ \A e : IsIn(q, e) => IsIn(toNative'[b], e)
    BY <1>1, <1>12, AppendKeeps
  <2> QED
    BY <1>5, <1>8, <1>9, <1>12, <2>1
<1>13. CASE \E n \in SessionID :
              /\ toNative'[b] = Append(q, [type |-> "NewSessionEvent", id |-> n])
              /\ app'[b].open = app[b].open \cup {n}
  BY <1>12, <1>13 DEF NewSessionCall
<1>14. CASE \E n \in app[b].open :
              /\ toNative'[b] = Append(q, [type |-> "RespondEvent", id |-> n])
              /\ app'[b].open = app[b].open \ {n}
  BY <1>12, <1>14
<1>15. CASE /\ app'[b].open = app[b].open
            /\ toNative'[b] = Append(q, [type |-> "AppReadyEvent"])
  BY <1>12, <1>15
<1>16. life'[b] # "gone"
  OBVIOUS
<1> QED
  BY <1>1, <1>10, <1>11, <1>13, <1>14, <1>15, <1>16, Called

\* A session an app waits for runs, is about to start, or has its end on the
\* way, whatever handlers and sessions earlier apps have left.
THEOREM SessionsTheorem == Spec => []SessionsAreUnderWay
<1>1. Init => UnderWayInv
  <2> SUFFICES ASSUME Init PROVE UnderWayInv
    OBVIOUS
  <2>1. \A a \in Activity : life[a] = "none"
    BY DEF Init
  <2> QED
    BY <2>1, InitTold DEF UnderWayInv, HandledInv, Handled, SessionsAreUnderWay
<1>2. UnderWayInv /\ [Next]_vars => UnderWayInv'
  BY ToldInvStep, HandledStep, UnderWayStep DEF UnderWayInv, HandledInv
<1>3. UnderWayInv => SessionsAreUnderWay
  BY DEF UnderWayInv
<1> QED
  BY <1>1, <1>2, <1>3, PTL DEF Spec

-----------------------------------------------------------------------------
(* Links. *)

NoLinks(q) == \A i \in DOMAIN q : ~IsLink(q[i])

\* Where a channel to an app leads: the last link in it is this one, or the app
\* has it, or has used it.
LeadsTo(q, pointer, link) ==
  /\ \A i \in DOMAIN q :
       IsLink(q[i]) /\ (\A j \in DOMAIN q : j > i => ~IsLink(q[j])) => q[i].link = link
  /\ NoLinks(q) => pointer \in {NoLink, link}

\* The platform half keeps the latest link until the app asks for the first
\* time, and from then on every link is on its way or has arrived.
Points(a) ==
  /\ Attached(a) /\ appReady[a] => LeadsTo(toApp[a], app[a].pointer, latest[a])
  /\ Attached(a) /\ ~appReady[a] =>
       initialURL[a] = latest[a] /\ app[a].pointer = NoLink /\ NoLinks(toApp[a])

Ready ==
  \A a \in Activity :
    /\ life[a] = "none" => ~appReady[a]
    /\ Attached(a) /\ appReady[a] => ~Asking(a)

PointInv == ToldInv /\ Ready /\ \A a \in Activity : Points(a)

\* Concatenation, element by element.
LEMMA Joined ==
  ASSUME NEW q \in Seq(Message), NEW r \in Seq(Message)
  PROVE  /\ q \o r \in Seq(Message)
         /\ \A i \in DOMAIN q : i \in DOMAIN (q \o r) /\ (q \o r)[i] = q[i]
         /\ \A k \in DOMAIN r :
              Len(q) + k \in DOMAIN (q \o r) /\ (q \o r)[Len(q) + k] = r[k]
         /\ \A i \in DOMAIN (q \o r) :
              \/ i \in DOMAIN q
              \/ \E k \in DOMAIN r : i = Len(q) + k
<1>1. /\ q \o r \in Seq(Message) /\ Len(q) \in Nat /\ Len(r) \in Nat
      /\ Len(q \o r) = Len(q) + Len(r)
      /\ DOMAIN (q \o r) = 1..Len(q \o r)
      /\ DOMAIN q = 1..Len(q) /\ DOMAIN r = 1..Len(r)
  OBVIOUS
<1>2. \A i \in DOMAIN q : i \in DOMAIN (q \o r) /\ (q \o r)[i] = q[i]
  OBVIOUS
<1>3. ASSUME NEW k \in DOMAIN r
      PROVE  Len(q) + k \in DOMAIN (q \o r) /\ (q \o r)[Len(q) + k] = r[k]
  BY <1>1
<1>4. ASSUME NEW i \in DOMAIN (q \o r), i \notin DOMAIN q
      PROVE  \E k \in DOMAIN r : i = Len(q) + k
  <2>1. i - Len(q) \in DOMAIN r /\ i = Len(q) + (i - Len(q))
    BY <1>1, <1>4
  <2> QED
    BY <2>1
<1> QED
  BY <1>1, <1>2, <1>3, <1>4

\* Messages that are no links leave alone where a channel leads.
LEMMA LeadsOn ==
  ASSUME NEW q \in Seq(Message), NEW r \in Seq(Message), NoLinks(r),
         NEW p, NEW l, LeadsTo(q, p, l)
  PROVE  LeadsTo(q \o r, p, l)
<1>1. ASSUME NEW i \in DOMAIN (q \o r), IsLink((q \o r)[i]),
             \A j \in DOMAIN (q \o r) : j > i => ~IsLink((q \o r)[j])
      PROVE  (q \o r)[i].link = l
  <2>1. i \in DOMAIN q /\ (q \o r)[i] = q[i]
    BY <1>1, Joined DEF NoLinks
  <2>2. \A j \in DOMAIN q : j > i => ~IsLink(q[j])
    BY <1>1, Joined
  <2> QED
    BY <1>1, <2>1, <2>2 DEF LeadsTo
<1>2. NoLinks(q \o r) => NoLinks(q)
  BY Joined DEF NoLinks
<1> QED
  BY <1>1, <1>2 DEF LeadsTo

\* A channel leads to the link that was put into it last.
LEMMA LinkLast ==
  ASSUME NEW q \in Seq(Message), NEW m \in Message, IsLink(m), NEW p
  PROVE  LeadsTo(q \o <<m>>, p, m.link)
<1> DEFINE s == <<m>>
           n == Len(q) + 1
<1>1. s \in Seq(Message) /\ DOMAIN s = {1} /\ s[1] = m /\ Len(q) \in Nat
  OBVIOUS
<1> HIDE DEF s
<1>2. n \in DOMAIN (q \o s) /\ (q \o s)[n] = m
  BY <1>1, Joined
<1>3. ASSUME NEW i \in DOMAIN (q \o s) PROVE i = n \/ n > i
  BY <1>1, Joined
<1>4. ASSUME NEW i \in DOMAIN (q \o s),
             \A j \in DOMAIN (q \o s) : j > i => ~IsLink((q \o s)[j])
      PROVE  (q \o s)[i] = m
  BY <1>2, <1>3, <1>4
<1>5. ~NoLinks(q \o s)
  BY <1>2 DEF NoLinks
<1>6. LeadsTo(q \o s, p, m.link)
  BY <1>4, <1>5 DEF LeadsTo
<1> QED
  BY <1>6 DEF s

\* A link that is taken becomes the pointer.
LEMMA LeadsTail ==
  ASSUME NEW q \in Seq(Message), q # <<>>, NEW p, NEW l, LeadsTo(q, p, l)
  PROVE  LeadsTo(Tail(q), IF IsLink(Head(q)) THEN Head(q).link ELSE p, l)
<1> DEFINE t == Tail(q)
<1>1. /\ t \in Seq(Message) /\ 1 \in DOMAIN q /\ q[1] = Head(q)
      /\ \A i \in DOMAIN t : i \in Nat /\ i + 1 \in DOMAIN q /\ t[i] = q[i + 1]
      /\ \A i \in DOMAIN q : i \in Nat /\ (i = 1 \/ (i - 1 \in DOMAIN t /\ i > 1))
  <2>1. t \in Seq(Message) /\ 1 \in DOMAIN q /\ q[1] = Head(q) /\ Len(t) = Len(q) - 1
    OBVIOUS
  <2>2. DOMAIN q = 1..Len(q) /\ DOMAIN t = 1..Len(t) /\ Len(q) \in Nat /\ Len(t) \in Nat
    BY <2>1
  <2>3. ASSUME NEW i \in DOMAIN t PROVE t[i] = q[i + 1]
    OBVIOUS
  <2> HIDE DEF t
  <2> QED
    BY <2>1, <2>2, <2>3
<1>2. ASSUME NEW i \in DOMAIN t, IsLink(t[i]),
             \A j \in DOMAIN t : j > i => ~IsLink(t[j])
      PROVE  t[i].link = l
  <2>1. ASSUME NEW j \in DOMAIN q, j > i + 1 PROVE ~IsLink(q[j])
    <3>1. j \in Nat /\ i \in Nat /\ j - 1 \in DOMAIN t
      BY <1>1, <2>1
    <3>2. j - 1 > i /\ (j - 1) + 1 = j
      BY <2>1, <3>1
    <3>3. t[j - 1] = q[j]
      BY <1>1, <3>1, <3>2
    <3> QED
      BY <1>2, <3>1, <3>2, <3>3
  <2> QED
    BY <1>1, <1>2, <2>1 DEF LeadsTo
<1>3. ASSUME NoLinks(t)
      PROVE  (IF IsLink(Head(q)) THEN Head(q).link ELSE p) \in {NoLink, l}
  <2>1. \A j \in DOMAIN q : j > 1 => ~IsLink(q[j])
    BY <1>1, <1>3 DEF NoLinks
  <2>2. CASE IsLink(Head(q))
    BY <1>1, <2>1, <2>2 DEF LeadsTo
  <2>3. CASE ~IsLink(Head(q))
    BY <1>1, <2>1, <2>3 DEF LeadsTo, NoLinks
  <2> QED
    BY <2>2, <2>3
<1> QED
  BY <1>2, <1>3 DEF LeadsTo

\* What is sent leaves alone where the channel of an app leads, unless it is a
\* link, sent to this app.
SendsNone(a, own, b) == b # a \/ NoLinks(own)

LEMMA SendLeads ==
  ASSUME TypeOK, NEW a, NEW own \in Seq(Message), NEW go \in Seq(Message),
         Send(a, own, go), NoLinks(go), NEW b \in Activity
  PROVE  /\ SendsNone(a, own, b) =>
              /\ NoLinks(toApp[b]) => NoLinks(toApp'[b])
              /\ \A p, l : LeadsTo(toApp[b], p, l) => LeadsTo(toApp'[b], p, l)
         /\ \A m \in Message : b = a /\ own = <<m>> /\ IsLink(m) =>
              \A p : LeadsTo(toApp'[b], p, m.link)
<1> DEFINE q == toApp[b]
           y == IF b = a THEN own ELSE <<>>
           z == IF b = bridge /\ Attached(b) THEN go ELSE <<>>
<1>1. q \in Seq(Message) /\ y \in Seq(Message) /\ z \in Seq(Message)
  BY DEF TypeOK
<1>2. toApp'[b] = (q \o y) \o z
  BY DEF Send
<1>3. NoLinks(z) /\ (SendsNone(a, own, b) => NoLinks(y))
  BY None DEF NoLinks, SendsNone
<1>4. b = a => y = own
  OBVIOUS
<1> HIDE DEF q, y, z
<1>5. q \o y \in Seq(Message)
  BY <1>1
<1>6. ASSUME NoLinks(y)
      PROVE  /\ NoLinks(q) => NoLinks((q \o y) \o z)
             /\ \A p, l : LeadsTo(q, p, l) => LeadsTo((q \o y) \o z, p, l)
  <2>1. \A p, l : LeadsTo(q, p, l) => LeadsTo(q \o y, p, l)
    BY <1>1, <1>6, LeadsOn
  <2>2. \A p, l : LeadsTo(q \o y, p, l) => LeadsTo((q \o y) \o z, p, l)
    BY <1>1, <1>3, <1>5, LeadsOn
  <2>3. NoLinks(q) => NoLinks(q \o y)
    BY <1>1, <1>6, Joined DEF NoLinks
  <2>4. NoLinks(q \o y) => NoLinks((q \o y) \o z)
    BY <1>1, <1>3, <1>5, Joined DEF NoLinks
  <2> QED
    BY <2>1, <2>2, <2>3, <2>4
<1>7. ASSUME NEW m \in Message, y = <<m>>, IsLink(m), NEW p
      PROVE  LeadsTo((q \o y) \o z, p, m.link)
  <2>1. LeadsTo(q \o y, p, m.link)
    BY <1>1, <1>7, LinkLast
  <2> QED
    BY <1>1, <1>3, <1>5, <2>1, LeadsOn
<1>8. \A m \in Message : b = a /\ own = <<m>> /\ IsLink(m) =>
              \A p : LeadsTo((q \o y) \o z, p, m.link)
  BY <1>4, <1>7
<1> QED
  BY <1>2, <1>3, <1>6, <1>8 DEF q

\* The first call of an app is its only one, and the app is up.
LEMMA FirstCall ==
  ASSUME ToldInv, NEW a \in Activity, OnMethodCall(a), IsReadyCall(Head(toNative[a]))
  PROVE  Asking(a) /\ ~Asking(a)'
<1> DEFINE q == toNative[a]
<1>1. q \in Seq(Call) /\ q # <<>>
  BY CallerIsCurrent DEF ToldInv
<1>2. 1 \in DOMAIN q /\ q[1] = Head(q)
  BY <1>1
<1>3. Len(q) = 1 /\ app[a].up
  BY <1>1, <1>2 DEF ToldInv, Calls
<1>4. toNative'[a] = Tail(q) /\ app'[a] = app[a]
  BY DEF OnMethodCall, ToldInv, LifeInv, TypeOK
<1>5. \A i \in DOMAIN Tail(q) : FALSE
  BY <1>1, <1>3, TailOfOne
<1> QED
  BY <1>2, <1>3, <1>4, <1>5 DEF Asking

\* What a step does to the notes of the platform half.
LEMMA ReadyStep ==
  ASSUME PointInv, [Next]_vars
  PROVE  Ready'
<1> SUFFICES ASSUME NEW b \in Activity
             PROVE  /\ life'[b] = "none" => ~appReady'[b]
                    /\ Attached(b)' /\ appReady'[b] => ~Asking(b)'
  BY DEF Ready
<1> USE DEF PointInv, ToldInv
<1>1. /\ life \in [Activity -> {"none", "alive", "finishing", "gone"}]
      /\ appReady \in [Activity -> BOOLEAN]
      /\ TypeOK /\ Quiet'
  BY LifeStep DEF LifeInv, TypeOK
<1>2. /\ life[b] = "none" => ~appReady[b]
      /\ Attached(b) /\ appReady[b] => ~Asking(b)
  BY DEF Ready
<1>3. ASSUME NEW a \in Activity, OnMethodCall(a)
      PROVE  /\ life'[b] = life[b]
             /\ \/ appReady'[b] = appReady[b]
                \/ life[b] = "alive" /\ ~Asking(b)'
  <2>1. life' = life /\ life[a] = "alive"
    BY <1>3, CallerIsCurrent DEF OnMethodCall
  <2>2. CASE RejectCall(a)
    BY <2>1, <2>2 DEF RejectCall
  <2>3. CASE HandleCall(a, Head(toNative[a])) /\ ~IsReadyCall(Head(toNative[a]))
    BY <1>1, <2>1, <2>3 DEF HandleCall, NoteReady, IsReadyCall
  <2>4. CASE HandleCall(a, Head(toNative[a])) /\ IsReadyCall(Head(toNative[a]))
    <3>1. ~Asking(a)'
      BY <1>3, <2>4, FirstCall
    <3>2. a # b => appReady'[b] = appReady[b]
      BY <1>1, <2>4 DEF HandleCall, NoteReady
    <3> QED
      BY <2>1, <3>1, <3>2
  <2> QED
    BY <1>3, <2>2, <2>3, <2>4 DEF OnMethodCall
<1>4. ASSUME NEW a \in Activity, Create(a)
      PROVE  appReady'[b] = appReady[b] /\ (a # b => life'[b] = life[b])
             /\ (a = b => life[b] = "none" /\ life'[b] # "none")
  BY <1>1, <1>4 DEF Create
<1>5. ASSUME Kill \/ \E a \in Activity : Destroy(a)
      PROVE  (life'[b] = "gone" /\ ~appReady'[b])
             \/ (life'[b] = life[b] /\ appReady'[b] = appReady[b])
  BY <1>1, <1>5, EndFacts DEF Kill, Destroy
<1>6. ASSUME NEW a \in Activity, Finish(a)
      PROVE  appReady'[b] = appReady[b] /\ (life'[b] = life[b] \/ (life[b] = "alive" /\ life'[b] = "finishing"))
  BY <1>1, <1>6 DEF Finish
<1>7. \/ \E a \in Activity : Create(a) \/ Finish(a) \/ Destroy(a) \/ OnMethodCall(a)
      \/ Kill
      \/ UNCHANGED <<life, appReady>>
  BY DEF Next, OpenLink, StartApp, StartSession, Respond, Receive, AppUnchanged,
    EndSession, nativeVars, vars
<1>8. life'[b] = "none" => ~appReady'[b]
  BY <1>2, <1>3, <1>4, <1>5, <1>6, <1>7
<1>9. ASSUME Attached(b)', appReady'[b], Asking(b)' PROVE FALSE
  <2>1. life'[b] = "alive"
    BY <1>1, <1>9, None DEF Quiet, Asking, Attached
  <2>2. Asking(b)
    BY <1>9, <2>1, AskingStep
  <2>3. appReady[b] /\ (Attached(b) \/ life[b] = "none")
    BY <1>3, <1>4, <1>5, <1>6, <1>7, <1>9, <2>1 DEF Attached
  <2> QED
    BY <1>2, <2>2, <2>3
<1> QED
  BY <1>8, <1>9

\* A call of an app that is no first call sends no link; the first one sends
\* the link that was kept.
LEMMA PointsCall ==
  ASSUME PointInv, NEW a \in Activity, OnMethodCall(a), NEW b \in Activity, Points(b)
  PROVE  Points(b)'
<1> USE DEF PointInv, ToldInv
<1> DEFINE call == Head(toNative[a])
           link == [type |-> "HandleURLEvent", link |-> initialURL[a]]
           kept == IF call.type = "AppReadyEvent" /\ initialURL[a] # NoLink
                     THEN <<link>> ELSE <<>>
<1>1. /\ TypeOK /\ life' = life /\ initialURL' = initialURL /\ latest' = latest
      /\ app' = app
      /\ appReady \in [Activity -> BOOLEAN]
      /\ life[a] = "alive" /\ call \in Call
      /\ initialURL \in [Activity -> Link \cup {NoLink}]
  BY CallerIsCurrent DEF OnMethodCall, LifeInv, TypeOK
<1>2. NoLinks(<<>>)
  BY None DEF NoLinks
<1>3. ASSUME RejectCall(a)
      PROVE  /\ appReady' = appReady
             /\ NoLinks(toApp[b]) => NoLinks(toApp'[b])
             /\ \A p, l : LeadsTo(toApp[b], p, l) => LeadsTo(toApp'[b], p, l)
  <2> DEFINE own == <<ErrorEvent(TRUE)>>
  <2>1. ErrorEvent(TRUE) \in Message /\ ~IsLink(ErrorEvent(TRUE))
    BY DEF ErrorEvent, Message, IsLink
  <2>2. own \in Seq(Message) /\ NoLinks(own)
    BY <2>1, Singleton, Only DEF NoLinks
  <2>3. Send(a, own, <<>>) /\ appReady' = appReady
    BY <1>3 DEF RejectCall
  <2> HIDE DEF own
  <2> QED
    BY <1>1, <1>2, <2>2, <2>3, EmptyMessages, SendLeads DEF SendsNone
<1>4. ASSUME HandleCall(a, call)
      PROVE  \E go \in Seq(Message) : NoLinks(go) /\ Send(a, kept, go)
  <2>1. Answers(call) \in Seq(Message) /\ NoLinks(Answers(call))
    BY <1>1, AnswersType DEF NoLinks, IsLink
  <2>2. Send(a, kept, <<>>) \/ Send(a, kept, Answers(call))
    BY <1>4 DEF HandleCall
  <2> HIDE DEF kept
  <2> QED
    BY <1>2, <2>1, <2>2, EmptyMessages
<1>5. kept \in Seq(Message)
  BY <1>1, KeptType
<1>6. CASE RejectCall(a)
  BY <1>1, <1>3, <1>6 DEF Points, Attached
<1>7. CASE HandleCall(a, call) /\ kept = <<>>
  <2>1. /\ NoLinks(toApp[b]) => NoLinks(toApp'[b])
        /\ \A p, l : LeadsTo(toApp[b], p, l) => LeadsTo(toApp'[b], p, l)
    <3>1. PICK go \in Seq(Message) : NoLinks(go) /\ Send(a, <<>>, go)
      BY <1>4, <1>7
    <3> QED
      BY <1>1, <1>2, <3>1, EmptyMessages, SendLeads DEF SendsNone
  <2>2. CASE appReady'[b] = appReady[b]
    BY <1>1, <2>1, <2>2 DEF Points, Attached
  <2>3. CASE appReady'[b] # appReady[b]
    <3>1. b = a /\ ~appReady[a] /\ appReady'[b] /\ call.type = "AppReadyEvent"
      <4>1. appReady' = [appReady EXCEPT ![a] = @ \/ call.type = "AppReadyEvent"]
        BY <1>7 DEF HandleCall, NoteReady
      <4> HIDE DEF call, kept
      <4>2. b = a
        BY <1>1, <2>3, <4>1
      <4>3. appReady'[a] = (appReady[a] \/ call.type = "AppReadyEvent")
        BY <1>1, <4>1
      <4> QED
        BY <2>3, <4>2, <4>3, <1>1
    <3>2. initialURL[a] = NoLink
      <4>1. <<link>> # <<>>
        OBVIOUS
      <4> QED
        BY <1>7, <3>1, <4>1
    <3>3. app[b].pointer = NoLink /\ latest[b] = NoLink /\ NoLinks(toApp[b])
      BY <1>1, <3>1, <3>2 DEF Points, Attached
    <3>4. LeadsTo(toApp[b], app[b].pointer, latest[b])
      BY <3>3 DEF LeadsTo, NoLinks
    <3>5. LeadsTo(toApp'[b], app[b].pointer, latest[b])
      BY <2>1, <3>4
    <3> QED
      BY <1>1, <3>1, <3>5 DEF Points
  <2> QED
    BY <2>2, <2>3
<1>8. CASE HandleCall(a, call) /\ kept # <<>>
  <2>1. call.type = "AppReadyEvent" /\ initialURL[a] # NoLink /\ kept = <<link>>
    BY <1>8
  <2>2. link \in Message /\ IsLink(link) /\ link.link = initialURL[a]
    BY <1>1, <2>1 DEF Message, IsLink
  <2>3. Asking(a)
    BY <2>1, FirstCall DEF IsReadyCall
  <2>4. ~appReady[a]
    BY <1>1, <2>3 DEF Ready, Attached
  <2>5. appReady'[a] /\ (b # a => appReady'[b] = appReady[b])
    BY <1>1, <1>8, <2>1 DEF HandleCall, NoteReady
  <2>6. PICK go \in Seq(Message) : NoLinks(go) /\ Send(a, kept, go)
    BY <1>4, <1>8
  <2>7. CASE b # a
    <3>1. /\ NoLinks(toApp[b]) => NoLinks(toApp'[b])
          /\ \A p, l : LeadsTo(toApp[b], p, l) => LeadsTo(toApp'[b], p, l)
      <4> HIDE DEF kept
      <4>1. SendsNone(a, kept, b)
        BY <2>7 DEF SendsNone
      <4> QED
        BY <1>1, <1>5, <2>6, <4>1, SendLeads
    <3> QED
      BY <1>1, <2>5, <2>7, <3>1 DEF Points, Attached
  <2>8. CASE b = a
    <3>1. LeadsTo(toApp'[b], app[b].pointer, link.link)
      <4> HIDE DEF kept, link
      <4> QED
        BY <1>1, <1>5, <2>1, <2>2, <2>6, <2>8, SendLeads
    <3>2. latest[b] = initialURL[a]
      BY <1>1, <2>4, <2>8 DEF Points, Attached
    <3> QED
      BY <1>1, <2>2, <2>5, <2>8, <3>1, <3>2 DEF Points
  <2> QED
    BY <2>7, <2>8
<1> QED
  BY <1>6, <1>7, <1>8 DEF OnMethodCall

\* A link that comes waits for the app, or follows those that are under way.
LEMMA PointsOpen ==
  ASSUME TypeOK, NEW a \in Activity, OpenLink(a), NEW b \in Activity, Points(b)
  PROVE  Points(b)'
<1>1. PICK link \in Link :
        /\ latest' = [latest EXCEPT ![a] = link]
        /\ \/ /\ appReady[a]
              /\ Send(a, <<[type |-> "HandleURLEvent", link |-> link]>>, <<>>)
              /\ UNCHANGED initialURL
           \/ /\ ~appReady[a]
              /\ initialURL' = [initialURL EXCEPT ![a] = link]
              /\ UNCHANGED toApp
  BY DEF OpenLink, Keep
<1>2. /\ life' = life /\ appReady' = appReady /\ app' = app
      /\ initialURL \in [Activity -> Link \cup {NoLink}]
      /\ latest \in [Activity -> Link \cup {NoLink}]
  BY DEF OpenLink, TypeOK
<1>3. CASE ~appReady[a] /\ initialURL' = [initialURL EXCEPT ![a] = link] /\ UNCHANGED toApp
  BY <1>1, <1>2, <1>3 DEF Points, Attached
<1>4. CASE /\ appReady[a] /\ UNCHANGED initialURL
           /\ Send(a, <<[type |-> "HandleURLEvent", link |-> link]>>, <<>>)
  <2> DEFINE m == [type |-> "HandleURLEvent", link |-> link]
             own == <<m>>
  <2>1. m \in Message /\ IsLink(m) /\ m.link = link
    BY DEF Message, IsLink
  <2>2. own \in Seq(Message) /\ Send(a, own, <<>>) /\ NoLinks(<<>>)
    BY <1>4, <2>1, None DEF NoLinks
  <2>3. own = <<m>>
    OBVIOUS
  <2> HIDE DEF m, own
  <2>4. CASE b # a
    <3>1. /\ NoLinks(toApp[b]) => NoLinks(toApp'[b])
          /\ \A p, l : LeadsTo(toApp[b], p, l) => LeadsTo(toApp'[b], p, l)
      <4>1. SendsNone(a, own, b)
        BY <2>4 DEF SendsNone
      <4> QED
        BY <2>2, <4>1, EmptyMessages, SendLeads
    <3>2. latest'[b] = latest[b] /\ initialURL'[b] = initialURL[b]
      BY <1>1, <1>2, <1>4, <2>4
    <3>3. app'[b] = app[b] /\ appReady'[b] = appReady[b] /\ life'[b] = life[b]
      BY <1>2
    <3> QED
      BY <3>1, <3>2, <3>3 DEF Points, Attached
  <2>5. CASE b = a
    <3>1. LeadsTo(toApp'[b], app[b].pointer, m.link)
      BY <2>1, <2>2, <2>3, <2>5, EmptyMessages, SendLeads
    <3> QED
      BY <1>1, <1>2, <1>4, <2>1, <2>5, <3>1 DEF Points
  <2> QED
    BY <2>4, <2>5
<1> QED
  BY <1>1, <1>3, <1>4

\* What an app takes from its channel, or does without it.
LEMMA PointsApp ==
  ASSUME PointInv, NEW a \in Activity,
         StartApp(a) \/ StartSession(a) \/ Respond(a) \/ Receive(a),
         NEW b \in Activity, Points(b)
  PROVE  Points(b)'
<1> USE DEF PointInv, ToldInv
<1>1. /\ TypeOK /\ app \in [Activity -> App] /\ toApp \in [Activity -> Seq(Message)]
      /\ UNCHANGED <<life, appReady, initialURL, latest>>
  BY DEF LifeInv, TypeOK, StartApp, StartSession, Respond, Receive, AppUnchanged, nativeVars
<1>2. CASE StartApp(a) \/ StartSession(a) \/ Respond(a)
  <2>1. toApp' = toApp
    BY <1>2 DEF StartApp, StartSession, Respond
  <2>2. app'[b].pointer \in {NoLink, app[b].pointer}
    <3>1. CASE StartApp(a)
      BY <1>1, <3>1 DEF StartApp, App
    <3>2. CASE StartSession(a)
      BY <1>1, <3>2 DEF StartSession, App
    <3>3. CASE Respond(a)
      BY <1>1, <3>3 DEF Respond, App
    <3> QED
      BY <1>2, <3>1, <3>2, <3>3
  <2>3. LeadsTo(toApp[b], app[b].pointer, latest[b])
          => LeadsTo(toApp[b], app'[b].pointer, latest[b])
    BY <2>2 DEF LeadsTo
  <2> QED
    BY <1>1, <2>1, <2>2, <2>3 DEF Points, Attached
<1>3. CASE Receive(a) /\ a # b
  <2>1. app'[b] = app[b] /\ toApp'[b] = toApp[b]
    BY <1>1, <1>3 DEF Receive
  <2> QED
    BY <1>1, <2>1 DEF Points, Attached
<1>4. CASE Receive(a) /\ a = b
  <2> DEFINE q == toApp[b]
  <2>1. /\ q \in Seq(Message) /\ q # <<>> /\ toApp'[b] = Tail(q)
        /\ app'[b].pointer = IF IsLink(Head(q)) THEN Head(q).link ELSE app[b].pointer
    BY <1>1, <1>4, AppReceives DEF IsLink
  <2>2. NoLinks(q) => ~IsLink(Head(q)) /\ NoLinks(Tail(q))
    <3>1. 1 \in DOMAIN q /\ q[1] = Head(q)
      BY <2>1
    <3>2. \A i \in DOMAIN Tail(q) : i + 1 \in DOMAIN q /\ Tail(q)[i] = q[i + 1]
      BY <2>1
    <3> QED
      BY <3>1, <3>2 DEF NoLinks
  <2>3. LeadsTo(q, app[b].pointer, latest[b])
          => LeadsTo(Tail(q), app'[b].pointer, latest[b])
    BY <2>1, LeadsTail
  <2> QED
    BY <1>1, <2>1, <2>2, <2>3 DEF Points, Attached
<1> QED
  BY <1>2, <1>3, <1>4

LEMMA PointsStep ==
  ASSUME PointInv, [Next]_vars, NEW b \in Activity
  PROVE  Points(b)'
<1> USE DEF PointInv, ToldInv
<1>1. TypeOK /\ Points(b) /\ (life[b] = "none" => ~appReady[b])
  BY DEF LifeInv, Ready
<1>2. ASSUME \/ UNCHANGED <<life[b], appReady[b], initialURL[b], latest[b], app[b], toApp[b]>>
             \/ life'[b] = "gone"
      PROVE  Points(b)'
  BY <1>1, <1>2 DEF Points, Attached
<1>3. ASSUME NEW a \in Activity, Create(a) PROVE Points(b)'
  <2>1. CASE a # b
    <3>1. UNCHANGED <<life[b], appReady[b], initialURL[b], latest[b], app[b], toApp[b]>>
      BY <1>1, <1>3, <2>1 DEF Create, TypeOK
    <3> QED
      BY <1>2, <3>1
  <2>2. CASE a = b
    <3>1. /\ appReady'[b] = FALSE /\ initialURL'[b] = latest'[b]
          /\ app'[b] = NewApp /\ toApp'[b] = <<>>
      BY <1>1, <1>3, <2>2 DEF Create, TypeOK, LifeInv, Unborn
    <3> QED
      BY <3>1, None DEF Points, NoLinks, NewApp
  <2> QED
    BY <2>1, <2>2
<1>4. ASSUME NEW a \in Activity, Finish(a) PROVE Points(b)'
  <2>1. Attached(b)' => Attached(b)
    BY <1>1, <1>4 DEF Finish, Attached, TypeOK
  <2> QED
    BY <1>1, <1>4, <2>1 DEF Finish, Points
<1>5. ASSUME Kill \/ \E a \in Activity : Destroy(a) PROVE Points(b)'
  BY <1>1, <1>2, <1>5, EndFacts DEF Kill, Destroy
<1>6. ASSUME EndSession PROVE Points(b)'
  <2>1. PICK s \in running :
          Send(bridge, <<>>, <<[type |-> "SessionEvent", id |-> s[2], of |-> s[1]]>>)
    BY <1>6 DEF EndSession
  <2> DEFINE e == [type |-> "SessionEvent", id |-> s[2], of |-> s[1]]
             go == <<e>>
  <2>2. e \in Message /\ ~IsLink(e)
    BY <1>1 DEF TypeOK, Message, IsLink
  <2>3. go \in Seq(Message) /\ NoLinks(go)
    BY <2>2, Singleton, Only DEF NoLinks
  <2>4. Send(bridge, <<>>, go) /\ SendsNone(bridge, <<>>, b)
    BY <2>1, None DEF SendsNone, NoLinks
  <2> HIDE DEF go
  <2>5. /\ NoLinks(toApp[b]) => NoLinks(toApp'[b])
        /\ \A p, l : LeadsTo(toApp[b], p, l) => LeadsTo(toApp'[b], p, l)
    BY <1>1, <2>3, <2>4, EmptyMessages, SendLeads
  <2>6. UNCHANGED <<life, appReady, initialURL, latest, app>>
    BY <1>6 DEF EndSession, nativeVars
  <2> QED
    BY <1>1, <2>5, <2>6 DEF Points, Attached
<1>7. ASSUME UNCHANGED vars PROVE Points(b)'
  BY <1>2, <1>7 DEF vars, nativeVars
<1>8. ASSUME NEW a \in Activity,
             StartApp(a) \/ StartSession(a) \/ Respond(a) \/ Receive(a)
      PROVE  Points(b)'
  BY <1>1, <1>8, PointsApp
<1>9. ASSUME NEW a \in Activity, OnMethodCall(a) \/ OpenLink(a) PROVE Points(b)'
  BY <1>1, <1>9, PointsCall, PointsOpen
<1> QED
  BY <1>3, <1>4, <1>5, <1>6, <1>7, <1>8, <1>9 DEF Next

\* The pointer of an app that is ready, with no link under way, is that of the
\* link its activity was opened with last, or gone with its session: a link that
\* the platform half kept until AppReadyEvent is neither lost nor comes after a
\* later one.
THEOREM PointerTheorem == Spec => []PointerIsLatest
<1>1. Init => PointInv
  <2> SUFFICES ASSUME Init PROVE PointInv
    OBVIOUS
  <2>1. \A a \in Activity : life[a] = "none" /\ ~appReady[a] /\ ~Attached(a)
    BY DEF Init, Attached
  <2> QED
    BY <2>1, InitTold DEF PointInv, Ready, Points
<1>2. PointInv /\ [Next]_vars => PointInv'
  <2> SUFFICES ASSUME PointInv, [Next]_vars PROVE PointInv'
    OBVIOUS
  <2>1. ToldInv'
    BY ToldInvStep DEF PointInv
  <2> QED
    BY <2>1, ReadyStep, PointsStep DEF PointInv
<1>3. PointInv => PointerIsLatest
  BY DEF PointInv, Points, LeadsTo, NoLinks, PointerIsLatest
<1> QED
  BY <1>1, <1>2, <1>3, PTL DEF Spec

=============================================================================
