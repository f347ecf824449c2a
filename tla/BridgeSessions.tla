--------------------------- MODULE BridgeSessions ---------------------------
(***************************************************************************)
(* The Go half of a session: the event handler of irmagobridge with its    *)
(* session lookup and the goroutines it starts, and irmaclient, whose code *)
(* is not part of the repository: its sessions are modelled by the calls   *)
(* they make on the handler the bridge gives them and by what the bridge   *)
(* and the app expect of them.                                             *)
(*                                                                         *)
(* DispatchFromNative runs on the UI thread, one event at a time.  The     *)
(* goroutines that carry an answer to irmaclient run in any order.  Two    *)
(* pending answers of a session that are equal are one element of calls:   *)
(* irmaclient ignores an answer to a request it no longer makes.           *)
(***************************************************************************)
EXTENDS SessionChannels

CONSTANTS
  Protected,    \* sessions that involve a keyshare server, hence a PIN
  MaxAttempts   \* PIN attempts before the keyshare server blocks

ASSUME BridgeAssumption ==
  /\ Protected \subseteq Session
  /\ MaxAttempts \in Nat \ {0}

VARIABLES
  lookup,             \* sessionLookup: IDs with a session handler
  permissionHandler,  \* sessions whose handler has a permissionHandler
  pinHandler,         \* sessions whose handler has a pinHandler
  calls,              \* goroutines about to call one of these handlers
  errors,             \* causes of the non-fatal ErrorEvents sent
  phase,              \* irmaclient: what the session is doing
  attempts,           \* irmaclient: PIN attempts left
  wallet,             \* irmaclient: credentials issued so far
  used,               \* irmaclient: the choices a session proceeded with, if any
  stale               \* irmaclient: sessions whose candidates are outdated

bridgeVars == <<lookup, permissionHandler, pinHandler, calls, errors>>
clientVars == <<phase, attempts, wallet, used, stale>>

Ended == {"succeeded", "canceled", "failed", "blocked"}

Running == {"starting", "preparing", "pairing", "awaitPermission",
            "communicating", "awaitPin", "finishing"}

Phase == {"none"} \union Running \union Ended

Call == [type : {"RespondPermission", "RespondPin"}, id : Session,
         proceed : BOOLEAN, choice : Choice]

BridgeTypeOK ==
  /\ lookup \subseteq Session
  /\ permissionHandler \subseteq Session
  /\ pinHandler \subseteq Session
  /\ calls \subseteq Call
  /\ errors \subseteq {"sessionID", "permissionHandler", "pinHandler"}
  /\ phase \in [Session -> Phase]
  /\ attempts \in [Session -> 0 .. MaxAttempts]
  /\ wallet \in Wallet
  /\ used \in [Session -> SUBSET Choice]
  /\ stale \subseteq Session

BridgeInit ==
  /\ lookup = {}
  /\ permissionHandler = {}
  /\ pinHandler = {}
  /\ calls = {}
  /\ errors = {}
  /\ phase = [s \in Session |-> "none"]
  /\ attempts = [s \in Session |-> MaxAttempts]
  /\ wallet = {}
  /\ used = [s \in Session |-> {}]
  /\ stale = {}

-----------------------------------------------------------------------------
(* irmaclient, seen from the bridge. *)

\* Session s ends with event e.  When an issuing session ends, the sessions
\* that await permission get their candidates again.
Finish(s, end, e) ==
  /\ phase' = [phase EXCEPT ![s] = end]
  /\ stale' = (stale \union IF Kind[s] = "disclosing" THEN {}
                            ELSE {r \in Session : phase[r] = "awaitPermission"}) \ {s}
  /\ DispatchEvent(e)

Cancel(s) ==
  /\ Finish(s, "canceled", EventOf("Canceled", s))
  /\ UNCHANGED <<attempts, wallet, used>>

Ignore == UNCHANGED <<clientVars, toDart>>

\* The dismisser of a session that runs cancels it.
Dismiss(s) == IF phase[s] \in Running THEN Cancel(s) ELSE Ignore

\* The permission handler of session s is called.
AnswerPermission(s, proceed, c) ==
  \/ /\ phase[s] = "awaitPermission" /\ proceed
     /\ phase' = [phase EXCEPT ![s] = "communicating"]
     /\ used' = [used EXCEPT ![s] = @ \union {c}]
     /\ stale' = stale \ {s}
     /\ DispatchEvent(EventOf("StatusUpdate", s))
     /\ UNCHANGED <<attempts, wallet>>
  \/ phase[s] \in Running /\ ~proceed /\ Cancel(s)
  \/ phase[s] # "awaitPermission" /\ Ignore

\* The PIN handler of session s is called and the keyshare server decides: the
\* PIN is right, wrong, or wrong once too often.
AnswerPin(s, proceed) ==
  \/ /\ phase[s] = "awaitPin" /\ proceed
     /\ phase' = [phase EXCEPT ![s] = "finishing"]
     /\ UNCHANGED <<attempts, wallet, used, stale, toDart>>
  \/ /\ phase[s] = "awaitPin" /\ proceed /\ attempts[s] > 1
     /\ attempts' = [attempts EXCEPT ![s] = @ - 1]
     /\ DispatchEvent([EventOf("RequestPin", s) EXCEPT !.left = attempts[s] - 1])
     /\ UNCHANGED <<phase, wallet, used, stale>>
  \/ /\ phase[s] = "awaitPin" /\ proceed /\ attempts[s] = 1
     /\ attempts' = [attempts EXCEPT ![s] = 0]
     /\ Finish(s, "blocked", EventOf("KeyshareBlocked", s))
     /\ UNCHANGED <<wallet, used>>
  \/ phase[s] \in Running /\ ~proceed /\ Cancel(s)
  \/ phase[s] # "awaitPin" /\ Ignore

-----------------------------------------------------------------------------
(* The event handler.  An error of a handler is reported to the app as a  *)
(* non-fatal ErrorEvent, which no session sees.                           *)

\* newSession: the handler is in the lookup before irmaclient can call it.
NewSession(m) ==
  /\ m.type = "NewSession"
  /\ lookup' = lookup \union {m.id}
  /\ phase' = [phase EXCEPT ![m.id] = "starting"]
  /\ UNCHANGED <<permissionHandler, pinHandler, calls, errors, attempts, wallet,
                 used, stale, toDart>>

\* The handlers irmaclient has given for an answer of this type.
Respondents(type) ==
  IF type = "RespondPermission" THEN permissionHandler ELSE pinHandler

\* Why an answer is turned down: an unknown session, or irmaclient never asked.
Refusal(m) ==
  CASE m.id \notin lookup -> {"sessionID"}
    [] m.id \in lookup \ Respondents(m.type) ->
         {IF m.type = "RespondPin" THEN "pinHandler" ELSE "permissionHandler"}
    [] OTHER -> {}

\* respondPermission and respondPin start a goroutine.
RespondGo(m) ==
  /\ m.type \in {"RespondPermission", "RespondPin"}
  /\ errors' = errors \union Refusal(m)
  /\ calls' = IF Refusal(m) = {} THEN calls \union {m} ELSE calls
  /\ UNCHANGED <<lookup, permissionHandler, pinHandler, clientVars, toDart>>

\* dismissSession calls irmaclient on the UI thread itself.
DismissGo(m) ==
  /\ m.type = "DismissSession"
  /\ IF m.id \in lookup
     THEN Dismiss(m.id) /\ UNCHANGED errors
     ELSE errors' = errors \union {"sessionID"} /\ Ignore
  /\ UNCHANGED <<lookup, permissionHandler, pinHandler, calls>>

\* DispatchFromNative on the next event of the app.
DispatchFromNative ==
  /\ toGo # <<>>
  /\ LET m == Head(toGo) IN NewSession(m) \/ RespondGo(m) \/ DismissGo(m)
  /\ toGo' = Tail(toGo)

\* A goroutine calls the handler irmaclient gave last.
RunCall(c) ==
  /\ c \in calls
  /\ calls' = calls \ {c}
  /\ \/ c.type = "RespondPermission" /\ AnswerPermission(c.id, c.proceed, c.choice)
     \/ c.type = "RespondPin" /\ AnswerPin(c.id, c.proceed)
  /\ UNCHANGED <<lookup, permissionHandler, pinHandler, errors, toGo>>

-----------------------------------------------------------------------------
(* Callbacks of irmaclient on the session handler. *)

\* Variant with a fault: the handler is not kept.
RequestPermissionUnset(s) ==
  /\ UNCHANGED permissionHandler
  /\ DispatchEvent([EventOf("RequestPermission", s) EXCEPT !.wallet = wallet])

\* RequestIssuancePermission, RequestVerificationPermission and
\* RequestSignaturePermission keep the handler, then tell the app.
RequestPermission(s) ==
  /\ permissionHandler' = permissionHandler \union {s}
  /\ DispatchEvent([EventOf("RequestPermission", s) EXCEPT !.wallet = wallet])

\* RequestPin keeps the handler, then tells the app.
RequestPin(s) ==
  /\ pinHandler' = pinHandler \union {s}
  /\ DispatchEvent([EventOf("RequestPin", s) EXCEPT !.left = attempts[s]])

\* The session reaches its server, which may set a return URL.
ClientConnect(s) ==
  /\ phase[s] = "starting"
  /\ phase' = [phase EXCEPT ![s] = "preparing"]
  /\ LET connected == [EventOf("StatusUpdate", s) EXCEPT !.status = "connected"]
     IN  toDart' = IF ReturnURL[s] = "none"
                   THEN Append(toDart, connected)
                   ELSE Append(Append(toDart, EventOf("ClientReturnURLSet", s)), connected)
  /\ UNCHANGED <<permissionHandler, pinHandler, attempts, wallet, used, stale>>

ClientPair(s) ==
  /\ phase[s] = "preparing"
  /\ phase' = [phase EXCEPT ![s] = "pairing"]
  /\ DispatchEvent(EventOf("PairingRequired", s))
  /\ UNCHANGED <<permissionHandler, pinHandler, attempts, wallet, used, stale>>

ClientAsk(s) ==
  /\ phase[s] \in {"preparing", "pairing"}
  /\ phase' = [phase EXCEPT ![s] = "awaitPermission"]
  /\ RequestPermission(s)
  /\ UNCHANGED <<pinHandler, attempts, wallet, used, stale>>

\* The request is repeated with the candidates of the changed wallet.
ClientRefresh(s) ==
  /\ s \in stale
  /\ phase[s] = "awaitPermission"
  /\ stale' = stale \ {s}
  /\ RequestPermission(s)
  /\ UNCHANGED <<pinHandler, phase, attempts, wallet, used>>

ClientAskPin(s) ==
  /\ phase[s] = "communicating" /\ s \in Protected
  /\ phase' = [phase EXCEPT ![s] = "awaitPin"]
  /\ RequestPin(s)
  /\ UNCHANGED <<permissionHandler, attempts, wallet, used, stale>>

\* KeyshareEnrollmentMissing, -Incomplete and -Deleted.
ClientNotEnrolled(s) ==
  /\ phase[s] = "communicating" /\ s \in Protected
  /\ Finish(s, "failed", EventOf("KeyshareEnrollment", s))
  /\ UNCHANGED <<permissionHandler, pinHandler, attempts, wallet, used>>

ClientSucceed(s) ==
  /\ phase[s] = IF s \in Protected THEN "finishing" ELSE "communicating"
  /\ wallet' = wallet \union IF Kind[s] = "disclosing" THEN {} ELSE {s}
  /\ Finish(s, "succeeded", EventOf("Success", s))
  /\ UNCHANGED <<permissionHandler, pinHandler, attempts, used>>

ClientFail(s) ==
  /\ phase[s] \in {"starting", "preparing", "pairing", "communicating", "finishing"}
  /\ Finish(s, "failed", EventOf("Failure", s))
  /\ UNCHANGED <<permissionHandler, pinHandler, attempts, wallet, used>>

ClientStep(s) ==
  /\ \/ ClientConnect(s) \/ ClientPair(s) \/ ClientAsk(s) \/ ClientRefresh(s)
     \/ ClientAskPin(s) \/ ClientNotEnrolled(s) \/ ClientSucceed(s) \/ ClientFail(s)
  /\ UNCHANGED <<lookup, calls, errors, toGo>>

BridgeSystem ==
  \/ DispatchFromNative
  \/ \E c \in calls : RunCall(c)

=============================================================================
