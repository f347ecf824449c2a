----------------------------- MODULE SessionFlow -----------------------------
(***************************************************************************)
(* IRMA sessions from the pointer that starts one to the screen that shows *)
(* its outcome: the app, the Go bridge and irmaclient, composed over the   *)
(* two FIFO directions of the platform channel.                            *)
(***************************************************************************)
EXTENDS AppSessions, BridgeSessions

vars == <<appVars, bridgeVars, clientVars, channels>>

Init == AppInit /\ BridgeInit /\ ChannelsInit

\* Steps of the app leave Go alone, and the other way round.
AppStep == (AppSystem \/ User) /\ UNCHANGED <<bridgeVars, clientVars>>

BridgeStep == BridgeSystem /\ UNCHANGED appVars

IrmaClientStep == (\E s \in Session : ClientStep(s)) /\ UNCHANGED appVars

Next == AppStep \/ BridgeStep \/ IrmaClientStep

Spec == Init /\ [][Next]_vars

\* The event loops of the app and of the bridge run, frames are painted, and
\* goroutines are scheduled.  Nothing is assumed of the user or of servers.
Fairness ==
  /\ \A s \in Session :
       /\ WF_vars(Paint(s) /\ UNCHANGED <<bridgeVars, clientVars>>)
       /\ WF_vars(Dispose(s) /\ UNCHANGED <<bridgeVars, clientVars>>)
  /\ WF_vars(ReceiveEvent /\ UNCHANGED <<bridgeVars, clientVars>>)
  /\ WF_vars(DispatchFromNative /\ UNCHANGED appVars)
  /\ \A s \in Session :
       WF_vars((\E c \in calls : c.id = s /\ RunCall(c)) /\ UNCHANGED appVars)

FairSpec == Spec /\ Fairness

TypeOK ==
  /\ AppTypeOK
  /\ BridgeTypeOK
  /\ toGo \in Seq(Message)
  /\ toDart \in Seq(Event)

-----------------------------------------------------------------------------
(* Safety. *)

\* What the user must have done for session s to proceed with choices c: have
\* confirmed exactly these choices, and have agreed to what is issued.
Consented(s, c) ==
  /\ Kind[s] # "issuing" => c \in confirmed[s]
  /\ Kind[s] = "issuing" => c = NoChoice
  /\ Kind[s] # "disclosing" => s \in given

\* irmaclient goes past its permission request only with the consent of the
\* user, and with the very choices the user confirmed: across the local
\* detour of a session that discloses and issues, refreshed candidates, and
\* answers that overtake each other.
ConsentBeforeDisclosure ==
  \A s \in Session : \A c \in used[s] : Consented(s, c)

\* The bridge never turns down an event of a session for want of a session
\* handler, a permission handler or a PIN handler: the channel and the order
\* of handler and event in the callbacks see to it.
HandlersInPlace == errors = {}

\* A screen that shows the request for permission, and whose frame is
\* painted, shows the candidates and the choices the repository holds.
ShownRequestIsCurrent ==
  \A s \in Session :
    LET shown == painted[s]
    IN  OnStack(s) /\ shown = emitted[s] =>
        /\ shown.status = "requestDisclosurePermission" =>
             shown.candidates = states[s].candidates
        /\ shown.status = "requestIssuancePermission" =>
             shown.choices = states[s].choices

\* Nothing about session s is under way.
AtRest(s) ==
  /\ Silent(s)
  /\ \A c \in calls : c.id # s
  /\ s \notin stale
  /\ OnStack(s) /\ painted[s] = emitted[s]

\* When irmaclient waits for the user and nothing is under way, the session's
\* screen lets the user answer: no spinner hides an open question.
QuestionIsShown ==
  \A s \in Session : AtRest(s) =>
    /\ phase[s] = "awaitPermission" /\ s \notin Unsupported =>
         painted[s].status \in {"requestDisclosurePermission", "requestIssuancePermission"}
    /\ phase[s] = "awaitPin" => pin[s] = "idle"

\* How the app shows an end of irmaclient's session: a blocked PIN ends no
\* session in the app, and a return URL that fails hides how it ended.
Shows(st, end) ==
  CASE end = "succeeded" -> st.status = "success" \/ st.error = "clientReturnUrl"
    [] end = "canceled" -> st.status = "canceled" \/ st.error = "clientReturnUrl"
    [] end = "failed" -> st.status = "error"
    [] end = "blocked" -> st.status = "requestPin"

\* The app agrees with irmaclient on the end of a session once the last event
\* is in.
OutcomesAgree ==
  \A s \in Session : phase[s] \in Ended /\ Silent(s) => Shows(states[s], phase[s])

-----------------------------------------------------------------------------
(* Liveness. *)

\* A session whose screen the user has left does not stay open in irmaclient
\* (unless the app itself refused the request, see the README).
NoSessionLeftOpen ==
  \A s \in Session \ Unsupported : s \in leaving ~> phase[s] \in Ended

\* The end of a session reaches the app, a blocked PIN excepted.
OutcomeIsDelivered ==
  \A s \in Session :
    phase[s] \in Ended \ {"blocked"} ~> IsFinished(states[s])

\* What the comment at the PopScope of the PIN screen says of a back gesture:
\* it waits for an answer of irmago before it closes the screen.  When no PIN
\* is being checked there is none to wait for, so the gesture is served unless
\* the user goes on to submit a PIN.
BackGestureIsServed ==
  \A s \in Session :
    s \in backs /\ pin[s] = "idle" ~> s \notin backs \/ pin[s] = "busy"

=============================================================================
