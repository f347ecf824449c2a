------------------------------- MODULE Keyshare -------------------------------
(***************************************************************************)
(* Enrollment, authentication and PIN changes in irmagobridge: the         *)
(* handlers of the calls, the keyshare server behind them, and the         *)
(* callbacks that turn its answers into events.                            *)
(*                                                                         *)
(* Calls and events carry the request they belong to, which the code does  *)
(* not: the app takes the next answer of the kind it waits for.  An        *)
(* ErrorEvent that is not fatal is only reported by the app, and left out; *)
(* a fatal one opens it.                                                   *)
(***************************************************************************)
EXTENDS Naturals, Sequences

CONSTANTS
  Pin,
  LongPin,      \* the PINs that do not have five digits
  MaxRequests   \* bound: requests outstanding at a time

ASSUME KeyshareAssumption ==
  /\ LongPin \subseteq Pin
  /\ Pin # {}
  /\ MaxRequests \in Nat

VARIABLES
  enrolled,     \* irmaclient: whether the scheme is enrolled
  serverPin,    \* keyshare server: the PIN of the account
  calls,        \* calls the keyshare server has not answered
  toGo,         \* calls under way to irmagobridge
  toApp         \* events under way to the app

keyshareVars == <<enrolled, serverPin, calls, toGo, toApp>>

Request == 1..MaxRequests
Kind == {"enroll", "verify", "change"}
Outcome == {"success", "failed", "blocked", "error"}

\* old is the PIN to be replaced, and pin itself in the other calls.
Call == [kind : Kind, req : Request, old : Pin, pin : Pin]
ClearAll == [kind |-> "clear"]

Answer == [kind : Kind, req : Request, outcome : Outcome]
Fatal == [kind |-> "fatal"]
Event == Answer \cup [kind : {"status"}, enrolled : BOOLEAN] \cup {Fatal}

\* Variant with a fault: a name for a blocked PIN the app does not know.
AnswerUnparsed(c, outcome) ==
  [kind |-> c.kind, req |-> c.req, outcome |-> IF outcome = "blocked" THEN "timeout" ELSE outcome]

AnswerTo(c, outcome) == [kind |-> c.kind, req |-> c.req, outcome |-> outcome]

Status(e) == [kind |-> "status", enrolled |-> e]

KeyshareTypeOK ==
  /\ enrolled \in BOOLEAN
  /\ serverPin \in Pin
  /\ calls \subseteq Call
  /\ toGo \in Seq(Call \cup {ClearAll})
  /\ toApp \in Seq(Event)

Dispatch(events) == toApp' = toApp \o events

-----------------------------------------------------------------------------
(* The handlers. *)

\* A scheme that is enrolled already fails at once.
enroll(c) ==
  IF enrolled
    THEN Dispatch(<<AnswerTo(c, "error")>>) /\ UNCHANGED calls
    ELSE calls' = calls \cup {c} /\ UNCHANGED toApp

\* Variant with a fault: the error does not return.
authenticateAnyway(c) ==
  /\ IF enrolled THEN UNCHANGED toApp ELSE Dispatch(<<AnswerTo(c, "error")>>)
  /\ calls' = calls \cup {c}

\* Verification runs in a goroutine of its own.
authenticate(c) ==
  IF enrolled
    THEN calls' = calls \cup {c} /\ UNCHANGED toApp
    ELSE Dispatch(<<AnswerTo(c, "error")>>) /\ UNCHANGED calls

\* Without an enrolled scheme this is an error, which answers no request.
changePin(c) ==
  /\ calls' = IF enrolled THEN calls \cup {c} ELSE calls
  /\ UNCHANGED toApp

\* Removing the storage may fail; what is with the server goes on.
clearAllData ==
  \/ /\ enrolled' = FALSE
     /\ Dispatch(<<Status(FALSE)>>)
  \/ UNCHANGED <<enrolled, toApp>>

DispatchFromNative ==
  /\ toGo # <<>>
  /\ toGo' = Tail(toGo)
  /\ LET c == Head(toGo)
     IN  \/ c.kind = "enroll" /\ enroll(c) /\ UNCHANGED enrolled
         \/ c.kind = "verify" /\ authenticate(c) /\ UNCHANGED enrolled
         \/ c.kind = "change" /\ changePin(c) /\ UNCHANGED enrolled
         \/ c.kind = "clear" /\ clearAllData /\ UNCHANGED calls
  /\ UNCHANGED serverPin

-----------------------------------------------------------------------------
(* The keyshare server and the callbacks. *)

\* The client rejects answers for a scheme that is not enrolled any more.  The
\* server may be out of reach, and refuse everything for a while.
Accepts(pin) == enrolled /\ pin = serverPin

Refusals(c) ==
  {"blocked", "error"} \cup (IF Accepts(c.old) THEN {} ELSE {"failed"})

EnrollmentSuccess(c) == Dispatch(<<Status(TRUE), AnswerTo(c, "success")>>)
EnrollmentFailure(c) == Dispatch(<<AnswerTo(c, "error")>>)

Enrolled(c) ==
  /\ c.kind = "enroll"
  /\ \/ /\ ~enrolled
        /\ enrolled' = TRUE /\ serverPin' = c.pin
        /\ EnrollmentSuccess(c)
     \/ EnrollmentFailure(c) /\ UNCHANGED <<enrolled, serverPin>>

\* The end of the goroutine of authenticate.
Verified(c) ==
  /\ c.kind = "verify"
  /\ \/ Accepts(c.pin) /\ Dispatch(<<AnswerTo(c, "success")>>)
     \/ \E refusal \in Refusals(c) : Dispatch(<<AnswerTo(c, refusal)>>)
  /\ UNCHANGED <<enrolled, serverPin>>

ChangePinSuccess(c) == Dispatch(<<AnswerTo(c, "success")>>)
ChangePinFailure(c) == Dispatch(<<AnswerTo(c, "error")>>)
ChangePinIncorrect(c) == Dispatch(<<AnswerTo(c, "failed")>>)
ChangePinBlocked(c) == Dispatch(<<AnswerTo(c, "blocked")>>)

\* An answer of the server that gets lost is a failure, with the PIN changed.
Changed(c) ==
  /\ c.kind = "change"
  /\ \/ Accepts(c.old) /\ serverPin' = c.pin /\ (ChangePinSuccess(c) \/ ChangePinFailure(c))
     \/ ChangePinFailure(c) /\ UNCHANGED serverPin
     \/ ~Accepts(c.old) /\ ChangePinIncorrect(c) /\ UNCHANGED serverPin
     \/ ChangePinBlocked(c) /\ UNCHANGED serverPin
  /\ UNCHANGED enrolled

ServerAnswers ==
  /\ \E c \in calls :
       /\ calls' = calls \ {c}
       /\ Enrolled(c) \/ Verified(c) \/ Changed(c)
  /\ UNCHANGED toGo

\* The process ends.  A call the server had may have taken effect.
Crash ==
  /\ \/ UNCHANGED <<enrolled, serverPin>>
     \/ \E c \in calls :
          /\ \/ c.kind = "enroll" /\ ~enrolled
             \/ c.kind = "change" /\ Accepts(c.old)
          /\ enrolled' = TRUE /\ serverPin' = c.pin
  /\ calls' = {}
  /\ toGo' = <<>>

=============================================================================
