--------------------------- MODULE SessionContract ---------------------------
(***************************************************************************)
(* What a session promises the user and the requestor, with no screens, no *)
(* messages and no handlers: what irmaclient does is what the user agreed  *)
(* to, it does it once, and the app reports how the session ended, once it *)
(* has ended.                                                              *)
(***************************************************************************)
CONSTANTS
  Session,   \* session IDs
  Choice,    \* the choices a session can proceed with
  Refused    \* sessions the app may report as failed without being told

VARIABLES
  agreed,     \* choices the user has agreed to, per session
  performed,  \* choices a session proceeded with: one at most
  ended,      \* how the session ended for the requestor, or "open"
  reported    \* how the app says it ended, or "nothing"

vars == <<agreed, performed, ended, reported>>

Outcome == {"succeeded", "canceled", "failed", "blocked"}

Verdict == {"success", "canceled", "error"}

\* What the app may say of an outcome: of a blocked PIN it reports nothing.
Truthful == {<<"succeeded", "success">>, <<"canceled", "canceled">>, <<"failed", "error">>}

Init ==
  /\ agreed = [s \in Session |-> {}]
  /\ performed = [s \in Session |-> {}]
  /\ ended = [s \in Session |-> "open"]
  /\ reported = [s \in Session |-> "nothing"]

\* The user agrees to more.
Agree(s) ==
  /\ \E C \in SUBSET Choice : agreed' = [agreed EXCEPT ![s] = @ \union C]
  /\ UNCHANGED <<performed, ended, reported>>

\* The session proceeds with something the user agreed to.
Perform(s) ==
  /\ ended[s] = "open"
  /\ performed[s] = {}
  /\ \E c \in agreed[s] : performed' = [performed EXCEPT ![s] = {c}]
  /\ UNCHANGED <<agreed, ended, reported>>

\* The session ends; it succeeds only if it proceeded.
End(s) ==
  /\ ended[s] = "open"
  /\ \E o \in Outcome :
       /\ o = "succeeded" => performed[s] # {}
       /\ ended' = [ended EXCEPT ![s] = o]
  /\ UNCHANGED <<agreed, performed, reported>>

\* The app reports the end of the session; its own refusal of a request may
\* be overtaken by the end that was already under way.
Report(s) ==
  /\ reported[s] = "nothing" \/ (s \in Refused /\ reported[s] = "error")
  /\ \E v \in Verdict :
       /\ <<ended[s], v>> \in Truthful \/ (s \in Refused /\ v = "error")
       /\ reported' = [reported EXCEPT ![s] = v]
  /\ UNCHANGED <<agreed, performed, ended>>

\* The way back to the requestor fails after the end was reported.
LoseReturn(s) ==
  /\ reported[s] \in {"success", "canceled"}
  /\ reported' = [reported EXCEPT ![s] = "error"]
  /\ UNCHANGED <<agreed, performed, ended>>

Next ==
  \E s \in Session : Agree(s) \/ Perform(s) \/ End(s) \/ Report(s) \/ LoseReturn(s)

Spec == Init /\ [][Next]_vars

=============================================================================
