------------------------- MODULE SessionRefinement --------------------------
(***************************************************************************)
(* The composed sessions implement the contract: a refinement mapping from *)
(* the state of the app and of irmaclient to the four facts of             *)
(* SessionContract.                                                        *)
(***************************************************************************)
EXTENDS SessionFlow

\* The choices session s has the user's consent for.
Agreed(s) == {c \in Choice : Consented(s, c)}

EndedAs(s) == IF phase[s] \in Ended THEN phase[s] ELSE "open"

ReportedAs(s) == IF IsFinished(states[s]) THEN states[s].status ELSE "nothing"

Contract == INSTANCE SessionContract WITH
  Refused <- Unsupported,
  agreed <- [s \in Session |-> Agreed(s)],
  performed <- used,
  ended <- [s \in Session |-> EndedAs(s)],
  reported <- [s \in Session |-> ReportedAs(s)]

\* Every behaviour of the sessions, with the reducer, the screens and both
\* halves of the channel, is one the contract allows: no session proceeds
\* twice or with choices the user did not make, and the app reports an
\* outcome only after the event that carries it, and never takes it back
\* except for a return URL that fails.
ImplementsContract == Contract!Spec

=============================================================================
