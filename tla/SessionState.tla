---------------------------- MODULE SessionState ----------------------------
(***************************************************************************)
(* The state the app keeps of one IRMA session and the function that       *)
(* computes its next value from a session event: SessionState and the      *)
(* reducer of SessionRepository.  No variables: the modules that run       *)
(* sessions apply these operators.                                         *)
(*                                                                         *)
(* Data.  A credential is named after the issuing session that issues it,  *)
(* and the disclosure candidates of a request are represented by the       *)
(* wallet they were computed from.  A disclosure choice made by the user   *)
(* is the set of candidates it was made from.                              *)
(***************************************************************************)
EXTENDS Naturals

CONSTANTS
  Session,      \* session IDs
  Kind,         \* what a session does: disclose, issue, or issue after disclosing
  Needs,        \* the credentials a session wants to see disclosed
  Obtainable,   \* the credentials the user can fetch while disclosing
  Unsupported,  \* sessions that ask for a whole credential (three-part candidate)
  ReturnURL,    \* the clientReturnURL of the session, "none" if it has none
  NoChoice      \* null or empty disclosureChoices

Kinds == {"disclosing", "issuing", "combined"}

URLs == {"none", "web", "inApp", "phone"}

ASSUME SessionAssumption ==
  /\ Kind \in [Session -> Kinds]
  /\ Needs \in [Session -> SUBSET Session]
  /\ \A s \in Session : Kind[s] = "issuing" => Needs[s] = {}
  /\ Obtainable \subseteq Session
  /\ Unsupported \subseteq {s \in Session : Kind[s] # "issuing"}
  /\ ReturnURL \in [Session -> URLs]
  /\ \A w \in SUBSET Session : NoChoice # w

Wallet == SUBSET Session

Choice == {NoChoice} \union Wallet

-----------------------------------------------------------------------------
(* SessionState. *)

\* enum SessionStatus.
SessionStatus ==
  {"initialized", "communicating", "pairing", "requestDisclosurePermission",
   "requestIssuancePermission", "requestPin", "success", "canceled", "error"}

\* Statuses as the map of the repository has them: "absent" stands for a
\* session ID that is no key of the map.
Statuses == SessionStatus \union {"absent"}

\* asked: the request is in, so what it discloses and issues is known.
State == [status : Statuses, url : URLs, asked : BOOLEAN, candidates : Wallet,
          choices : Choice, error : {"none", "session", "clientReturnUrl"},
          dismissed : BOOLEAN]

Absent == [status |-> "absent", url |-> "none", asked |-> FALSE, candidates |-> {},
           choices |-> NoChoice, error |-> "none", dismissed |-> FALSE]

NewSessionState == [Absent EXCEPT !.status = "initialized"]

IsFinished(st) == st.status \in {"success", "canceled", "error"}

IsIssuanceSession(s) == Kind[s] # "disclosing"

HasActiveSessions(states) ==
  \E s \in Session : states[s].status = "requestDisclosurePermission"

\* Every discon has an option: a credential in the wallet or an obtainable one.
CanBeFinished(s, st) == Needs[s] \subseteq st.candidates \union Obtainable

\* Every discon has an option that is in the wallet.
Satisfiable(s, st) == Needs[s] \subseteq st.candidates

-----------------------------------------------------------------------------
(* The events irmaclient raises through the bridge, and the reducer. *)

EventType ==
  {"StatusUpdate", "ClientReturnURLSet", "PairingRequired", "RequestPermission",
   "RequestPin", "KeyshareBlocked", "KeyshareEnrollment", "Failure", "Success",
   "Canceled"}

\* ClientStatus values; the app's enum has no "connected".
ClientStatus == {"communicating", "connected"}

Event == [type : EventType, id : Session, wallet : Wallet, left : Nat,
          status : ClientStatus]

EventOf(type, s) == [type |-> type, id |-> s, wallet |-> {}, left |-> 0,
                     status |-> "communicating"]

\* Variants with a fault, for the mutation runs.
StatusUpdatedUnparsed(st, status) == [st EXCEPT !.status = status]
ContinuedForgettingChoices(st, c) ==
  [st EXCEPT !.status = "requestIssuancePermission"]
DeclinedAsCanceled(st, proceed, c) ==
  [st EXCEPT !.status = IF proceed THEN "communicating" ELSE "canceled",
             !.dismissed = ~proceed, !.choices = IF proceed THEN c ELSE @]

\* toSessionStatus() is null for a status the enum lacks, and copyWith keeps
\* the old status then.
StatusUpdated(st, status) ==
  [st EXCEPT !.status = IF status \in SessionStatus THEN status ELSE @]

Failed(st) == [st EXCEPT !.status = "error", !.error = "session"]

\* The local FailureSessionEvent of a return URL that could not be opened.
OpenFailed(st) == [st EXCEPT !.status = "error", !.error = "clientReturnUrl"]

\* RequestIssuancePermission and RequestVerificationPermission.
PermissionRequested(st, s, wallet) ==
  IF s \in Unsupported
  THEN Failed(st)
  ELSE [st EXCEPT !.asked = TRUE,
                  !.candidates = wallet,
                  !.status = IF Kind[s] = "issuing"
                             THEN "requestIssuancePermission"
                             ELSE "requestDisclosurePermission"]

ContinuedToIssuance(st, c) ==
  [st EXCEPT !.status = "requestIssuancePermission", !.choices = c]

PermissionResponded(st, proceed, c) ==
  [st EXCEPT !.status = "communicating", !.dismissed = ~proceed,
             !.choices = IF proceed THEN c ELSE @]

\* Variant with a fault: the enrollment errors fall through.
EventHandlerWithoutEnrollment(st, e) ==
  CASE e.type = "Failure" -> Failed(st)
    [] e.type = "StatusUpdate" -> StatusUpdated(st, e.status)
    [] e.type = "ClientReturnURLSet" -> [st EXCEPT !.url = ReturnURL[e.id]]
    [] e.type = "PairingRequired" -> [st EXCEPT !.status = "pairing"]
    [] e.type = "RequestPermission" -> PermissionRequested(st, e.id, e.wallet)
    [] e.type = "Success" -> [st EXCEPT !.status = "success"]
    [] e.type = "Canceled" -> [st EXCEPT !.status = "canceled"]
    [] e.type = "RequestPin" -> [st EXCEPT !.status = "requestPin"]
    [] OTHER -> st

\* _eventHandler on the events of the bridge; KeyshareBlocked leaves the
\* state alone.
EventHandler(st, e) ==
  CASE e.type \in {"Failure", "KeyshareEnrollment"} -> Failed(st)
    [] e.type = "StatusUpdate" -> StatusUpdated(st, e.status)
    [] e.type = "ClientReturnURLSet" -> [st EXCEPT !.url = ReturnURL[e.id]]
    [] e.type = "PairingRequired" -> [st EXCEPT !.status = "pairing"]
    [] e.type = "RequestPermission" -> PermissionRequested(st, e.id, e.wallet)
    [] e.type = "Success" -> [st EXCEPT !.status = "success"]
    [] e.type = "Canceled" -> [st EXCEPT !.status = "canceled"]
    [] e.type = "RequestPin" -> [st EXCEPT !.status = "requestPin"]
    [] OTHER -> st

=============================================================================
