-------------------------- MODULE SessionChannels ---------------------------
(***************************************************************************)
(* The platform channel between the app (Dart) and the Go bridge, as far   *)
(* as sessions use it.  Each direction is FIFO: invokeMethod keeps the     *)
(* order of the calls, and DispatchFromGo posts to the UI thread in order. *)
(***************************************************************************)
EXTENDS SessionState, Sequences

VARIABLES
  toGo,    \* events the app has bridged and Go has not handled yet
  toDart   \* events of Go the repository has not seen yet

channels == <<toGo, toDart>>

MessageType ==
  {"NewSession", "RespondPermission", "RespondPin", "DismissSession"}

Message == [type : MessageType, id : Session, proceed : BOOLEAN, choice : Choice]

MessageOf(type, s) ==
  [type |-> type, id |-> s, proceed |-> FALSE, choice |-> NoChoice]

Respond(type, s, proceed, c) ==
  [type |-> type, id |-> s, proceed |-> proceed, choice |-> c]

\* The bridge half of bridgedDispatch.
Bridge(m) == toGo' = Append(toGo, m)

\* dispatchEvent.
DispatchEvent(e) == toDart' = Append(toDart, e)

ChannelsInit == toGo = <<>> /\ toDart = <<>>

\* No message of session s is under way.
Silent(s) ==
  /\ \A i \in DOMAIN toGo : toGo[i].id # s
  /\ \A i \in DOMAIN toDart : toDart[i].id # s

=============================================================================
