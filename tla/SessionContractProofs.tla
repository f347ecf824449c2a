------------------------ MODULE SessionContractProofs ------------------------
(***************************************************************************)
(* The sessions implement the contract, agree on their outcomes and show   *)
(* the questions irmaclient waits for, when no tap lands on an outdated    *)
(* frame (~FrameLag): a decline that lands on the frame of a disclosure    *)
(* that has ended meanwhile would make the app forget the outcome.  What   *)
(* irmaclient does keeps to the contract whatever frame is tapped.         *)
(***************************************************************************)
EXTENDS SessionMessagesProofs, SessionRefinement

-----------------------------------------------------------------------------
(* What the app makes of a session when the taps are on current frames.    *)

\* The user answers the request of session x, or goes on to its second half.
Answers(x) ==
  /\ Asks(states[x])
  /\ Asks(states'[x]) \/ (states'[x].status = "communicating"
                          /\ Answering(x, "RespondPermission")')

\* The return URL of session x cannot be opened.
Loses(x) ==
  /\ states[x].status \in {"success", "canceled"}
  /\ states'[x].status = "error" /\ states'[x].error = "clientReturnUrl"

LEMMA Sent ==
  ASSUME TypeOK, NEW m \in Message, Bridge(m)
  PROVE  Answering(m.id, m.type)'
<1>1. /\ toGo' \in Seq(Message) /\ Len(toGo') = Len(toGo) + 1
      /\ toGo'[Len(toGo) + 1] = m /\ Len(toGo) \in Nat
  BY AppendProperties, LenProperties DEF TypeOK, Bridge
<1>2. Len(toGo) + 1 \in DOMAIN toGo'
  BY <1>1, LenProperties
<1> QED
  BY <1>1, <1>2 DEF Answering

LEMMA SessionMove ==
  ASSUME ~FrameLag, TypeOK, OrderInv, AppStep, NEW x \in Session,
         ~(ReceiveEvent /\ Head(toDart).id = x)
  PROVE  \/ states'[x] = states[x]
         \/ states[x].status = "absent" /\ states'[x].status = "initialized"
         \/ Answers(x)
         \/ Loses(x)
<1>0. /\ states[x] \in State /\ painted[x].choices \in Choice
      /\ states[x].candidates \in Choice /\ NoChoice \in Choice
      /\ emitted[x].status = states[x].status
  <2>1. states[x] \in State /\ painted[x] \in State
    BY DEF TypeOK, AppTypeOK
  <2>2. states[x].candidates \in Choice /\ painted[x].choices \in Choice /\ NoChoice \in Choice
    BY <2>1 DEF State, Choice
  <2> QED
    BY <2>1, <2>2 DEF OrderInv, StreamInv
<1>1. /\ \A c : ContinuedToIssuance(states[x], c).status = "requestIssuancePermission"
      /\ \A c, proceed : PermissionResponded(states[x], proceed, c).status = "communicating"
      /\ OpenFailed(states[x]).status = "error"
      /\ OpenFailed(states[x]).error = "clientReturnUrl"
  BY <1>0, ReducerStatus
<1>2. ASSUME NEW proceed \in BOOLEAN, NEW c \in Choice,
             Bridge(Respond("RespondPermission", x, proceed, c))
      PROVE  Answering(x, "RespondPermission")'
  <2> DEFINE m == Respond("RespondPermission", x, proceed, c)
  <2>1. m \in Message /\ m.id = x /\ m.type = "RespondPermission"
    BY MessagesType DEF MessageType, Respond
  <2> HIDE DEF m
  <2>2. Answering(m.id, m.type)'
    BY <1>2, <2>1, Sent DEF m
  <2> QED
    BY <2>1, <2>2
<1>3. CASE StartSession(x)
  BY <1>3, Starting
<1>4. ASSUME NEW st \in State, Becomes(x, st), states'[x] = st
      PROVE  Answers(x) \/ Loses(x)
  <2>1. CASE ConfirmDisclosure(x)
    <3> DEFINE c == states[x].candidates
    <3>1. Asks(states[x])
      BY <2>1 DEF ConfirmDisclosure, Asks
    <3>2. CASE IsIssuanceSession(x)
      <4>1. SetState(x, ContinuedToIssuance(states[x], c))
        BY <2>1, <3>2 DEF ConfirmDisclosure
      <4>2. states'[x] = ContinuedToIssuance(states[x], c)
        BY <1>0, <4>1, ReducerType, Published
      <4> QED
        BY <1>1, <3>1, <4>2 DEF Answers, Asks
    <3>3. CASE ~IsIssuanceSession(x)
      <4>1. /\ SetState(x, PermissionResponded(states[x], TRUE, c))
            /\ Bridge(Respond("RespondPermission", x, TRUE, c))
        BY <2>1, <3>3 DEF ConfirmDisclosure
      <4>2. states'[x] = PermissionResponded(states[x], TRUE, c)
        BY <1>0, <4>1, ReducerType, Published
      <4>3. Answering(x, "RespondPermission")'
        BY <1>0, <1>2, <4>1
      <4> QED
        BY <1>1, <3>1, <4>2, <4>3 DEF Answers
    <3> QED
      BY <3>2, <3>3
  <2>2. CASE DeclineDisclosure(x) /\ st = PermissionResponded(states[x], FALSE, NoChoice)
    <3>1. /\ CanTap(x) /\ painted[x].status = "requestDisclosurePermission"
          /\ Bridge(Respond("RespondPermission", x, FALSE, NoChoice))
      BY <2>2 DEF DeclineDisclosure
    <3>2. Asks(states[x])
      BY <1>0, <3>1, TapOnStack DEF Asks
    <3>3. Answering(x, "RespondPermission")'
      BY <1>0, <1>2, <3>1
    <3> QED
      BY <1>1, <1>4, <2>2, <3>2, <3>3 DEF Answers
  <2>3. CASE GiveIssuancePermission(x) /\ st = PermissionResponded(states[x], TRUE, painted[x].choices)
    <3>1. /\ CanTap(x) /\ painted[x].status = "requestIssuancePermission"
          /\ Bridge(Respond("RespondPermission", x, TRUE, painted[x].choices))
      BY <2>3 DEF GiveIssuancePermission
    <3>2. Asks(states[x])
      BY <1>0, <3>1, TapOnStack DEF Asks
    <3>3. Answering(x, "RespondPermission")'
      BY <1>0, <1>2, <3>1
    <3> QED
      BY <1>1, <1>4, <2>3, <3>2, <3>3 DEF Answers
  <2>4. CASE Paint(x) /\ emitted[x].status \in {"success", "canceled"} /\ st = OpenFailed(states[x])
    BY <1>0, <1>1, <1>4, <2>4 DEF Loses
  <2>5. CASE FailToCall(x) /\ st = OpenFailed(states[x])
    BY <1>0, <1>1, <1>4, <2>5, TapOnStack DEF FailToCall, OutcomeScreen, Loses
  <2> QED
    BY <1>4, <2>1, <2>2, <2>3, <2>4, <2>5 DEF Becomes, Hears
<1> QED
  BY <1>3, <1>4, StatesMove, Published

-----------------------------------------------------------------------------
(* How a session ends.                                                     *)
(*                                                                         *)
(* OutcomesAgree speaks of a session nothing is under way for; while the   *)
(* last event is on its way the app cannot know the end, but it has not    *)
(* reported any other (a refused request excepted), and what irmaclient    *)
(* raised before the end leads the state to where the end finds it.        *)

ShowsEnd(st, end) ==
  CASE end = "succeeded" ->
         st.status = "success" \/ (st.status = "error" /\ st.error = "clientReturnUrl")
    [] end = "canceled" ->
         st.status = "canceled" \/ (st.status = "error" /\ st.error = "clientReturnUrl")
    [] end = "failed" -> st.status = "error"
    [] end = "blocked" -> st.status = "requestPin"

\* The app reports an end after the last event, or has refused the request.
ReportsEnd(x) ==
  IsFinished(states[x]) =>
    \/ phase[x] \in Ended /\ Pending(x) = {}
    \/ /\ x \in Unsupported /\ states[x].status = "error"
       /\ phase[x] \in {"awaitPermission"} \union Ended
       /\ \A e \in Pending(x) : Rank(e) \in {3, 6}

EndArrives(x) ==
  phase[x] \in Ended =>
    \/ \E e \in Pending(x) : Rank(e) = 6
    \/ Pending(x) = {} /\ ShowsEnd(states[x], phase[x])

PinAsked(x) ==
  phase[x] \in {"awaitPin", "finishing", "blocked"} =>
    \/ \E e \in Pending(x) : Rank(e) = 5
    \/ states[x].status = "requestPin" /\ \A e \in Pending(x) : e.type = "KeyshareBlocked"

EndInv == \A x \in Session : ReportsEnd(x) /\ EndArrives(x) /\ PinAsked(x)

LEMMA EndInit == Init => EndInv
BY DEF Init, AppInit, BridgeInit, ChannelsInit, EndInv, ReportsEnd, EndArrives, PinAsked,
  IsFinished, Absent, Ended

\* The ranks of events, and the end an event of the last rank stands for.
LEMMA EventRanks ==
  ASSUME TypeOK, Ordered, NEW x \in Session, NEW e \in Pending(x)
  PROVE  /\ e \in Event /\ Rank(e) \in 1 .. 6
         /\ Rank(e) <= Reach(phase[x])
         /\ Rank(e) = 6 => <<e.type, phase[x]>> \in EndEvents
         /\ Rank(e) = 5 <=> e.type = "RequestPin"
         /\ Rank(e) = 3 <=> e.type = "RequestPermission"
<1>1. PICK i \in DOMAIN toDart : e = toDart[i] /\ toDart[i].id = x
  BY DEF Pending
<1>2. e \in Event
  BY <1>1, EventsType
<1>3. /\ Rank(e) <= Reach(phase[x])
      /\ Rank(e) = 6 => <<e.type, phase[x]>> \in EndEvents
  BY <1>1 DEF Ordered
<1>4. /\ Rank(e) = 5 <=> e.type = "RequestPin"
      /\ Rank(e) = 3 <=> e.type = "RequestPermission"
  BY DEF Rank
<1> QED
  BY <1>2, <1>3, <1>4, RankReach

\* An event that does not end the session leaves its state open, unless it is
\* the request the app refuses.
LEMMA EventOpens ==
  ASSUME NEW st \in State, NEW e \in Event, Rank(e) < 6,
         IsFinished(EventHandler(st, e))
  PROVE  \/ IsFinished(st) /\ Rank(e) = 1
         \/ /\ Rank(e) = 3 /\ e.id \in Unsupported
            /\ EventHandler(st, e).status = "error"
<1>1. e.type \in EventType /\ e.status \in ClientStatus
  BY DEF Event
<1>2. \/ Rank(e) = 1 /\ (e.type = "ClientReturnURLSet"
                         \/ (e.type = "StatusUpdate" /\ e.status = "connected"))
      \/ Rank(e) = 2 /\ e.type = "PairingRequired"
      \/ Rank(e) = 3 /\ e.type = "RequestPermission"
      \/ Rank(e) = 4 /\ e.type = "StatusUpdate" /\ e.status = "communicating"
      \/ Rank(e) = 5 /\ e.type = "RequestPin"
  BY DEF Rank
<1> QED
  BY <1>1, <1>2, EventHandlerStatus DEF IsFinished

\* The ends the app shows after the last event, and the states that show one.
LEMMA EventEnds ==
  ASSUME NEW st \in State, NEW e \in Event, NEW end, <<e.type, end>> \in EndEvents,
         e.type = "KeyshareBlocked" => st.status = "requestPin"
  PROVE  ShowsEnd(EventHandler(st, e), end)
BY EventHandlerStatus DEF EndEvents, ShowsEnd

LEMMA EndHears ==
  ASSUME TypeOK, OrderInv, UnsupportedInv, EndInv, AppStep, NEW x \in Session,
         ReceiveEvent, Head(toDart).id = x
  PROVE  ReportsEnd(x)' /\ EndArrives(x)' /\ PinAsked(x)'
<1> DEFINE e == Head(toDart)
<1>1. /\ e \in Pending(x) /\ Pending(x) \subseteq Pending(x)' \union {e}
      /\ Pending(x)' \subseteq Pending(x)
      /\ \A f \in Pending(x)' : Rank(e) <= Rank(f) /\ Rank(e) < 6
      /\ Hears(x)
  BY PendingApp DEF OrderInv
<1>2. e \in Event /\ e.id = x /\ states[x] \in State /\ states'[x] = EventHandler(states[x], e)
  BY <1>1, Heard DEF TypeOK, AppTypeOK
<1>3. phase'[x] = phase[x] /\ phase[x] \in Phase
  BY DEF AppStep, clientVars, TypeOK, BridgeTypeOK
<1>4. /\ Rank(e) \in 1 .. 6 /\ Rank(e) <= Reach(phase[x])
      /\ Rank(e) = 6 => <<e.type, phase[x]>> \in EndEvents
      /\ Rank(e) = 5 <=> e.type = "RequestPin"
      /\ \A f \in Pending(x)' : /\ Rank(f) \in 1 .. 6
                                /\ Rank(f) = 6 => <<f.type, phase[x]>> \in EndEvents
  <2>1. \A f \in Pending(x) : /\ Rank(f) \in 1 .. 6 /\ Rank(f) <= Reach(phase[x])
                              /\ Rank(f) = 6 => <<f.type, phase[x]>> \in EndEvents
                              /\ Rank(f) = 5 <=> f.type = "RequestPin"
    BY EventRanks DEF OrderInv
  <2> QED
    BY <1>1, <2>1
<1>5. ReportsEnd(x) /\ EndArrives(x) /\ PinAsked(x)
  BY DEF EndInv
<1> HIDE DEF e
<1>6. CASE Rank(e) = 6
  <2>1. /\ Pending(x)' = {} /\ phase[x] \in Ended
        /\ <<e.type, phase[x]>> \in EndEvents
    BY <1>1, <1>4, <1>6 DEF EndEvents, Ended
  <2>2. phase[x] = "blocked" => states[x].status = "requestPin" /\ e.type = "KeyshareBlocked"
    <3>1. \A f \in Pending(x) : Rank(f) # 5
      BY <1>1, <1>6, <2>1
    <3> QED
      BY <1>5, <2>1, <3>1 DEF PinAsked, EndEvents
  <2>3. e.type = "KeyshareBlocked" => phase[x] = "blocked"
    BY <2>1 DEF EndEvents
  <2>4. ShowsEnd(states'[x], phase[x])
    BY <1>2, <2>1, <2>2, <2>3, EventEnds
  <2>5. phase[x] = "blocked" => states'[x].status = "requestPin"
    BY <1>2, <2>2, EventHandlerStatus
  <2> QED
    BY <1>3, <2>1, <2>4, <2>5 DEF ReportsEnd, EndArrives, PinAsked, Ended
<1>7. CASE Rank(e) < 6
  <2>1. ReportsEnd(x)'
    <3> SUFFICES ASSUME IsFinished(states'[x])
                 PROVE  /\ x \in Unsupported /\ states'[x].status = "error"
                        /\ phase[x] \in {"awaitPermission"} \union Ended
                        /\ \A f \in Pending(x)' : Rank(f) \in {3, 6}
      BY <1>3 DEF ReportsEnd
    <3>1. ~(IsFinished(states[x]) /\ Rank(e) = 1)
      BY <1>1, <1>5 DEF ReportsEnd
    <3>2. Rank(e) = 3 /\ x \in Unsupported /\ states'[x].status = "error"
      BY <1>2, <1>7, <3>1, EventOpens
    <3>3. /\ phase[x] \notin {"communicating", "awaitPin", "finishing"}
          /\ \A f \in Pending(x)' : Rank(f) \notin {4, 5}
      BY <1>1, <3>2 DEF UnsupportedInv
    <3>4. phase[x] \in {"awaitPermission"} \union Ended
      BY <1>3, <1>4, <3>2, <3>3 DEF Phase, Running, Ended, Reach
    <3>5. ASSUME NEW f \in Pending(x)'
          PROVE  Rank(f) \in {3, 6}
      <4>1. 3 <= Rank(f) /\ Rank(f) \in 1 .. 6 /\ Rank(f) \notin {4, 5}
        BY <1>1, <1>4, <3>2, <3>3
      <4> QED
        BY <4>1
    <3> QED
      BY <3>2, <3>4, <3>5
  <2>2. EndArrives(x)'
    BY <1>1, <1>3, <1>5, <1>7 DEF EndArrives
  <2>3. PinAsked(x)'
    <3> SUFFICES ASSUME phase[x] \in {"awaitPin", "finishing", "blocked"},
                        \A f \in Pending(x)' : Rank(f) # 5
                 PROVE  /\ states'[x].status = "requestPin"
                        /\ \A f \in Pending(x)' : f.type = "KeyshareBlocked"
      BY <1>3 DEF PinAsked
    <3>1. Rank(e) = 5
      <4>1. e.type = "KeyshareBlocked" => Rank(e) = 6
        BY DEF Rank
      <4> QED
        BY <1>1, <1>5, <1>7, <4>1 DEF PinAsked
    <3>2. states'[x].status = "requestPin"
      BY <1>2, <1>4, <3>1, EventHandlerStatus
    <3>3. ASSUME NEW f \in Pending(x)'
          PROVE  Rank(f) = 6
      <4>1. 5 <= Rank(f) /\ Rank(f) \in 1 .. 6 /\ Rank(f) # 5
        BY <1>1, <1>4, <3>1
      <4> QED
        BY <4>1
    <3>4. \A f \in Pending(x)' : f.type = "KeyshareBlocked"
      BY <1>4, <3>3 DEF EndEvents
    <3> QED
      BY <3>2, <3>4
  <2> QED
    BY <2>1, <2>2, <2>3
<1> QED
  BY <1>4, <1>6, <1>7

LEMMA EndStays ==
  ASSUME ~FrameLag, TypeOK, OrderInv, EndInv, AppStep, NEW x \in Session,
         ~(ReceiveEvent /\ Head(toDart).id = x)
  PROVE  ReportsEnd(x)' /\ EndArrives(x)' /\ PinAsked(x)'
<1>1. Pending(x)' = Pending(x)
  BY PendingApp DEF OrderInv
<1>2. phase' = phase
  BY DEF AppStep, clientVars
<1>3. ReportsEnd(x) /\ EndArrives(x) /\ PinAsked(x)
  BY DEF EndInv
<1>4. CASE states'[x] = states[x]
  BY <1>1, <1>2, <1>3, <1>4 DEF ReportsEnd, EndArrives, PinAsked
<1>5. CASE \/ states[x].status = "absent" /\ states'[x].status = "initialized"
           \/ Answers(x)
  <2>1. /\ ~IsFinished(states'[x])
        /\ states[x].status \notin {"success", "canceled", "error", "requestPin"}
    BY <1>5 DEF Answers, Asks, IsFinished
  <2>2. \A end \in Ended : ~ShowsEnd(states[x], end)
    BY <2>1 DEF ShowsEnd, Ended
  <2> QED
    BY <1>1, <1>2, <1>3, <2>1, <2>2 DEF ReportsEnd, EndArrives, PinAsked
<1>6. CASE Loses(x)
  <2>1. phase[x] \in Ended /\ Pending(x) = {}
    BY <1>3, <1>6 DEF Loses, ReportsEnd, IsFinished
  <2>2. ShowsEnd(states[x], phase[x])
    BY <1>3, <2>1 DEF EndArrives
  <2>3. ShowsEnd(states'[x], phase[x])
    BY <1>6, <2>1, <2>2 DEF Loses, ShowsEnd, Ended
  <2>4. phase[x] # "blocked"
    BY <1>6, <2>2 DEF Loses, ShowsEnd
  <2> QED
    BY <1>1, <1>2, <2>1, <2>3, <2>4 DEF ReportsEnd, EndArrives, PinAsked, Ended
<1> QED
  BY <1>4, <1>5, <1>6, SessionMove

LEMMA EndGo ==
  ASSUME TypeOK, OrderInv, UnsupportedInv', EndInv, BridgeStep \/ IrmaClientStep,
         NEW x \in Session
  PROVE  ReportsEnd(x)' /\ EndArrives(x)' /\ PinAsked(x)'
<1>1. PICK s \in Session : GoMove(s)
  BY GoCases
<1>2. states' = states /\ phase \in [Session -> Phase]
  BY GoHandles DEF appVars, TypeOK, BridgeTypeOK
<1>3. ReportsEnd(x) /\ EndArrives(x) /\ PinAsked(x)
  BY DEF EndInv
<1>4. CASE phase'[x] = phase[x] /\ Pending(x)' = Pending(x)
  BY <1>2, <1>3, <1>4 DEF ReportsEnd, EndArrives, PinAsked
<1>5. CASE x # s
  BY <1>1, <1>4, <1>5, PendingGo, MoveForward DEF OrderInv
<1>6. CASE x = s
  <2>1. /\ Pending(x) \subseteq Pending(x)'
        /\ \A e \in Pending(x)' : e \in Pending(x) \/ Fits(e, phase'[x])
        /\ toDart' = toDart => Pending(x)' = Pending(x)
        /\ \A type : Tells(x, type) => \E e \in Pending(x)' : Fits(e, phase'[x])
    BY <1>1, <1>6, PendingGo
  <2>2. /\ \A e, p : Fits(e, p) => Rank(e) = Reach(p)
        /\ \A p \in Phase : Reach(p) = 6 <=> p \in Ended
    BY RankReach
  <2>3. CASE UNCHANGED <<phase, used, toDart>>
    BY <1>4, <2>1, <2>3
  <2>4. CASE phase'[x] \in {"starting", "preparing", "pairing"}
             /\ phase[x] \in {"none", "starting", "preparing"}
    <3>1. ~IsFinished(states[x])
      BY <1>3, <2>4 DEF ReportsEnd, Ended
    <3> QED
      BY <1>2, <2>4, <3>1 DEF ReportsEnd, EndArrives, PinAsked, Ended
  <2>5. CASE phase[x] \in {"preparing", "pairing", "awaitPermission"}
             /\ phase'[x] = "awaitPermission"
    <3>1. \A e \in Pending(x)' : e \in Pending(x) \/ Rank(e) = 3
      BY <2>1, <2>2, <2>5 DEF Reach
    <3> QED
      BY <1>2, <1>3, <2>5, <3>1 DEF ReportsEnd, EndArrives, PinAsked, Ended
  <2>6. CASE phase[x] = "awaitPermission" /\ phase'[x] = "communicating"
    <3>1. ~IsFinished(states[x])
      BY <1>3, <2>6 DEF ReportsEnd, Ended, UnsupportedInv
    <3> QED
      BY <1>2, <2>6, <3>1 DEF ReportsEnd, EndArrives, PinAsked, Ended
  <2>7. CASE phase[x] \in {"communicating", "awaitPin"} /\ phase'[x] = "awaitPin"
             /\ Tells(x, "RequestPin")
    <3>1. ~IsFinished(states[x])
      BY <1>3, <2>7 DEF ReportsEnd, Ended
    <3>2. \E e \in Pending(x)' : Rank(e) = 5
      BY <2>1, <2>2, <2>7 DEF Reach
    <3> QED
      BY <1>2, <2>7, <3>1, <3>2 DEF ReportsEnd, EndArrives, PinAsked, Ended
  <2>8. CASE phase[x] = "awaitPin" /\ phase'[x] = "finishing" /\ toDart' = toDart
    BY <1>2, <1>3, <2>1, <2>8 DEF ReportsEnd, EndArrives, PinAsked, Ended
  <2>9. ASSUME NEW type, NEW end, Ends(x, type, end)
        PROVE  ReportsEnd(x)' /\ EndArrives(x)' /\ PinAsked(x)'
    <3>1. /\ phase[x] \in Running /\ phase'[x] = end /\ end \in Ended
          /\ end = "blocked" => phase[x] = "awaitPin"
      BY <1>2, <2>9 DEF Ends, EndEvents, Moves, Ended
    <3>2. Reach(phase'[x]) = 6
      BY <2>2, <3>1 DEF Phase
    <3>3. /\ \E e \in Pending(x)' : Rank(e) = 6
          /\ \A e \in Pending(x)' : e \in Pending(x) \/ Rank(e) = 6
      BY <2>1, <2>2, <2>9, <3>2 DEF Ends
    <3>4. phase'[x] = "blocked" =>
            \A e \in Pending(x)' : e \in Pending(x) \/ e.type = "KeyshareBlocked"
      BY <2>1 DEF Fits, EndEvents
    <3>5. ReportsEnd(x)'
      BY <1>2, <1>3, <3>1, <3>3 DEF ReportsEnd, Running, Ended
    <3>6. PinAsked(x)'
      BY <1>2, <1>3, <2>1, <3>1, <3>4 DEF PinAsked, Ended
    <3> QED
      BY <3>1, <3>3, <3>5, <3>6 DEF EndArrives
  <2>10. CASE toGo # <<>> /\ Head(toGo).type = "NewSession" /\ Head(toGo).id = x
              /\ Moves(x, "starting")
    <3>1. phase[x] = "none"
      BY <2>10, NextMessage DEF OrderInv, Starts
    <3> QED
      BY <1>2, <2>4, <2>10, <3>1 DEF Moves
  <2> QED
    BY <1>1, <1>2, <1>6, <2>3, <2>4, <2>5, <2>6, <2>7, <2>8, <2>9, <2>10
    DEF GoMove, Moves, ClientConnect
<1> QED
  BY <1>5, <1>6

LEMMA EndStep ==
  ~FrameLag => (TypeOK /\ OrderInv /\ UnsupportedInv /\ EndInv /\ [Next]_vars => EndInv')
<1> SUFFICES ASSUME ~FrameLag, TypeOK, OrderInv, UnsupportedInv, EndInv, [Next]_vars
             PROVE  EndInv'
  OBVIOUS
<1>1. CASE AppStep
  BY <1>1, EndHears, EndStays DEF EndInv
<1>2. CASE BridgeStep \/ IrmaClientStep
  BY <1>2, UnsupportedStep, EndGo DEF EndInv
<1>3. CASE UNCHANGED vars
  BY <1>3
  DEF EndInv, ReportsEnd, EndArrives, PinAsked, Pending, vars, appVars, clientVars, channels
<1> QED
  BY <1>1, <1>2, <1>3 DEF Next

\* Without taps on outdated frames, the app and irmaclient agree on how a
\* session ended once nothing of it is under way: the last event finds the
\* state it needs, and no answer or failure on the way makes the app forget it.
THEOREM OutcomesTheorem ==
  ASSUME ~FrameLag
  PROVE  Spec => []OutcomesAgree
<1> DEFINE Inv == TypeOK /\ OrderInv /\ UnsupportedInv /\ EndInv
<1>1. Init => Inv
  BY TypeOKInit, OrderInit, UnsupportedInit, EndInit
<1>2. Inv /\ [Next]_vars => Inv'
  BY TypeOKStep, OrderStep, UnsupportedStep, EndStep
<1>3. Inv => OutcomesAgree
  <2> SUFFICES ASSUME Inv, NEW x \in Session, phase[x] \in Ended, Silent(x)
               PROVE  Shows(states[x], phase[x])
    BY DEF OutcomesAgree
  <2>1. Pending(x) = {}
    BY DEF Silent, Pending
  <2>2. ShowsEnd(states[x], phase[x])
    BY <2>1 DEF EndInv, EndArrives
  <2> QED
    BY <2>2 DEF ShowsEnd, Shows, Ended
<1> QED
  BY <1>1, <1>2, <1>3, PTL DEF Spec

-----------------------------------------------------------------------------
(* An open question is shown.                                              *)
(*                                                                         *)
(* While irmaclient waits for the permission, its request, the question on *)
(* the screen or the answer of the user is somewhere on the way.           *)

QuestionOpen(x) ==
  phase[x] = "awaitPermission" /\ x \notin Unsupported =>
    \/ \E e \in Pending(x) : Rank(e) = 3
    \/ Pending(x) = {} /\ (Asks(states[x]) \/ Answering(x, "RespondPermission"))

QuestionInv == \A x \in Session : QuestionOpen(x)

LEMMA QuestionInit == Init => QuestionInv
BY DEF Init, BridgeInit, QuestionInv, QuestionOpen

LEMMA QuestionApp ==
  ASSUME ~FrameLag, TypeOK, OrderInv, QuestionInv, AppStep, NEW x \in Session
  PROVE  QuestionOpen(x)'
<1> SUFFICES ASSUME phase'[x] = "awaitPermission", x \notin Unsupported
             PROVE  \/ \E e \in Pending(x)' : Rank(e) = 3
                    \/ /\ Pending(x)' = {}
                       /\ Asks(states'[x]) \/ Answering(x, "RespondPermission")'
  BY DEF QuestionOpen, Asks
<1>1. phase[x] = "awaitPermission"
  BY DEF AppStep, clientVars
<1>2. \/ \E e \in Pending(x) : Rank(e) = 3
      \/ Pending(x) = {} /\ (Asks(states[x]) \/ Answering(x, "RespondPermission"))
  BY <1>1 DEF QuestionInv, QuestionOpen
<1>3. CASE ReceiveEvent /\ Head(toDart).id = x
  <2> DEFINE e == Head(toDart)
  <2>1. /\ e \in Pending(x) /\ Pending(x) \subseteq Pending(x)' \union {e}
        /\ Pending(x)' \subseteq Pending(x)
        /\ \A f \in Pending(x)' : Rank(e) <= Rank(f)
        /\ Hears(x)
    BY <1>3, PendingApp DEF OrderInv
  <2>2. e \in Event /\ e.id = x /\ states[x] \in State /\ states'[x] = EventHandler(states[x], e)
    BY <2>1, Heard DEF TypeOK, AppTypeOK
  <2>3. Rank(e) = 3 => e.type = "RequestPermission"
    BY <2>1, EventRanks DEF OrderInv
  <2>4. \A f \in Pending(x)' : Rank(f) <= 3 /\ Rank(f) \in 1 .. 6
    BY <1>1, <2>1, EventRanks DEF OrderInv, Reach
  <2> HIDE DEF e
  <2>5. CASE Rank(e) = 3
    <3>1. Asks(states'[x])
      BY <2>2, <2>3, <2>5, EventHandlerStatus DEF Asks
    <3>2. \A f \in Pending(x)' : 3 <= Rank(f)
      BY <2>1, <2>5
    <3>3. \A f \in Pending(x)' : Rank(f) = 3
      BY <2>4, <3>2
    <3> QED
      BY <3>1, <3>3
  <2>6. CASE Rank(e) # 3
    BY <1>2, <2>1, <2>6
  <2> QED
    BY <2>5, <2>6
<1>4. CASE ~(ReceiveEvent /\ Head(toDart).id = x)
  <2>1. Pending(x)' = Pending(x)
    BY <1>4, PendingApp DEF OrderInv
  <2>2. Answering(x, "RespondPermission") => Answering(x, "RespondPermission")'
    BY AnswersApp
  <2>3. Asks(states[x]) => Asks(states'[x]) \/ Answering(x, "RespondPermission")'
    BY <1>4, SessionMove DEF Asks, Answers, Loses
  <2> QED
    BY <1>2, <2>1, <2>2, <2>3
<1> QED
  BY <1>3, <1>4

LEMMA QuestionGo ==
  ASSUME TypeOK, OrderInv, QuestionInv, BridgeStep \/ IrmaClientStep, NEW x \in Session
  PROVE  QuestionOpen(x)'
<1> SUFFICES ASSUME phase'[x] = "awaitPermission", x \notin Unsupported
             PROVE  \/ \E e \in Pending(x)' : Rank(e) = 3
                    \/ /\ Pending(x)' = {}
                       /\ Asks(states'[x]) \/ Answering(x, "RespondPermission")'
  BY DEF QuestionOpen, Asks
<1>0. states' = states /\ phase \in [Session -> Phase]
  BY GoHandles DEF appVars, TypeOK, BridgeTypeOK
<1>1. PICK s \in Session : GoMove(s)
  BY GoCases
<1>2. CASE phase[x] = "awaitPermission" /\ Pending(x)' = Pending(x)
  <2>1. \A c \in calls : ~(RunCall(c) /\ c.id = x /\ c.type = "RespondPermission")
    BY <1>0, <1>2 DEF RunCall, AnswerPermission, Cancel, Finish
  <2>2. Answering(x, "RespondPermission") => Answering(x, "RespondPermission")'
    BY <2>1, AnswersGo DEF OrderInv
  <2> QED
    BY <1>0, <1>2, <2>2 DEF QuestionInv, QuestionOpen
<1>3. CASE x # s
  BY <1>1, <1>2, <1>3, PendingGo, MoveForward DEF OrderInv
<1>4. CASE x = s
  <2>1. /\ toDart' = toDart => Pending(x)' = Pending(x)
        /\ \A type : Tells(x, type) => \E e \in Pending(x)' : Fits(e, phase'[x])
    BY <1>1, <1>4, PendingGo
  <2>2. \A e : Fits(e, "awaitPermission") => Rank(e) = 3
    BY RankReach DEF Reach
  <2>3. CASE UNCHANGED <<phase, used, toDart>>
    BY <1>2, <2>1, <2>3
  <2>4. CASE Tells(x, "RequestPermission")
    BY <2>1, <2>2, <2>4
  <2> QED
    BY <1>0, <1>1, <1>4, <2>3, <2>4 DEF GoMove, Moves, ClientConnect, Ends, EndEvents
<1> QED
  BY <1>3, <1>4

LEMMA QuestionStep ==
  ~FrameLag => (TypeOK /\ OrderInv /\ QuestionInv /\ [Next]_vars => QuestionInv')
<1> SUFFICES ASSUME ~FrameLag, TypeOK, OrderInv, QuestionInv, [Next]_vars
             PROVE  QuestionInv'
  OBVIOUS
<1>1. CASE UNCHANGED vars
  BY <1>1
  DEF QuestionInv, QuestionOpen, Pending, Answering, vars, appVars, bridgeVars, clientVars,
      channels
<1> QED
  BY <1>1, QuestionApp, QuestionGo DEF Next, QuestionInv

-----------------------------------------------------------------------------
(* The PIN screen: a session has one screen at most, which has a PIN bloc  *)
(* in every frame of the PIN request, and a bloc that waits is answered.   *)

\* No screen is on the stack twice, or has left and is on the stack.
ScreensInv ==
  /\ \A i, j \in DOMAIN stack : stack[i] = stack[j] => i = j
  /\ \A x \in Session : OnStack(x) => x \notin leaving

LEMMA ScreensInit == Init => ScreensInv
BY DEF Init, AppInit, ScreensInv, OnStack

LEMMA ScreensStep == TypeOK /\ HandlersInv /\ ScreensInv /\ [Next]_vars => ScreensInv'
<1> SUFFICES ASSUME TypeOK, HandlersInv, ScreensInv, [Next]_vars
             PROVE  ScreensInv'
  OBVIOUS
<1>0. /\ stack \in Seq(Session) /\ Len(stack) \in Nat
      /\ DOMAIN stack = 1 .. Len(stack)
      /\ \A i \in DOMAIN stack : stack[i] \in Session
  BY LenProperties, ElementOfSeq DEF TypeOK, AppTypeOK
<1>1. CASE Stay
  BY <1>1 DEF Stay, ScreensInv, OnStack
<1>2. CASE GoHome
  BY <1>2 DEF GoHome, ScreensInv, OnStack
<1>3. CASE PopTop /\ stack # <<>>
  <2>1. Len(stack) \in Nat \ {0}
    BY <1>0, <1>3, EmptySeq
  <2>2. \A i \in 1 .. Len(stack) - 1 : stack[i] \in Session
    BY <1>0, <2>1
  <2>3. /\ stack' \in Seq(Session) /\ Len(stack') = Len(stack) - 1
        /\ \A i \in 1 .. Len(stack) - 1 : stack'[i] = stack[i]
    BY <1>0, <1>3, <2>1, <2>2, SubSeqProperties DEF PopTop
  <2>4. DOMAIN stack' = 1 .. Len(stack) - 1
    BY <2>3, LenProperties
  <2>5. \A i \in DOMAIN stack' : /\ i \in DOMAIN stack /\ stack'[i] = stack[i]
                                 /\ stack[i] # stack[Len(stack)]
    BY <1>0, <2>1, <2>3, <2>4 DEF ScreensInv
  <2>6. \A x \in Session : OnStack(x)' => x \notin leaving'
    BY <1>3, <2>5 DEF ScreensInv, OnStack, PopTop
  <2> QED
    BY <2>5, <2>6 DEF ScreensInv
<1>4. ASSUME NEW s \in Session, StartSession(s)
      PROVE  ScreensInv'
  <2>1. /\ stack' \in Seq(Session) /\ Len(stack') = Len(stack) + 1
        /\ \A i \in 1 .. Len(stack) : stack'[i] = stack[i]
        /\ stack'[Len(stack) + 1] = s
    BY <1>0, <1>4, AppendProperties DEF StartSession
  <2>2. DOMAIN stack' = 1 .. Len(stack) + 1
    BY <2>1, LenProperties
  <2>3. ~OnStack(s) /\ s \notin leaving
    BY <1>4 DEF StartSession, HandlersInv, Known
  <2>4. \A i \in 1 .. Len(stack) : stack[i] # s
    BY <1>0, <2>3 DEF OnStack
  <2>5. \A i \in DOMAIN stack' : i \in DOMAIN stack \/ i = Len(stack) + 1
    BY <1>0, <2>2
  <2>6. \A i, j \in DOMAIN stack' : stack'[i] = stack'[j] => i = j
    BY <1>0, <2>1, <2>4, <2>5 DEF ScreensInv
  <2>7. \A x \in Session : OnStack(x)' => OnStack(x) \/ x = s
    BY <1>0, <2>1, <2>5 DEF OnStack
  <2> QED
    BY <1>4, <2>3, <2>6, <2>7 DEF StartSession, ScreensInv
<1>5. ASSUME NEW s \in Session, Paint(s)
      PROVE  stack # <<>> /\ (Stay \/ GoHome \/ PopTop)
  <2>1. stack # <<>>
    BY <1>5, OnStackNotEmpty DEF Paint, TypeOK
  <2> QED
    BY <1>5, <2>1 DEF Paint, OpenReturnURL, PopToUnderlyingOrHome
<1>6. ASSUME NEW s \in Session, Dispose(s)
      PROVE  ScreensInv'
  BY <1>6 DEF Dispose, ScreensInv, OnStack
<1>7. ASSUME NEW s \in Session, Taps(s), ~StartSession(s)
      PROVE  stack # <<>> /\ (Stay \/ GoHome \/ PopTop)
  BY <1>7 DEF Taps, DismissSession, ConfirmDisclosure, DeclineDisclosure,
              GiveIssuancePermission, SubmitPin, CancelPin, GoBackFromPin, CloseScreen,
              FailToCall, GoBack, CanTap, Stay, appVars
<1>8. CASE UNCHANGED appVars
  BY <1>1, <1>8 DEF appVars, Stay
<1>9. CASE AppStep
  BY <1>1, <1>2, <1>3, <1>4, <1>5, <1>6, <1>7, <1>9, AppCases DEF ReceiveEvent
<1> QED
  BY <1>8, <1>9 DEF Next, BridgeStep, IrmaClientStep, vars

\* Session x has got to its PIN: no earlier event is on its way to the app.
Beyond(x) == 5 <= Reach(phase[x]) /\ \A e \in Pending(x) : 5 <= Rank(e)

PinHasReason(x) ==
  states[x].status = "requestPin" \/ painted[x].status = "requestPin" \/ pin[x] # "closed" =>
    Beyond(x)

PinHasBloc(x) == OnStack(x) /\ painted[x].status = "requestPin" => pin[x] # "closed"

PinAccepted(x) == pin[x] = "authenticated" => phase[x] \in Ended

PinAnswered(x) ==
  phase[x] = "awaitPin" /\ pin[x] = "busy" =>
    (\E e \in Pending(x) : Rank(e) = 5) \/ Answering(x, "RespondPin")

PinInv ==
  /\ ScreensInv
  /\ \A x \in Session :
       PinHasReason(x) /\ PinHasBloc(x) /\ PinAccepted(x) /\ PinAnswered(x)

LEMMA PinInit == Init => PinInv
<1> SUFFICES ASSUME Init, NEW x \in Session
             PROVE  PinHasReason(x) /\ PinHasBloc(x) /\ PinAccepted(x) /\ PinAnswered(x)
  BY ScreensInit DEF PinInv
<1>1. pin[x] = "closed" /\ states[x] = Absent /\ painted[x] = Absent
  BY DEF Init, AppInit
<1>2. Absent.status = "absent"
  BY DEF Absent
<1> QED
  BY <1>1, <1>2 DEF PinHasReason, PinHasBloc, PinAccepted, PinAnswered

LEMMA PinApp ==
  ASSUME ~FrameLag, TypeOK, OrderInv, PinInv, AppStep, NEW x \in Session
  PROVE  PinHasReason(x)' /\ PinHasBloc(x)' /\ PinAccepted(x)' /\ PinAnswered(x)'
<1> DEFINE e == Head(toDart)
<1>0. /\ phase' = phase /\ states[x] \in State /\ phase[x] \in Phase
      /\ emitted[x].status = states[x].status
  BY DEF AppStep, clientVars, TypeOK, AppTypeOK, BridgeTypeOK, OrderInv, StreamInv
<1>1. PinHasReason(x) /\ PinHasBloc(x) /\ PinAccepted(x) /\ PinAnswered(x)
  BY DEF PinInv
<1>2. /\ Pending(x)' \subseteq Pending(x)
      /\ ~(ReceiveEvent /\ Head(toDart).id = x) => Pending(x)' = Pending(x)
      /\ ReceiveEvent /\ Head(toDart).id = x =>
           /\ Hears(x) /\ e \in Pending(x)
           /\ \A f \in Pending(x)' : Rank(e) <= Rank(f)
  BY PendingApp DEF OrderInv
<1>3. ASSUME ReceiveEvent, Head(toDart).id = x
      PROVE  /\ e \in Event /\ states'[x] = EventHandler(states[x], e)
             /\ Rank(e) \in 1 .. 6 /\ Rank(e) <= Reach(phase[x])
             /\ Rank(e) = 6 => <<e.type, phase[x]>> \in EndEvents
             /\ Rank(e) = 5 <=> e.type = "RequestPin"
             /\ pin'[x] # "busy"
             /\ pin'[x] = "authenticated" => pin[x] # "closed" /\ (pin[x] = "authenticated" \/ e.type # "RequestPin")
  <2>1. e \in Event /\ states'[x] = EventHandler(states[x], e)
    BY <1>2, <1>3, Heard
  <2>2. /\ Rank(e) \in 1 .. 6 /\ Rank(e) <= Reach(phase[x])
        /\ Rank(e) = 6 => <<e.type, phase[x]>> \in EndEvents
        /\ Rank(e) = 5 <=> e.type = "RequestPin"
    BY <1>2, <1>3, EventRanks DEF OrderInv
  <2>3. pin'[x] = PinAfterEvent(x, e)
    BY <1>3 DEF ReceiveEvent, TypeOK, AppTypeOK
  <2> QED
    BY <1>3, <2>1, <2>2, <2>3 DEF PinAfterEvent
<1>4. Beyond(x) => Beyond(x)'
  BY <1>0, <1>2 DEF Beyond
<1> HIDE DEF e
<1>5. states'[x].status = "requestPin" => Beyond(x)'
  <2>1. CASE ReceiveEvent /\ Head(toDart).id = x
    <3>1. CASE e.type = "RequestPin"
      BY <1>0, <1>2, <1>3, <2>1, <3>1 DEF Beyond
    <3>2. CASE e.type # "RequestPin"
      <4>1. states'[x].status = "requestPin" => states[x].status = "requestPin"
        BY <1>0, <1>3, <2>1, <3>2, EventHandlerStatus
      <4> QED
        BY <1>1, <1>4, <4>1 DEF PinHasReason
    <3> QED
      BY <3>1, <3>2
  <2>2. CASE ~(ReceiveEvent /\ Head(toDart).id = x)
    BY <1>1, <1>4, <2>2, SessionMove DEF PinHasReason, Answers, Asks, Loses
  <2> QED
    BY <2>1, <2>2
<1>6. painted'[x].status = "requestPin" => Beyond(x)'
  BY <1>0, <1>1, <1>4, PaintedMove, Starting DEF PinHasReason
<1>7. pin'[x] # "closed" => Beyond(x)'
  BY <1>0, <1>1, <1>4, PinMove DEF PinHasReason, PinAfterFrame
<1>8. PinHasReason(x)'
  BY <1>5, <1>6, <1>7 DEF PinHasReason
<1>9. PinHasBloc(x)'
  <2>1. CASE Paint(x)
    <3>1. painted'[x] = emitted[x] /\ pin'[x] = PinAfterFrame(x, emitted[x])
      BY <2>1 DEF Paint, TypeOK, AppTypeOK
    <3> QED
      BY <3>1 DEF PinHasBloc, PinAfterFrame
  <2>2. CASE ~Paint(x)
    <3> SUFFICES ASSUME OnStack(x)', painted'[x].status = "requestPin"
                 PROVE  pin'[x] # "closed"
      BY DEF PinHasBloc
    <3>1. ~StartSession(x) /\ painted'[x] = painted[x]
      BY <2>2, PaintedMove, Starting
    <3>2. OnStack(x) /\ pin[x] # "closed"
      BY <1>1, <3>1, StackMove DEF PinHasBloc
    <3>3. ~Dispose(x)
      BY <3>2 DEF Dispose, PinInv, ScreensInv
    <3> QED
      BY <2>2, <3>2, <3>3, PinMove
  <2> QED
    BY <2>1, <2>2
<1>10. PinAccepted(x)'
  <2> SUFFICES ASSUME pin'[x] = "authenticated", pin[x] # "authenticated"
               PROVE  phase[x] \in Ended
    BY <1>0, <1>1 DEF PinAccepted
  <2>1. ReceiveEvent /\ Head(toDart).id = x
    BY PinMove DEF PinAfterFrame
  <2>2. Beyond(x) /\ e.type # "RequestPin"
    BY <1>1, <1>3, <2>1 DEF PinHasReason
  <2>3. Rank(e) = 6
    <3>1. 5 <= Rank(e) /\ Rank(e) \in 1 .. 6 /\ Rank(e) # 5
      BY <1>2, <1>3, <2>1, <2>2 DEF Beyond
    <3> QED
      BY <3>1
  <2> QED
    BY <1>3, <2>1, <2>3 DEF EndEvents, Ended
<1>11. PinAnswered(x)'
  <2> SUFFICES ASSUME phase[x] = "awaitPin", pin'[x] = "busy"
               PROVE  (\E f \in Pending(x)' : Rank(f) = 5) \/ Answering(x, "RespondPin")'
    BY <1>0 DEF PinAnswered
  <2>1. ~(ReceiveEvent /\ Head(toDart).id = x) /\ Pending(x)' = Pending(x)
    BY <1>2, <1>3
  <2>2. CASE pin[x] = "busy"
    BY <1>1, <2>1, <2>2, AnswersApp DEF PinAnswered
  <2>3. CASE pin[x] # "busy"
    <3>1. SubmitPin(x)
      BY <2>1, <2>3, PinMove DEF PinAfterFrame
    <3> DEFINE m == Respond("RespondPin", x, TRUE, NoChoice)
    <3>2. m \in Message /\ m.id = x /\ m.type = "RespondPin" /\ Bridge(m)
      BY <3>1, MessagesType DEF MessageType, Respond, SubmitPin, Choice
    <3> HIDE DEF m
    <3>3. Answering(m.id, m.type)'
      BY <3>2, Sent
    <3> QED
      BY <3>2, <3>3
  <2> QED
    BY <2>2, <2>3
<1> QED
  BY <1>8, <1>9, <1>10, <1>11

\* An event that is raised is one the app has still to see.
LEMMA Dispatched ==
  ASSUME TypeOK, NEW e \in Event, DispatchEvent(e)
  PROVE  e \in Pending(e.id)'
<1>1. /\ toDart' \in Seq(Event) /\ Len(toDart') = Len(toDart) + 1
      /\ toDart'[Len(toDart) + 1] = e /\ Len(toDart) \in Nat
  BY AppendProperties, LenProperties DEF TypeOK, DispatchEvent
<1>2. Len(toDart) + 1 \in DOMAIN toDart'
  BY <1>1, LenProperties
<1> QED
  BY <1>1, <1>2 DEF Pending

LEMMA PinGo ==
  ASSUME TypeOK, OrderInv, PinInv, BridgeStep \/ IrmaClientStep, NEW x \in Session
  PROVE  PinHasReason(x)' /\ PinHasBloc(x)' /\ PinAccepted(x)' /\ PinAnswered(x)'
<1>0. /\ UNCHANGED appVars
      /\ phase \in [Session -> Phase] /\ phase'[x] \in Phase
  <2>1. TypeOK'
    BY TypeOKStep DEF Next
  <2> QED
    BY <2>1, GoHandles DEF TypeOK, BridgeTypeOK
<1>1. PICK s \in Session : GoMove(s)
  BY GoCases
<1>2. PinHasReason(x) /\ PinHasBloc(x) /\ PinAccepted(x) /\ PinAnswered(x)
  BY DEF PinInv
<1>3. /\ Reach(phase[x]) <= Reach(phase'[x])
      /\ phase[x] \in Ended => phase'[x] \in Ended
      /\ Pending(x) \subseteq Pending(x)'
      /\ \A e \in Pending(x)' : e \in Pending(x) \/ Rank(e) = Reach(phase'[x])
  <2>1. CASE x # s
    BY <1>1, <2>1, MoveForward, PendingGo, RankReach DEF OrderInv
  <2>2. CASE x = s
    BY <1>1, <2>2, MoveForward, PendingGo, RankReach DEF OrderInv
  <2> QED
    BY <2>1, <2>2
<1>4. Beyond(x) => Beyond(x)'
  <2> SUFFICES ASSUME Beyond(x)
               PROVE  5 <= Reach(phase'[x]) /\ \A e \in Pending(x)' : 5 <= Rank(e)
    BY DEF Beyond
  <2>1. 5 <= Reach(phase'[x])
    <3>1. 5 <= Reach(phase[x]) /\ Reach(phase[x]) \in 0 .. 6 /\ Reach(phase'[x]) \in 0 .. 6
      BY RankReach DEF Beyond
    <3> QED
      BY <1>3, <3>1
  <2> QED
    BY <1>3, <2>1 DEF Beyond
<1>5. PinHasReason(x)' /\ PinHasBloc(x)' /\ PinAccepted(x)'
  BY <1>0, <1>2, <1>3, <1>4 DEF PinHasReason, PinHasBloc, PinAccepted, appVars, OnStack
<1>6. PinAnswered(x)'
  <2> SUFFICES ASSUME phase'[x] = "awaitPin", pin[x] = "busy"
               PROVE  (\E e \in Pending(x)' : Rank(e) = 5) \/ Answering(x, "RespondPin")'
    BY <1>0 DEF PinAnswered, appVars
  <2>1. CASE phase[x] = "awaitPin"
    <3>1. ASSUME NEW c \in calls, RunCall(c), c.id = x, c.type = "RespondPin"
          PROVE  \E e \in Pending(x)' : Rank(e) = 5
      <4>1. attempts[x] > 1 /\ DispatchEvent([EventOf("RequestPin", x) EXCEPT !.left = attempts[x] - 1])
        BY <1>0, <2>1, <3>1 DEF RunCall, AnswerPin, Cancel, Finish
      <4>2. attempts[x] - 1 \in Nat
        BY <4>1, BridgeAssumption DEF TypeOK, BridgeTypeOK
      <4> DEFINE e == [EventOf("RequestPin", x) EXCEPT !.left = attempts[x] - 1]
      <4>3. e \in Event /\ e.id = x /\ e.type = "RequestPin"
        <5>1. \A n \in Nat : [EventOf("RequestPin", x) EXCEPT !.left = n] \in Event
          BY EventOfType DEF EventType
        <5>2. e.id = x /\ e.type = "RequestPin"
          BY DEF EventOf
        <5> QED
          BY <4>2, <5>1, <5>2
      <4> HIDE DEF e
      <4>4. e \in Pending(x)'
        BY <4>1, <4>3, Dispatched DEF e
      <4> QED
        BY <4>3, <4>4 DEF Rank
    <3>2. Answering(x, "RespondPin") =>
            Answering(x, "RespondPin")' \/ \E e \in Pending(x)' : Rank(e) = 5
      BY <3>1, AnswersGo DEF OrderInv
    <3> QED
      BY <1>2, <1>3, <2>1, <3>2 DEF PinAnswered
  <2>2. CASE phase[x] # "awaitPin"
    <3>1. x = s
      BY <1>1, <2>2, MoveForward DEF OrderInv
    <3>2. Tells(x, "RequestPin")
      BY <1>0, <1>1, <2>2, <3>1 DEF GoMove, Moves, ClientConnect, Ends, EndEvents
    <3>3. \E e \in Pending(x)' : Fits(e, "awaitPin")
      BY <1>1, <3>1, <3>2, PendingGo
    <3> QED
      BY <3>3, RankReach DEF Reach
  <2> QED
    BY <2>1, <2>2
<1> QED
  BY <1>5, <1>6

LEMMA PinStep ==
  ~FrameLag => (TypeOK /\ OrderInv /\ PinInv /\ [Next]_vars => PinInv')
<1> SUFFICES ASSUME ~FrameLag, TypeOK, OrderInv, PinInv, [Next]_vars
             PROVE  PinInv'
  OBVIOUS
<1>0. ScreensInv'
  BY ScreensStep DEF PinInv, OrderInv
<1>1. CASE UNCHANGED vars
  BY <1>0, <1>1
  DEF PinInv, PinHasReason, PinHasBloc, PinAccepted, PinAnswered, Beyond, Pending, Answering,
      OnStack, vars, appVars, bridgeVars, clientVars, channels
<1>2. CASE Next
  <2>1. \A x \in Session :
          PinHasReason(x)' /\ PinHasBloc(x)' /\ PinAccepted(x)' /\ PinAnswered(x)'
    BY <1>2, PinApp, PinGo DEF Next
  <2> QED
    BY <1>0, <2>1 DEF PinInv
<1> QED
  BY <1>1, <1>2

\* Without taps on outdated frames, a session irmaclient waits for with
\* nothing under way has its question on the screen: the request for the
\* permission, or a PIN screen that takes a PIN.
THEOREM QuestionTheorem ==
  ASSUME ~FrameLag
  PROVE  Spec => []QuestionIsShown
<1> DEFINE Inv == TypeOK /\ OrderInv /\ UnsupportedInv /\ EndInv /\ QuestionInv /\ PinInv
<1>1. Init => Inv
  BY TypeOKInit, OrderInit, UnsupportedInit, EndInit, QuestionInit, PinInit
<1>2. Inv /\ [Next]_vars => Inv'
  BY TypeOKStep, OrderStep, UnsupportedStep, EndStep, QuestionStep, PinStep
<1>3. Inv => QuestionIsShown
  <2> SUFFICES ASSUME Inv, NEW x \in Session, AtRest(x)
               PROVE  /\ phase[x] = "awaitPermission" /\ x \notin Unsupported => Asks(painted[x])
                      /\ phase[x] = "awaitPin" => pin[x] = "idle"
    BY DEF QuestionIsShown, Asks
  <2>1. /\ Pending(x) = {} /\ \A type : ~Answering(x, type)
        /\ OnStack(x) /\ painted[x] = emitted[x]
    BY DEF AtRest, Silent, Pending, Answering
  <2>2. emitted[x].status = states[x].status
    BY DEF OrderInv, StreamInv
  <2>3. phase[x] = "awaitPermission" /\ x \notin Unsupported => Asks(painted[x])
    BY <2>1, <2>2 DEF QuestionInv, QuestionOpen, Asks
  <2>4. ASSUME phase[x] = "awaitPin"
        PROVE  pin[x] = "idle"
    <3>1. painted[x].status = "requestPin"
      BY <2>1, <2>2, <2>4 DEF EndInv, PinAsked
    <3>2. pin[x] \in PinState \ {"closed", "busy", "authenticated"}
      BY <2>1, <2>4, <3>1
      DEF PinInv, PinHasBloc, PinAccepted, PinAnswered, Ended, TypeOK, AppTypeOK
    <3> QED
      BY <3>2 DEF PinState
  <2> QED
    BY <2>3, <2>4
<1> QED
  BY <1>1, <1>2, <1>3, PTL DEF Spec

-----------------------------------------------------------------------------
(* The contract.  First, the steps of the contract in terms of the mapping. *)

SameAgreed(x) == Agreed(x)' = Agreed(x)
SameEnded(x) == EndedAs(x)' = EndedAs(x)
SameReported(x) == ReportedAs(x)' = ReportedAs(x)

LEMMA MapStutter ==
  ASSUME used' = used,
         \A x \in Session : SameAgreed(x) /\ SameEnded(x) /\ SameReported(x)
  PROVE  UNCHANGED Contract!vars
BY DEF Contract!vars, SameAgreed, SameEnded, SameReported

LEMMA MapAgree ==
  ASSUME NEW s \in Session, used' = used,
         \A x \in Session : SameEnded(x) /\ SameReported(x),
         \A x \in Session \ {s} : SameAgreed(x),
         Agreed(s) \subseteq Agreed(s)'
  PROVE  Contract!Agree(s)
<1>1. Agreed(s)' \in SUBSET Choice
  BY DEF Agreed
<1>2. [x \in Session |-> Agreed(x)]' =
        [[x \in Session |-> Agreed(x)] EXCEPT ![s] = @ \union Agreed(s)']
  BY DEF SameAgreed
<1> QED
  BY <1>1, <1>2 DEF Contract!Agree, SameEnded, SameReported

LEMMA MapPerform ==
  ASSUME NEW s \in Session, NEW c \in Agreed(s),
         EndedAs(s) = "open", used[s] = {}, used' = [used EXCEPT ![s] = {c}],
         \A x \in Session : SameAgreed(x) /\ SameEnded(x) /\ SameReported(x)
  PROVE  Contract!Perform(s)
BY DEF Contract!Perform, SameAgreed, SameEnded, SameReported

LEMMA MapEnd ==
  ASSUME NEW s \in Session, used' = used, EndedAs(s) = "open",
         EndedAs(s)' \in Ended, EndedAs(s)' = "succeeded" => used[s] # {},
         \A x \in Session \ {s} : SameEnded(x),
         \A x \in Session : SameAgreed(x) /\ SameReported(x)
  PROVE  Contract!End(s)
<1>1. [x \in Session |-> EndedAs(x)]' =
        [[x \in Session |-> EndedAs(x)] EXCEPT ![s] = EndedAs(s)']
  BY DEF SameEnded
<1> QED
  BY <1>1 DEF Contract!End, Contract!Outcome, Ended, SameAgreed, SameReported

LEMMA MapReport ==
  ASSUME NEW s \in Session, used' = used,
         ReportedAs(s) = "nothing" \/ (s \in Unsupported /\ ReportedAs(s) = "error"),
         \/ <<EndedAs(s), ReportedAs(s)'>> \in Contract!Truthful
         \/ s \in Unsupported /\ ReportedAs(s)' = "error",
         \A x \in Session \ {s} : SameReported(x),
         \A x \in Session : SameAgreed(x) /\ SameEnded(x)
  PROVE  Contract!Report(s)
<1>1. [x \in Session |-> ReportedAs(x)]' =
        [[x \in Session |-> ReportedAs(x)] EXCEPT ![s] = ReportedAs(s)']
  BY DEF SameReported
<1>2. ReportedAs(s)' \in Contract!Verdict
  BY DEF Contract!Truthful, Contract!Verdict
<1> QED
  BY <1>1, <1>2 DEF Contract!Report, SameAgreed, SameEnded

LEMMA MapLose ==
  ASSUME NEW s \in Session, used' = used,
         ReportedAs(s) \in {"success", "canceled"}, ReportedAs(s)' = "error",
         \A x \in Session \ {s} : SameReported(x),
         \A x \in Session : SameAgreed(x) /\ SameEnded(x)
  PROVE  Contract!LoseReturn(s)
<1>1. [x \in Session |-> ReportedAs(x)]' =
        [[x \in Session |-> ReportedAs(x)] EXCEPT ![s] = ReportedAs(s)']
  BY DEF SameReported
<1> QED
  BY <1>1 DEF Contract!LoseReturn, SameAgreed, SameEnded

\* What Go does: a session proceeds, ends, or goes on within the contract.
LEMMA ContractGo ==
  ASSUME TypeOK, OrderInv, ConsentBeforeDisclosure', BridgeStep \/ IrmaClientStep
  PROVE  \/ \E s \in Session : Contract!Perform(s) \/ Contract!End(s)
         \/ UNCHANGED Contract!vars
<1>0. /\ UNCHANGED appVars
      /\ phase \in [Session -> Phase] /\ used \in [Session -> SUBSET Choice]
      /\ \A c \in calls : c.choice \in Choice
  BY GoHandles DEF TypeOK, BridgeTypeOK, Call
<1>1. \A x \in Session : SameAgreed(x) /\ SameReported(x)
  BY <1>0 DEF SameAgreed, SameReported, Agreed, Consented, ReportedAs, appVars
<1>2. PICK s \in Session : GoMove(s)
  BY GoCases
<1>3. /\ \A x \in Session \ {s} : phase'[x] = phase[x]
      /\ phase[s] \in Ended => UNCHANGED <<phase, used, toDart>>
  BY <1>2, MoveForward DEF OrderInv
<1>4. \A x \in Session \ {s} : SameEnded(x)
  BY <1>3 DEF SameEnded, EndedAs
<1>5. CASE UNCHANGED <<phase, used, toDart>>
  BY <1>1, <1>5, MapStutter DEF SameEnded, EndedAs
<1>6. CASE used' = used /\ phase[s] \notin Ended /\ phase'[s] \notin Ended
  <2>1. SameEnded(s)
    BY <1>6 DEF SameEnded, EndedAs
  <2> QED
    BY <1>1, <1>4, <1>6, <2>1, MapStutter
<1>7. ASSUME phase[s] = "awaitPermission", Moves(s, "communicating"),
             NEW c \in calls, used' = [used EXCEPT ![s] = @ \union {c.choice}]
      PROVE  Contract!Perform(s)
  <2>1. used[s] = {}
    BY <1>7 DEF OrderInv, UsedInv
  <2>2. used' = [used EXCEPT ![s] = {c.choice}]
    BY <1>0, <1>7, <2>1
  <2>3. Consented(s, c.choice)'
    BY <1>0, <2>2 DEF ConsentBeforeDisclosure
  <2>4. c.choice \in Agreed(s)
    BY <1>0, <2>3 DEF Agreed, Consented, appVars
  <2>5. EndedAs(s) = "open" /\ SameEnded(s)
    BY <1>0, <1>7 DEF SameEnded, EndedAs, Ended, Moves
  <2> QED
    BY <1>1, <1>4, <2>1, <2>2, <2>4, <2>5, MapPerform
<1>8. ASSUME NEW type, NEW end, Ends(s, type, end)
      PROVE  Contract!End(s)
  <2>1. /\ phase[s] \in Running /\ phase'[s] = end /\ end \in Ended /\ used' = used
        /\ end = "succeeded" => phase[s] \in {"communicating", "finishing"}
    BY <1>0, <1>8 DEF Ends, EndEvents, Moves, Ended
  <2>2. EndedAs(s) = "open" /\ EndedAs(s)' = end
    BY <2>1 DEF EndedAs, Running, Ended
  <2>3. end = "succeeded" => used[s] # {}
    BY <2>1 DEF OrderInv, UsedInv
  <2> QED
    BY <1>1, <1>4, <2>1, <2>2, <2>3, MapEnd
<1>9. CASE /\ toGo # <<>> /\ Head(toGo).type = "NewSession" /\ Head(toGo).id = s
           /\ Moves(s, "starting") /\ used' = used
  <2>1. phase[s] = "none"
    BY <1>9, NextMessage DEF OrderInv, Starts
  <2> QED
    BY <1>0, <1>6, <1>9, <2>1 DEF Moves, Ended
<1>10. CASE \/ ClientConnect(s)
            \/ /\ used' = used
               /\ \/ phase[s] = "preparing" /\ Moves(s, "pairing")
                  \/ /\ phase[s] \in {"preparing", "pairing", "awaitPermission"}
                     /\ Moves(s, "awaitPermission")
                  \/ phase[s] \in {"communicating", "awaitPin"} /\ Moves(s, "awaitPin")
                  \/ phase[s] = "awaitPin" /\ Moves(s, "finishing")
  BY <1>0, <1>6, <1>10 DEF ClientConnect, Moves, Ended
<1> QED
  BY <1>2, <1>5, <1>7, <1>8, <1>9, <1>10 DEF GoMove

\* A step of the app changes the state of one session at most.
LEMMA OneStateMoves ==
  ASSUME TypeOK, AppStep
  PROVE  \/ \A x \in Session : states'[x] = states[x]
         \/ \E s \in Session : \A x \in Session \ {s} : states'[x] = states[x]
<1>0. states \in [Session -> State]
  BY DEF TypeOK, AppTypeOK
<1>1. ASSUME NEW s \in Session, states'[s] # states[s]
      PROVE  \A x \in Session \ {s} : states'[x] = states[x]
  <2>1. CASE StartSession(s)
    BY <1>0, <2>1 DEF StartSession
  <2>2. ASSUME NEW st, SetState(s, st)
        PROVE  \A x \in Session \ {s} : states'[x] = states[x]
    BY <1>0, <2>2 DEF SetState
  <2> QED
    BY <1>1, <2>1, <2>2, StatesMove
<1> QED
  BY <1>1

\* What the app comes to report.
LEMMA ContractReport ==
  ASSUME ~FrameLag, TypeOK, OrderInv, EndInv, AppStep, NEW s \in Session,
         ~SameReported(s),
         \A x \in Session \ {s} : SameReported(x),
         \A x \in Session : SameAgreed(x) /\ SameEnded(x),
         used' = used
  PROVE  Contract!Report(s) \/ Contract!LoseReturn(s)
<1>1. ReportsEnd(s) /\ PinAsked(s) /\ states[s] \in State /\ states'[s] # states[s]
  BY DEF EndInv, TypeOK, AppTypeOK, SameReported, ReportedAs
<1>2. CASE ReceiveEvent /\ Head(toDart).id = s
  <2> DEFINE e == Head(toDart)
  <2>1. /\ e \in Pending(s) /\ Hears(s)
        /\ e \in Event /\ e.id = s
        /\ states'[s] = EventHandler(states[s], e)
    BY <1>2, PendingApp, Heard DEF OrderInv
  <2>2. /\ Rank(e) \in 1 .. 6
        /\ Rank(e) = 6 => <<e.type, phase[s]>> \in EndEvents
        /\ Rank(e) = 3 => e.type = "RequestPermission"
    BY <2>1, EventRanks DEF OrderInv
  <2> HIDE DEF e
  <2>3. IsFinished(states[s]) =>
          s \in Unsupported /\ states[s].status = "error" /\ Rank(e) \in {3, 6}
    BY <1>1, <2>1 DEF ReportsEnd
  <2>4. ReportedAs(s) = "nothing" \/ (s \in Unsupported /\ ReportedAs(s) = "error")
    BY <2>3 DEF ReportedAs
  <2>5. CASE Rank(e) = 6
    <3>1. e.type # "KeyshareBlocked"
      BY <1>1, <2>1, EventHandlerStatus
    <3>2. <<phase[s], states'[s].status>> \in Contract!Truthful /\ IsFinished(states'[s])
      BY <2>1, <2>2, <2>5, <3>1, <1>1, EventHandlerStatus
      DEF EndEvents, Contract!Truthful, IsFinished
    <3>3. EndedAs(s) = phase[s] /\ ReportedAs(s)' = states'[s].status
      BY <3>2 DEF EndedAs, ReportedAs, Contract!Truthful, Ended
    <3> QED
      BY <2>4, <3>2, <3>3, MapReport
  <2>6. CASE Rank(e) < 6
    <3>1. CASE IsFinished(states'[s])
      <4>1. s \in Unsupported /\ states'[s].status = "error"
        BY <1>1, <2>1, <2>3, <2>6, <3>1, EventOpens
      <4>2. ReportedAs(s)' = "error"
        BY <3>1, <4>1 DEF ReportedAs
      <4> QED
        BY <2>4, <4>1, <4>2, MapReport
    <3>2. CASE ~IsFinished(states'[s])
      <4>1. IsFinished(states[s])
        BY <3>2 DEF SameReported, ReportedAs
      <4>2. e.type = "RequestPermission" /\ s \in Unsupported
        BY <2>2, <2>3, <2>6, <4>1
      <4>3. states'[s].status = "error"
        BY <1>1, <2>1, <4>2, EventHandlerStatus
      <4> QED
        BY <3>2, <4>3 DEF IsFinished
    <3> QED
      BY <3>1, <3>2
  <2> QED
    BY <2>2, <2>5, <2>6
<1>3. CASE ~(ReceiveEvent /\ Head(toDart).id = s)
  <2>1. Loses(s)
    <3>1. ~(states[s].status = "absent" /\ states'[s].status = "initialized")
      BY DEF SameReported, ReportedAs, IsFinished
    <3>2. ~Answers(s)
      BY DEF SameReported, ReportedAs, IsFinished, Answers, Asks
    <3> QED
      BY <1>1, <1>3, <3>1, <3>2, SessionMove
  <2>2. ReportedAs(s) \in {"success", "canceled"} /\ ReportedAs(s)' = "error"
    BY <2>1 DEF Loses, ReportedAs, IsFinished
  <2> QED
    BY <2>2, MapLose
<1> QED
  BY <1>2, <1>3

\* What the app does: the user agrees, or an end is reported.
LEMMA ContractApp ==
  ASSUME ~FrameLag, TypeOK, OrderInv, EndInv, AppStep
  PROVE  Contract!Next \/ UNCHANGED Contract!vars
<1>0. /\ phase' = phase /\ used' = used
      /\ confirmed \in [Session -> SUBSET Wallet] /\ states \in [Session -> State]
  BY DEF AppStep, clientVars, TypeOK, AppTypeOK
<1>1. \A x \in Session : SameEnded(x)
  BY <1>0 DEF SameEnded, EndedAs
<1>2. ASSUME NEW s \in Session, ConfirmDisclosure(s) \/ GiveIssuancePermission(s)
      PROVE  Contract!Next
  <2>1. CanTap(s) /\ Asks(painted[s])
    BY <1>2 DEF ConfirmDisclosure, GiveIssuancePermission, Asks
  <2>2. Asks(states[s])
    BY <2>1, TapOnStack DEF OrderInv, StreamInv, Asks
  <2>3. ~ReceiveEvent
    <3>1. toDart' = toDart
      BY <1>2 DEF ConfirmDisclosure, GiveIssuancePermission
    <3>2. toDart # <<>> =>
            Len(toDart) \in DOMAIN toDart /\ Len(toDart) \notin DOMAIN Tail(toDart)
      BY NextEvent
    <3> QED
      BY <3>1, <3>2 DEF ReceiveEvent
  <2>4. SameReported(s)
    BY <2>2, <2>3, SessionMove
    DEF SameReported, ReportedAs, IsFinished, Answers, Loses, Asks
  <2>5. \A x \in Session \ {s} : states'[x] = states[x]
    BY <1>0, <1>2 DEF ConfirmDisclosure, GiveIssuancePermission, SetState
  <2>6. \A x \in Session \ {s} : SameReported(x)
    BY <2>5 DEF SameReported, ReportedAs
  <2>7. \A x \in Session \ {s} : SameAgreed(x)
    BY <1>0, <1>2
    DEF ConfirmDisclosure, GiveIssuancePermission, SameAgreed, Agreed, Consented
  <2>8. Agreed(s) \subseteq Agreed(s)'
    BY HistoryGrows DEF Agreed, Consented, Next
  <2>9. Contract!Agree(s)
    BY <1>0, <1>1, <2>4, <2>6, <2>7, <2>8, MapAgree
  <2> QED
    BY <2>9 DEF Contract!Next
<1>3. CASE UNCHANGED <<confirmed, given>>
  <2>1. \A x \in Session : SameAgreed(x)
    BY <1>3 DEF SameAgreed, Agreed, Consented
  <2>2. CASE \A x \in Session : SameReported(x)
    BY <1>0, <1>1, <2>1, <2>2, MapStutter
  <2>3. ASSUME NEW s \in Session, ~SameReported(s)
        PROVE  Contract!Next
    <3>1. \A x \in Session \ {s} : states'[x] = states[x]
      BY <2>3, OneStateMoves DEF SameReported, ReportedAs
    <3>2. \A x \in Session \ {s} : SameReported(x)
      BY <3>1 DEF SameReported, ReportedAs
    <3> QED
      BY <1>0, <1>1, <2>1, <2>3, <3>2, ContractReport DEF Contract!Next
  <2> QED
    BY <2>2, <2>3
<1>4. \/ UNCHANGED <<confirmed, given>>
      \/ \E s \in Session : ConfirmDisclosure(s) \/ GiveIssuancePermission(s)
  BY AppCases
  DEF ReceiveEvent, Paint, Dispose, Taps, StartSession, DismissSession, DeclineDisclosure,
      SubmitPin, CancelPin, GoBackFromPin, CloseScreen, FailToCall, GoBack, appVars
<1> QED
  BY <1>2, <1>3, <1>4

\* Without taps on outdated frames, the sessions implement the contract: what
\* irmaclient does is what the user agreed to, once, and the app reports the
\* end a session had, after its last event, and takes back at most a way back
\* to the requestor.
THEOREM ContractTheorem ==
  ASSUME ~FrameLag
  PROVE  Spec => ImplementsContract
<1> DEFINE Inv == TypeOK /\ ConsentInv /\ OrderInv /\ UnsupportedInv /\ EndInv
<1>1. Init => Inv
  BY TypeOKInit, ConsentInit, OrderInit, UnsupportedInit, EndInit
<1>2. Inv /\ [Next]_vars => Inv'
  BY TypeOKStep, ConsentStep, OrderStep, UnsupportedStep, EndStep
<1>3. Init => Contract!Init
  <2> SUFFICES ASSUME Init, NEW x \in Session
               PROVE  Agreed(x) = {} /\ used[x] = {} /\ EndedAs(x) = "open" /\ ReportedAs(x) = "nothing"
    BY DEF Contract!Init, Init, BridgeInit
  <2>1. confirmed[x] = {} /\ given = {} /\ states[x] = Absent /\ phase[x] = "none" /\ used[x] = {}
    BY DEF Init, AppInit, BridgeInit
  <2>2. Agreed(x) = {}
    BY <2>1, SessionAssumption DEF Agreed, Consented, Kinds
  <2> QED
    BY <2>1, <2>2 DEF EndedAs, ReportedAs, Ended, Absent, IsFinished
<1>4. Inv /\ [Next]_vars => [Contract!Next]_(Contract!vars)
  <2> SUFFICES ASSUME Inv, [Next]_vars
               PROVE  Contract!Next \/ UNCHANGED Contract!vars
    OBVIOUS
  <2>1. CASE AppStep
    BY <2>1, ContractApp
  <2>2. CASE BridgeStep \/ IrmaClientStep
    BY <1>2, <2>2, ContractGo DEF ConsentInv, Contract!Next
  <2>3. CASE UNCHANGED vars
    BY <2>3, MapStutter
    DEF SameAgreed, SameEnded, SameReported, Agreed, Consented, EndedAs, ReportedAs,
        vars, appVars, clientVars
  <2> QED
    BY <2>1, <2>2, <2>3 DEF Next
<1> QED
  BY <1>1, <1>2, <1>3, <1>4, PTL DEF Spec, ImplementsContract, Contract!Spec

\* Whatever frame a tap lands on, irmaclient keeps its half of the contract: it
\* proceeds once, with the consent of the user, ends once, and succeeds only
\* after it proceeded.
THEOREM ClientContractTheorem ==
  Spec => [][BridgeStep \/ IrmaClientStep =>
               (\E s \in Session : Contract!Perform(s) \/ Contract!End(s))
               \/ UNCHANGED Contract!vars]_vars
<1> DEFINE Inv == TypeOK /\ ConsentInv /\ OrderInv
<1>1. Init => Inv
  BY TypeOKInit, ConsentInit, OrderInit
<1>2. Inv /\ [Next]_vars => Inv'
  BY TypeOKStep, ConsentStep, OrderStep
<1>3. Inv /\ [Next]_vars =>
        [BridgeStep \/ IrmaClientStep =>
           (\E s \in Session : Contract!Perform(s) \/ Contract!End(s))
           \/ UNCHANGED Contract!vars]_vars
  BY <1>2, ContractGo DEF ConsentInv, Next
<1> QED
  BY <1>1, <1>2, <1>3, PTL DEF Spec

=============================================================================
