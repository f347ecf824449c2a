------------------------------- MODULE History --------------------------------
(***************************************************************************)
(* The activity tab: a list of log entries, loaded page by page from       *)
(* irmaclient, newest first.                                               *)
(*                                                                         *)
(* Pages are not addressed.  A list appends every page that reaches it,    *)
(* whoever asked for it, the tab as it was before it was left included.    *)
(***************************************************************************)
EXTENDS SequencesExt

CONSTANTS
  PageSize,     \* the max of a LoadLogsEvent
  MaxLogs,      \* bound: entries written
  MaxAtOnce,    \* bound: requests for more in one turn of the event loop
  MaxLoads      \* bound: loads under way when the tab opens

ASSUME HistoryAssumption ==
  /\ PageSize \in Nat \ {0}
  /\ MaxLogs \in Nat
  /\ MaxAtOnce \in Nat \ {0}
  /\ MaxLoads \in Nat \ {0}

VARIABLES
  logs,       \* irmaclient: by ID, whether the list leaves the entry out
  toGo,       \* LoadLogsEvents under way: the ID before which to load, or Newest
  toApp,      \* events under way to the app
  open,       \* the tab is mounted
  state,      \* HistoryState
  announced,  \* history: the newest entry the app was told of by a success
  crossed,    \* history: since the list was empty, loads were under way together
  failed      \* history: since then, a load failed

vars == <<logs, toGo, toApp, open, state, announced, crossed, failed>>

\* No entry has ID 0.
Newest == 0

Success == [type |-> "SuccessSessionEvent"]
Logs(ids) == [type |-> "LogsEvent", ids |-> ids]

HistoryState == [logEntries : Seq(Nat), loading : BOOLEAN, moreLogsAvailable : BOOLEAN]

TypeOK ==
  /\ logs \in Seq(BOOLEAN)
  /\ toGo \in Seq(Nat)
  /\ toApp \in Seq({Success} \cup [type : {"LogsEvent"}, ids : Seq(Nat)])
  /\ open \in BOOLEAN
  /\ state \in HistoryState
  /\ announced \in 0 .. Len(logs)
  /\ crossed \in BOOLEAN
  /\ failed \in BOOLEAN

NewState == [logEntries |-> <<>>, loading |-> FALSE, moreLogsAvailable |-> FALSE]

Init ==
  /\ logs = <<>> /\ toGo = <<>> /\ toApp = <<>>
  /\ open = FALSE /\ state = NewState
  /\ announced = 0 /\ crossed = FALSE /\ failed = FALSE

IsLogs(e) == e.type = "LogsEvent"

LoadsUnderWay == Len(toGo) + Cardinality({i \in DOMAIN toApp : IsLogs(toApp[i])})
LoadUnderWay == toGo # <<>> \/ \E i \in DOMAIN toApp : IsLogs(toApp[i])

\* The n entries up to this one, newest first.
Down(newest, n) == [i \in 1 .. n |-> newest - i + 1]

\* Of these entries, those the list does not leave out.  SelectSeq would say the
\* same, but the proofs need the recursion in the open.
Visible(entries, ids) ==
  LET shown[n \in 0 .. Len(ids)] ==
        IF n = 0 THEN <<>>
        ELSE IF entries[ids[n]] THEN shown[n - 1] ELSE Append(shown[n - 1], ids[n])
  IN  shown[Len(ids)]

-----------------------------------------------------------------------------
(* irmaclient and irmagobridge. *)

\* An entry is written before its session reports success.  Keyshare sessions
\* and the removal of a credential report nothing.
AddLogEntry ==
  /\ Len(logs) < MaxLogs
  /\ \E hidden \in BOOLEAN : logs' = Append(logs, hidden)
  /\ \/ toApp' = Append(toApp, Success) /\ announced' = Len(logs')
     \/ UNCHANGED <<toApp, announced>>
  /\ UNCHANGED <<toGo, open, state, crossed, failed>>

\* Variants with a fault: the page starts with the entry it should end before,
\* and it is always full.
LoadLogsFrom(before) ==
  LET last == IF before = Newest THEN Len(logs) ELSE before
      size == IF last < PageSize THEN last ELSE PageSize
  IN  Down(last, size)

LoadLogsFull(before) ==
  LET last == IF before = Newest THEN Len(logs) ELSE before - 1
  IN  Down(last, PageSize)

\* LoadNewestLogs and LoadLogsBefore.
LoadLogs(before) ==
  LET last == IF before = Newest THEN Len(logs) ELSE before - 1
      size == IF last < PageSize THEN last ELSE PageSize
  IN  Down(last, size)

\* loadLogs: an error is no answer.
loadLogs ==
  /\ toGo # <<>>
  /\ toGo' = Tail(toGo)
  /\ \/ toApp' = Append(toApp, Logs(LoadLogs(Head(toGo)))) /\ UNCHANGED failed
     \/ failed' = TRUE /\ UNCHANGED toApp
  /\ UNCHANGED <<logs, open, state, announced, crossed>>

-----------------------------------------------------------------------------
(* The tab. *)

\* _loadInitialLogs, for a list in state st.
LoadInitialLogs(st) ==
  /\ toGo' = Append(toGo, Newest)
  /\ state' = [st EXCEPT !.loading = TRUE, !.logEntries = <<>>]
  /\ crossed' = LoadUnderWay
  /\ failed' = (failed /\ LoadUnderWay)

OpenTab ==
  /\ ~open /\ LoadsUnderWay < MaxLoads
  /\ open' = TRUE
  /\ LoadInitialLogs(NewState)
  /\ UNCHANGED <<logs, toApp, announced>>

CloseTab ==
  /\ open
  /\ open' = FALSE /\ state' = NewState
  /\ UNCHANGED <<logs, toGo, toApp, announced, crossed, failed>>

\* _loadMoreLogs.  Every build adds a listener to the scroll controller, and a
\* turn of the event loop may scroll more than once: requests made together all
\* see the state before the first of them.
LoadMoreLogs ==
  /\ open /\ state.moreLogsAvailable /\ ~state.loading
  /\ \E n \in 1 .. MaxAtOnce :
       /\ toGo' = toGo \o [i \in 1 .. n |-> Last(state.logEntries)]
       /\ crossed' = (crossed \/ LoadUnderWay \/ n > 1)
  /\ state' = [state EXCEPT !.loading = TRUE]
  /\ UNCHANGED <<logs, toApp, open, announced, failed>>

\* Variants with a fault: a page that is not full is the last one, and a page
\* does not end the load.
TakeUntilShort(ids) ==
  LET shown == Visible(logs, ids)
  IN  state' = [logEntries |-> state.logEntries \o shown, loading |-> FALSE,
                moreLogsAvailable |-> Len(shown) = PageSize]

TakeStillLoading(ids) ==
  LET shown == Visible(logs, ids)
  IN  state' = [logEntries |-> state.logEntries \o shown, loading |-> state.loading,
                moreLogsAvailable |-> shown # <<>>]

\* A page is appended, without the entries the list leaves out.
Take(ids) ==
  LET shown == Visible(logs, ids)
  IN  state' = [logEntries |-> state.logEntries \o shown, loading |-> FALSE,
                moreLogsAvailable |-> shown # <<>>]

Receive ==
  /\ toApp # <<>>
  /\ toApp' = Tail(toApp)
  /\ LET e == Head(toApp)
     IN  \/ ~open /\ UNCHANGED <<toGo, state, crossed, failed>>
         \/ /\ open /\ e.type = "LogsEvent"
            /\ Take(e.ids)
            /\ UNCHANGED <<toGo, crossed, failed>>
         \/ open /\ e.type = "SuccessSessionEvent" /\ LoadInitialLogs(state)
  /\ UNCHANGED <<logs, open, announced>>

-----------------------------------------------------------------------------
Next == AddLogEntry \/ loadLogs \/ OpenTab \/ CloseTab \/ LoadMoreLogs \/ Receive

Spec == Init /\ [][Next]_vars

\* The bridge and the event loop go on.
FairSpec == Spec /\ WF_vars(loadLogs) /\ WF_vars(Receive)

-----------------------------------------------------------------------------
\* The list is there: nothing is under way, and loads did not meet or fail.
Settled == open /\ toGo = <<>> /\ toApp = <<>> /\ ~crossed /\ ~failed

\* The entries up to one, as the list should show them.
Shown(newest) == Visible(logs, Down(newest, newest))

\* Page by page the list is the newest entries in order, none twice and none
\* left out, whatever was written meanwhile; and a success is among them.
ListIsNewest ==
  Settled =>
    \E newest \in announced .. Len(logs) : IsPrefix(state.logEntries, Shown(newest))

\* A page of entries the list leaves out looks like the end (the FIXME of the
\* history repository).
HiddenPage ==
  \E i \in 1 .. Len(logs) - PageSize + 1 : \A j \in i .. i + PageSize - 1 : logs[j]

\* When the list says that there is no more, all of it is shown.
EndIsTheEnd ==
  Settled /\ ~state.moreLogsAvailable /\ ~HiddenPage =>
    \E newest \in announced .. Len(logs) : state.logEntries = Shown(newest)

\* A list does not load for ever, unless a load failed.
LoadingEnds == []<>(~state.loading \/ failed)

=============================================================================
