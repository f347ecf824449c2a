--------------------------- MODULE DisclosureFlow ---------------------------
(***************************************************************************)
(* The walk through one disclosure request: DisclosurePermissionBloc, the  *)
(* screens that send it events, and the environment that adds credentials  *)
(* to the wallet and refreshes the candidates while the user walks.        *)
(*                                                                         *)
(* A state of the bloc that refers to a parentState is a frame on top of   *)
(* that state: flow is the sequence of frames, the current state last.     *)
(***************************************************************************)
EXTENDS DisclosureCandidates

CONSTANTS
  Requests,     \* the requests (condiscons) a session may start with
  Wallets,      \* the wallets (sequences of credentials) it may start with
  MaxAdded      \* bound: credentials announced while the bloc lives

\* What the requests ask for.
Entry == UNION {Flattened(discon) : discon \in UNION {ToSet(req) : req \in Requests}}

\* A request and each of its discons ask for something, by templates, and an option
\* for one credential of a type, of at most one type that is no singleton.
ASSUME RequestAssumption ==
  /\ \A entry \in Entry : entry = Template(entry.type, entry.value)
  /\ \A req \in Requests :
       /\ req \in Seq(Seq(Seq(Entry))) /\ Len(req) > 0
       /\ \A discon \in ToSet(req) :
            /\ Len(discon) > 0
            /\ \A con \in ToSet(discon) :
                 /\ \A k, l \in DOMAIN con : con[k].type = con[l].type => k = l
                 /\ Cardinality({c \in ToSet(con) : c.type \notin Singleton}) <= 1

\* An optional argument that is left out is no choice.
ASSUME NoneAssumption == None \notin Seq(Credential \cup Entry)

\* A wallet holds each credential once, and one of a singleton type.
ASSUME WalletAssumption ==
  \A wallet \in Wallets :
    /\ wallet \in Seq(Credential) /\ IsInjective(wallet)
    /\ \A c, d \in ToSet(wallet) : c.type = d.type /\ c.type \in Singleton => c = d

VARIABLES
  request,      \* the request of this session
  status,       \* "request" while the permission is asked, then "left"
  env,          \* the wallet and the candidates the app knows, see Parsed
  announced,    \* credentials announced by a RequestIssuancePermission event
  flow,         \* the state of the bloc and its chain of parent states
  dialog,       \* the dialog that asks for confirmation is on the screen
  answer        \* the choices sent, or None

vars == <<request, status, env, announced, flow, dialog, answer>>

Top == Last(flow)

-----------------------------------------------------------------------------
(* The states of the bloc. *)

ChoicesOf(f) ==
  [i \in DOMAIN f.required \cup DOMAIN f.optional |->
     IF i \in DOMAIN f.required THEN f.required[i] ELSE f.optional[i]]

ChoicesValid(f) == \A i \in DOMAIN ChoicesOf(f) : AllValid(ChoicesOf(f)[i])

\* Choices split over required and optional discons; an optional discon
\* without a choice is in neither.
ChoicesFrame(kind, candidates, choices, changeable, more, planned) ==
  [kind |-> kind, planned |-> planned, popup |-> FALSE,
   required |-> Restrict(choices, {i \in DOMAIN choices : ~IsOptional(candidates[i])}),
   optional |-> Restrict(choices, {i \in DOMAIN choices :
                  IsOptional(candidates[i]) /\ choices[i] # << >>}),
   changeable |-> changeable, more |-> more]

Changeable(candidates) == {i \in DOMAIN candidates : Len(candidates[i]) > 1}

Overview(candidates, choices, planned) ==
  ChoicesFrame("overview", candidates, choices, Changeable(candidates),
               \E i \in DOMAIN choices : choices[i] = << >>, planned)

IsCompleted(f) == \A i \in DOMAIN f.obtained : f.obtained[i]

\* The first discon of a wizard that is not completed, and what is selected.
CurrentDisCon(f) == f.order[SelectInSeq(f.order, LAMBDA i : ~f.obtained[i])]

CurrentCon(f) == f.options[CurrentDisCon(f)][f.selected[CurrentDisCon(f)]]

SelectedCon(f) == f.discon[f.selected]

AllObtained(f) == \A k \in DOMAIN f.obtained : f.obtained[k]

CurrentIssueWizardItem(f) ==
  f.templates[SelectInSeq(f.obtained, LAMBDA done : ~done)]

-----------------------------------------------------------------------------
(* A change of the session state.  The outcome is the flow and, since a    *)
(* mismatch is forgotten once it is reported, the environment.             *)

Outcome(e, fl) == [env |-> e, flow |-> fl]

\* The first state: an overview if every discon has an option to choose, or
\* else an issue wizard for the others, the unobtainable discons first.
Start(e) ==
  LET candidates == Parsed(e)
      Preferred(i) ==
        candidates[i][FindSelectedConIndex(e, candidates[i], None, None, FALSE)]
      choices == [i \in DOMAIN candidates |-> Preferred(i)]
      missing == {i \in DOMAIN candidates : ~AllChoosable(choices[i])}
      options == [i \in missing |-> IssueWizardDisCon(candidates[i])]
      unobtainable == {i \in missing : \A con \in ToSet(options[i]) : ~CanBeObtained(con)}
      ids == [i \in DOMAIN candidates |-> i]
      selected == [i \in missing |-> FindSelectedConIndex(e, options[i], None, None, FALSE)]
  IN  IF missing = {}
      THEN Overview(candidates, choices, {"choicesOverview"})
      ELSE [kind |-> "issueWizard", options |-> options,
            order |-> Without(ids, DOMAIN candidates \ unobtainable)
                        \o Without(ids, DOMAIN candidates \ (missing \ unobtainable)),
            selected |-> selected, obtained |-> [i \in missing |-> FALSE],
            planned |-> CalculatePlannedSteps(e, options, selected)]

\* The added credentials of the type of a template, and the templates with one
\* while none of those added matches.
Added(e) == Without(e.newly, Credential \ ToSet(e.wallet))

Attempts(e, template) ==
  Only(Added(e), {c \in ToSet(Added(e)) : c.type = template.type})

Mismatched(e, templates) ==
  Only(templates, {t \in ToSet(templates) :
    Attempts(e, t) # << >> /\ \A c \in ToSet(Added(e)) : ~MatchesCredential(t, c)})

WrongCredentials(templates, got) == [kind |-> "wrong", templates |-> templates, got |-> got]

\* Variant with a fault: what was reported stays on the list.
ValidateCredentialsObtainedKeeping(templates, e, fl) ==
  LET mismatched == Mismatched(e, templates)
      wrong == [k \in DOMAIN mismatched |-> Attempts(e, mismatched[k])[1]]
  IN  IF mismatched = << >>
      THEN Outcome(e, fl)
      ELSE Outcome(e, Append(fl, WrongCredentials(mismatched, wrong)))

\* Reports the credentials added for a template they do not match, unless one
\* that does was added as well.  templates have different types.
ValidateCredentialsObtained(templates, e, fl) ==
  LET mismatched == Mismatched(e, templates)
      wrong == [k \in DOMAIN mismatched |-> Attempts(e, mismatched[k])[1]]
  IN  IF mismatched = << >>
      THEN Outcome(e, fl)
      ELSE Outcome([e EXCEPT !.newly = Without(@, ToSet(wrong))],
                   Append(fl, WrongCredentials(mismatched, wrong)))

\* Variant with a fault: one credential of an option will do.
WizardObtainedByOne(e, f) ==
  [i \in DOMAIN f.options |->
     f.obtained[i] \/ \E con \in ToSet(Parsed(e)[i]) : \E c \in ToSet(con) : IsChoosable(c)]

WizardObtained(e, f) ==
  [i \in DOMAIN f.options |->
     f.obtained[i] \/ \E con \in ToSet(RefreshDisCon(e, i, f.options[i])) : AllChoosable(con)]

\* The options of a wizard stay those it started with.  They are templates
\* only, so nothing that was added is among them to be selected.
RefreshIssueWizard(e, fl) ==
  LET f == Last(fl)
      obtained == WizardObtained(e, f)
      selected == [i \in DOMAIN f.options |->
        IF obtained[i] THEN f.selected[i]
        ELSE FindSelectedConIndex(e, f.options[i], None, f.options[i][f.selected[i]], FALSE)]
      refreshed == [f EXCEPT !.obtained = obtained, !.selected = selected,
                             !.planned = CalculatePlannedSteps(e, f.options, selected)]
      next == Append(Front(fl), refreshed)
  IN  IF IsCompleted(refreshed) THEN Outcome(e, next)
      ELSE ValidateCredentialsObtained(CurrentCon(refreshed), e, next)

RefreshChangeChoice(e, fl) ==
  LET f == Last(fl)
      discon == RefreshDisCon(e, f.index, f.discon)
      selected == FindSelectedConIndex(e, discon, f.discon, SelectedCon(f), FALSE)
  IN  ValidateCredentialsObtained(Templates(discon[selected]), e,
        Append(Front(fl), [f EXCEPT !.discon = discon, !.selected = selected]))

\* The options of the optional discons without a choice, each with its discon.
Addable(e, parent) ==
  LET Offered(i) == IF IsOptional(e.candidates[i]) /\ i \notin DOMAIN parent.optional
                 THEN Without(Parsed(e)[i], {<< >>})
                 ELSE << >>
  IN  FlattenSeq([i \in DOMAIN e.candidates |->
                    [k \in DOMAIN Offered(i) |-> [con |-> Offered(i)[k], index |-> i]]])

AddOptionalData(e, parent, prevDiscon, prevChoice) ==
  LET addable == Addable(e, parent)
      discon == [k \in DOMAIN addable |-> addable[k].con]
  IN  [kind |-> "addOptionalData", discon |-> discon,
       indices |-> [k \in DOMAIN addable |-> addable[k].index],
       selected |-> FindSelectedConIndex(e, discon, prevDiscon, prevChoice, FALSE)]

\* Variant with a fault: a valid choice gives way to what was added.
RefreshedChoiceUnkept(e, i, prevChoice) ==
  LET discon == Parsed(e)[i]
      choice == discon[FindSelectedConIndex(e, discon, <<prevChoice>>, prevChoice, FALSE)]
  IN  IF AllChoosable(choice) THEN choice ELSE prevChoice

\* A choice is kept while it is valid, and otherwise replaced if possible.
RefreshedChoice(e, i, prevChoice) ==
  LET discon == Parsed(e)[i]
      choice == discon[FindSelectedConIndex(e, discon, <<prevChoice>>, prevChoice, TRUE)]
  IN  IF AllChoosable(choice) THEN choice ELSE prevChoice

RefreshOverview(e, f) ==
  LET Refreshed(choices) == [i \in DOMAIN choices |-> RefreshedChoice(e, i, choices[i])]
  IN  [f EXCEPT !.required = Refreshed(@), !.optional = Refreshed(@), !.popup = FALSE,
                !.changeable = Changeable(Parsed(e)) \cap DOMAIN ChoicesOf(f)]

\* The state below those that only pass the change on to their parent.
RefreshBase(e, fl) ==
  LET f == Last(fl)
  IN  CASE f.kind = "issueWizard"  -> RefreshIssueWizard(e, fl)
        [] f.kind = "changeChoice" -> RefreshChangeChoice(e, fl)
        [] f.kind = "addOptionalData" ->
             Outcome(e, Append(Front(fl),
               AddOptionalData(e, Last(Front(fl)), f.discon, SelectedCon(f))))
        [] f.kind \in {"previouslyAdded", "overview"} ->
             Outcome(e, Append(Front(fl), RefreshOverview(e, f)))
        [] OTHER -> Outcome(e, <<Start(e)>>)

\* Variant with a fault: only the newest credential counts.
RefreshObtainedCredentialsNewest(e, parent, f) ==
  LET Done(t) == e.newly # << >> /\ Last(e.newly) \in ToSet(e.wallet)
                   /\ MatchesCredential(t, Last(e.newly))
  IN  Outcome(parent.env, Append(parent.flow,
        [f EXCEPT !.obtained = [k \in DOMAIN f.templates |-> Done(f.templates[k])]]))

\* f on top of its refreshed parent, with what was obtained before the parent
\* was refreshed.
RefreshObtainedCredentials(e, parent, f) ==
  LET Done(t) == \E c \in ToSet(e.newly) \cap ToSet(e.wallet) : MatchesCredential(t, c)
      g == [f EXCEPT !.obtained = [k \in DOMAIN f.templates |-> Done(f.templates[k])]]
      next == Append(parent.flow, g)
  IN  IF AllObtained(g) THEN Outcome(parent.env, next)
      ELSE ValidateCredentialsObtained(<<CurrentIssueWizardItem(g)>>, parent.env, next)

\* A change reaches a page of information as its parent state, and passes through
\* a frame the bloc leaves alone or rebuilds on its refreshed parent.
Affected(fl) ==
  IF Last(fl).kind = "credentialInformation" THEN Front(fl) ELSE fl

PassesOn(f) == f.kind \in {"wrong", "obtainCredentials"}

Lifted(e, parent, f) ==
  IF f.kind = "wrong" THEN Outcome(parent.env, Append(parent.flow, f))
  ELSE RefreshObtainedCredentials(e, parent, f)

MapSessionStateToBlocState(e, fl) ==
  LET stack == Affected(fl)
      mapped[n \in DOMAIN stack] ==
        IF PassesOn(stack[n]) THEN Lifted(e, mapped[n - 1], stack[n])
        ELSE RefreshBase(e, SubSeq(stack, 1, n))
  IN  mapped[Len(stack)]

\* The frame that is rebuilt from the session.
Base(fl) == SelectLastInSeq(fl, LAMBDA f : ~PassesOn(f))

\* The map throws: a wizard with a discon without options, nothing to add, or
\* a selection out of range.  The error goes to the zone, the state stays.
MapThrows(e, fl) ==
  LET stack == Affected(fl)
      base == Base(stack)
      f == stack[base]
  IN  \/ /\ f.kind = "issueWizard"
         /\ \E i \in DOMAIN f.options : ~WizardObtained(e, f)[i] /\ f.options[i] = << >>
      \/ f.kind = "addOptionalData" /\ Addable(e, stack[base - 1]) = << >>
      \/ f.kind \in {"changeChoice", "addOptionalData"} /\ f.selected \notin DOMAIN f.discon

\* The session has another state, and the app knows e.  The
\* bloc listens once it has left its first two states.
SessionState(e) ==
  LET outcome == MapSessionStateToBlocState(e, flow)
  IN  IF Top.kind \in {"initial", "introduction"} \/ MapThrows(e, flow)
      THEN env' = e /\ UNCHANGED flow
      ELSE env' = outcome.env /\ flow' = outcome.flow

Listen == flow' = <<Start(env)>>

-----------------------------------------------------------------------------
(* The environment. *)

Init ==
  /\ request \in Requests
  /\ \E wallet \in Wallets :
       env = [wallet |-> wallet, candidates |-> Candidates(wallet, request), newly |-> << >>]
  /\ status = "request" /\ announced = {} /\ answer = None /\ dialog = FALSE
  /\ flow = <<[kind |-> "initial"]>>

\* The preference for the introduction has been read.
ReadPreference ==
  /\ Top.kind = "initial"
  /\ Listen \/ flow' = <<[kind |-> "introduction"]>>
  /\ UNCHANGED <<request, status, env, announced, dialog, answer>>

\* Another session, on top of this one, asks to issue a credential.  The state of
\* this one is the same.
Announce ==
  /\ status = "request" /\ Len(env.newly) < MaxAdded
  /\ \E c \in Credential \ (ToSet(env.wallet) \cup ToSet(env.newly) \cup announced) :
       /\ announced' = announced \cup {c}
       /\ env' = [env EXCEPT !.newly = Append(@, c)]
  /\ UNCHANGED <<request, status, flow, dialog, answer>>

\* The credential is in the wallet; the candidates are still the old ones.
ReceiveCredentials ==
  /\ status = "request"
  /\ \E c \in announced :
       /\ announced' = announced \ {c}
       /\ env' = [env EXCEPT !.wallet = WithCredential(@, c)]
  /\ UNCHANGED <<request, status, flow, dialog, answer>>

\* irmaclient repeats its request with the candidates of the wallet, which may
\* be those it had: another state of the session, though an equal one.  A dialog is on
\* a navigator of its own, and stays.
RefreshCandidates ==
  /\ status = "request"
  /\ SessionState([env EXCEPT !.candidates = Candidates(env.wallet, request)])
  /\ UNCHANGED <<request, status, announced, dialog, answer>>

Finished == <<[kind |-> "finished"]>>

\* The session goes on, or ends, without the user.
LeaveRequest ==
  /\ status = "request" /\ status' = "left"
  /\ flow' = IF Top.kind \in {"initial", "introduction"} THEN flow ELSE Finished
  /\ UNCHANGED <<request, env, announced, dialog, answer>>

-----------------------------------------------------------------------------
(* The user.  Each action is an event of the bloc, with the guard of the   *)
(* screen that sends it.                                                   *)

Shows(kinds) == status = "request" /\ Top.kind \in kinds

\* An event changes only the state of the bloc.
GoTo(fl) == flow' = fl /\ UNCHANGED <<request, status, env, announced, dialog, answer>>

Replace(f) == GoTo(Append(Front(flow), f))

\* The screen of choices, without a dialog on top.
ShowsChoices == Shows({"previouslyAdded", "overview"}) /\ ~dialog

ShowsMakeChoice ==
  Shows({"changeChoice", "addOptionalData"}) /\ Top.selected \in DOMAIN Top.discon

NextInIntroduction ==
  /\ Shows({"introduction"})
  /\ Listen
  /\ UNCHANGED <<request, status, env, announced, dialog, answer>>

\* Opens the page of the only credential to obtain, or a list of them.
ObtainCredentials(con) ==
  LET templates == Templates(con)
  IN  IF Len(templates) # 1
      THEN GoTo(Append(flow, [kind |-> "obtainCredentials", templates |-> templates,
                              obtained |-> [k \in DOMAIN templates |-> FALSE]]))
      ELSE /\ templates[1].type \in Obtainable
           /\ GoTo(Append(flow, [kind |-> "credentialInformation",
                                 type |-> templates[1].type]))

ChooseInWizard ==
  /\ Shows({"issueWizard"}) /\ ~IsCompleted(Top)
  /\ LET i == CurrentDisCon(Top)
     IN  \E k \in DOMAIN Top.options[i] :
           LET selected == [Top.selected EXCEPT ![i] = k]
           IN  /\ CanBeObtained(Top.options[i][k])
               /\ Replace([Top EXCEPT !.selected = selected,
                     !.planned = CalculatePlannedSteps(env, Top.options, selected)])

NextInWizard ==
  /\ Shows({"issueWizard"}) /\ ~IsCompleted(Top)
  /\ Top.options[CurrentDisCon(Top)] # << >>
  /\ CanBeObtained(CurrentCon(Top))
  /\ ObtainCredentials(CurrentCon(Top))

\* The choices the bloc makes itself; without a prior choice, the best fit.
BestChoices(candidates) ==
  [i \in DOMAIN candidates |->
     candidates[i][FindSelectedConIndex(env, candidates[i], None, None, FALSE)]]

\* What of an option was there before.
PrevAdded(con) == Only(con, {c \in ToSet(con) : PreviouslyAdded(env, c)})

\* From a completed wizard: first the choices that were there before, if any.
\* A choice that still holds a template is a failed cast, and nothing happens.
CompleteWizard ==
  /\ Shows({"issueWizard"}) /\ IsCompleted(Top)
  /\ LET candidates == Parsed(env)
         choices == BestChoices(candidates)
         prevAdded == [i \in {j \in DOMAIN choices : PrevAdded(choices[j]) # << >>} |->
                         PrevAdded(choices[i])]
         more == \E i \in DOMAIN choices :
                   /\ choices[i] = << >>
                   /\ \E c \in Flattened(candidates[i]) : PreviouslyAdded(env, c)
     IN  /\ \A i \in DOMAIN choices : AllChoosable(choices[i])
         /\ Replace(IF DOMAIN prevAdded = {} /\ ~more
                    THEN Overview(candidates, choices, Top.planned)
                    ELSE ChoicesFrame("previouslyAdded", candidates, prevAdded,
                           Changeable(candidates), more, Top.planned))

NextInObtainCredentials ==
  Shows({"obtainCredentials"}) /\ AllObtained(Top) /\ GoTo(Front(flow))

\* From the choices that were there before to all of them.
NextInPreviouslyAdded ==
  /\ ShowsChoices /\ Top.kind = "previouslyAdded"
  /\ ChoicesValid(Top)
  /\ LET candidates == Parsed(env)
         Prev(i) == IF i \in DOMAIN ChoicesOf(Top) THEN ChoicesOf(Top)[i] ELSE None
         Index(i) == FindSelectedConIndex(env, candidates[i], None, Prev(i), FALSE)
     IN  Replace(Overview(candidates,
           [i \in DOMAIN candidates |-> Choosables(candidates[i][Index(i)])], Top.planned))

\* The options of one discon; among the choices that were there before, cut to
\* the credential types that were.
OptionsFor(f, i) ==
  LET discon == Parsed(env)[i]
      types == {c.type : c \in {d \in Flattened(discon) : PreviouslyAdded(env, d)}}
  IN  IF f.kind = "overview" THEN discon ELSE CutDisCon(discon, types)

ChangeChoice ==
  /\ ShowsChoices
  /\ \E i \in DOMAIN ChoicesOf(Top) \cap Top.changeable :
       GoTo(Append(flow,
         [kind |-> "changeChoice", index |-> i, discon |-> OptionsFor(Top, i),
          selected |-> FindSelectedConIndex(env, Parsed(env)[i], None, ChoicesOf(Top)[i],
                                            FALSE)]))

\* An option without credentials has nothing to tap.
ChooseOption ==
  /\ ShowsMakeChoice
  /\ \E k \in DOMAIN Top.discon :
       /\ Top.discon[k] # << >> /\ CanBeObtained(Top.discon[k])
       /\ Replace([Top EXCEPT !.selected = k])

\* f with option k of the discon as choice i, or without a choice i (k = 0).
RefreshChoices(f, discon, i, k) ==
  LET given == k > 0
      required == IF given /\ i \in DOMAIN f.required
                  THEN [f.required EXCEPT ![i] = discon[k]] ELSE f.required
      optional == IF ~given THEN Restrict(f.optional, DOMAIN f.optional \ {i})
                  ELSE IF i \in DOMAIN f.required THEN f.optional
                  ELSE [j \in DOMAIN f.optional \cup {i} |->
                          IF j = i THEN discon[k] ELSE f.optional[j]]
  IN  [f EXCEPT !.required = required, !.optional = optional, !.popup = FALSE,
         !.changeable = IF Len(discon) > 1 THEN @ \cup {i} ELSE @ \ {i},
         !.more = Cardinality(DOMAIN required \cup DOMAIN optional) < Len(env.candidates)]

\* Variants with a fault: the choice stays open below, and the option of an
\* optional discon is stored under its own index.
NextInMakeChoiceStaying ==
  /\ ShowsMakeChoice /\ AllChoosable(SelectedCon(Top)) /\ Top.kind = "changeChoice"
  /\ GoTo(Append(flow, RefreshChoices(flow[Len(flow) - 1], Top.discon, Top.index, Top.selected)))

NextInMakeChoiceByPosition ==
  /\ ShowsMakeChoice /\ AllChoosable(SelectedCon(Top)) /\ Top.kind = "addOptionalData"
  /\ GoTo(Append(SubSeq(flow, 1, Len(flow) - 2),
       RefreshChoices(flow[Len(flow) - 1], Top.discon, Top.selected, Top.selected)))

\* Back to the choices with the option selected, or on to obtain it.
NextInMakeChoice ==
  /\ ShowsMakeChoice
  /\ LET con == SelectedCon(Top)
         parent == flow[Len(flow) - 1]
         below == SubSeq(flow, 1, Len(flow) - 2)
     IN  IF ~AllChoosable(con) THEN ObtainCredentials(con)
         ELSE GoTo(Append(below,
                IF Top.kind = "changeChoice"
                THEN RefreshChoices(parent, Top.discon, Top.index, Top.selected)
                ELSE RefreshChoices(parent, <<con>>, Top.indices[Top.selected], 1)))

AddOptional ==
  /\ ShowsChoices /\ Top.more /\ Addable(env, Top) # << >>
  /\ GoTo(Append(flow, AddOptionalData(env, Top, None, None)))

RemoveOptional ==
  /\ ShowsChoices
  /\ \E i \in DOMAIN Top.optional :
       Replace(RefreshChoices(Top, <<Top.optional[i]>>, i, 0))

\* Back to the parent state: the back button, or the end of a dialog.
Previous ==
  /\ Shows({"changeChoice", "addOptionalData", "credentialInformation", "wrong"})
  /\ GoTo(Front(flow))

\* A press on an overview that has not asked for confirmation makes it ask.
AskConfirmation ==
  /\ ~Top.popup
  /\ flow' = Append(Front(flow), [Top EXCEPT !.popup = TRUE])
  /\ dialog' = TRUE
  /\ UNCHANGED <<request, status, env, announced, answer>>

\* A press on one that has sends the choices.
SendChoices ==
  /\ Top.popup
  /\ answer' = [i \in DOMAIN env.candidates |->
                  IF i \in DOMAIN ChoicesOf(Top) THEN ChoicesOf(Top)[i] ELSE << >>]
  /\ status' = "left" /\ flow' = Finished /\ dialog' = FALSE
  /\ UNCHANGED <<request, env, announced>>

NextInOverview ==
  ShowsChoices /\ Top.kind = "overview" /\ ChoicesValid(Top) /\ AskConfirmation

\* The button of the dialog is a press as well, on what is below by then: choices
\* that have become invalid, for which the bloc throws, or choices that were
\* refreshed, for which it asks again.
ConfirmInDialog ==
  /\ Shows({"overview"}) /\ dialog
  /\ IF ChoicesValid(Top) THEN AskConfirmation \/ SendChoices
     ELSE dialog' = FALSE /\ UNCHANGED <<request, status, env, announced, flow, answer>>

DismissDialog ==
  /\ Shows({"overview"}) /\ dialog /\ dialog' = FALSE
  /\ flow' = Append(Front(flow), [Top EXCEPT !.popup = FALSE])
  /\ UNCHANGED <<request, status, env, announced, answer>>

\* Closing the screen declines.
Dismiss ==
  /\ Shows({"introduction", "issueWizard", "obtainCredentials", "credentialInformation",
            "previouslyAdded", "overview"})
  /\ ~dialog
  /\ status' = "left" /\ flow' = Finished
  /\ UNCHANGED <<request, env, announced, dialog, answer>>

System == \/ ReadPreference \/ Announce \/ ReceiveCredentials
          \/ RefreshCandidates \/ LeaveRequest

User == \/ NextInIntroduction \/ ChooseInWizard \/ NextInWizard \/ CompleteWizard
        \/ NextInObtainCredentials \/ NextInPreviouslyAdded \/ NextInOverview
        \/ ChangeChoice \/ ChooseOption \/ NextInMakeChoice
        \/ AddOptional \/ RemoveOptional \/ Previous \/ DismissDialog
        \/ ConfirmInDialog \/ Dismiss

Next == System \/ User

Spec == Init /\ [][Next]_vars

-----------------------------------------------------------------------------
(* Properties. *)

\* The kinds of state a state of this kind may have as its parent: those its
\* parentState field is declared or cast to.  The others have none.
Parents(kind) ==
  LET walks == {"issueWizard", "changeChoice", "addOptionalData"}
  IN  CASE kind \in {"changeChoice", "addOptionalData"} -> {"previouslyAdded", "overview"}
        [] kind = "credentialInformation" -> walks
        [] kind = "obtainCredentials" -> walks \cup {"wrong"}
        [] kind = "wrong" -> walks \cup {"wrong", "obtainCredentials"}
        [] OTHER -> {}

Roots == {"initial", "introduction", "issueWizard", "previouslyAdded", "overview", "finished"}

\* What the app knows consists of credentials, each announced once and at most
\* one of a singleton type, and every parent of a state has a type the bloc
\* casts it to.
TypeOK ==
  /\ request \in Requests /\ status \in {"request", "left"}
  /\ announced \subseteq Credential
  /\ \A known \in {env.wallet, env.newly} : IsInjective(known) /\ ToSet(known) \subseteq Credential
  /\ \A c, d \in ToSet(env.wallet) : c.type = d.type /\ c.type \in Singleton => c = d
  /\ flow[1].kind \in Roots
  /\ \A n \in 2 .. Len(flow) : flow[n - 1].kind \in Parents(flow[n].kind)
  /\ answer # None => DOMAIN answer = DOMAIN request
  /\ dialog \in BOOLEAN

\* What the user confirms is, for every discon, one of the options irmaclient
\* offered last, held in full and valid: the empty one only where it offers it.
AnswerIsOffered ==
  answer # None =>
    \A i \in DOMAIN request :
      /\ ToSet(answer[i]) \in {ToSet(con) : con \in ToSet(env.candidates[i])}
      /\ AllValid(answer[i])

\* Whatever is added or offered while the dialog asks for confirmation, what is
\* below it can be confirmed: the bloc throws "Selected choices are not valid" for
\* choices that cannot.
DialogIsValid ==
  dialog /\ status = "request" => Top.kind = "overview" /\ ChoicesValid(Top)

\* A completed wizard leads on: every discon has a preferred option that can be
\* chosen, so the walk past the wizard is not blocked.
WizardLeadsOn ==
  Top.kind = "issueWizard" /\ IsCompleted(Top)
    => \A i \in DOMAIN request : AllChoosable(BestChoices(Parsed(env))[i])

\* However the wizard, its parent states and the candidates have changed, the
\* next event of the session can be mapped to a state: the map does not throw.
StreamSurvives == status = "request" => ~MapThrows(env, flow)

\* The step on display is one of the steps that were announced.
CurrentStepIsPlanned ==
  LET StepName == "issueWizard" :> "issueWizard" @@ "overview" :> "choicesOverview"
                  @@ "previouslyAdded" :> "previouslyAdded"
  IN  Top.kind \in DOMAIN StepName => StepName[Top.kind] \in Top.planned

\* A valid choice in the overview that is still held stays as it is, whatever
\* is added, offered or repeated meanwhile: only the user changes it.
ChoiceKept ==
  [][ Top.kind = "overview" /\ Top'.kind = "overview" =>
        \A i \in DOMAIN ChoicesOf(Top) \cap DOMAIN ChoicesOf(Top') :
          LET choice == ChoicesOf(Top)[i]
          IN  AllValid(choice) /\ ToSet(choice) \subseteq ToSet(env'.wallet)
                => ChoicesOf(Top')[i] = choice ]_vars

\* What was obtained for a template stays obtained while the wallet holds a
\* credential that matches it, also when another was added or reported since.
ObtainedStays ==
  [][ \A n \in DOMAIN flow \cap DOMAIN flow' :
        flow[n].kind = "obtainCredentials" /\ flow'[n].kind = "obtainCredentials" =>
          \A k \in DOMAIN flow[n].templates :
            /\ flow[n].obtained[k]
            /\ \E c \in ToSet(env'.wallet) : MatchesCredential(flow[n].templates[k], c)
            => flow'[n].obtained[k] ]_vars

\* A credential is reported as wrong once: a new report takes it off the list of
\* those that were added, however deep in the chain of parents it is made, and
\* what is taken off the list was reported.
ReportedIsForgotten ==
  [][ /\ \A n \in DOMAIN flow' :
           flow'[n].kind = "wrong" /\ (\A m \in DOMAIN flow : flow[m] # flow'[n])
             => ToSet(flow'[n].got) \cap ToSet(env'.newly) = {}
      /\ \A c \in ToSet(env.newly) \ ToSet(env'.newly) :
           \E n \in DOMAIN flow' : flow'[n].kind = "wrong" /\ c \in ToSet(flow'[n].got) ]_vars

=============================================================================
