------------------------ MODULE DisclosureCandidates ------------------------
(***************************************************************************)
(* Credentials, the candidates irmaclient offers for a disclosure request, *)
(* and how the disclosure permission bloc reads and chooses among them.    *)
(*                                                                         *)
(* A request is a conjunction of disjunctions of conjunctions ("condiscon",*)
(* a sequence of discons, each a sequence of cons).  A con holds at most   *)
(* one entry per credential type; an empty con makes its discon optional.  *)
(* What an entry asks of its attributes is one value, or AnyValue.              *)
(***************************************************************************)
EXTENDS Naturals, FiniteSets, SequencesExt

CONSTANTS
  Credential,   \* credentials that may be held: records of type, value, hash
  Singleton,    \* credential types of which the wallet holds at most one
  Obtainable,   \* credential types with an issue URL
  Invalid,      \* credentials that are expired or revoked
  AnyValue,     \* no constraint on the value
  None          \* the hash of a template, and an optional argument left out

\* Hashes identify credentials.
ASSUME HashAssumption ==
  \A c, d \in Credential : c.hash # None /\ (c.hash = d.hash => c = d)

\* The sequence without the elements of S, and only with them.  SelectSeq would say
\* the same, but the proofs need the recursion in the open.
Without(s, S) ==
  LET kept[n \in 0 .. Len(s)] ==
        IF n = 0 THEN << >>
        ELSE IF s[n] \in S THEN kept[n - 1] ELSE Append(kept[n - 1], s[n])
  IN  kept[Len(s)]

Only(s, S) == Without(s, ToSet(s) \ S)

\* A DisclosureCredential: choosable when a credential backs it, otherwise a
\* template that names the value it needs.
Template(type, value) == [type |-> type, value |-> value, hash |-> None]

IsChoosable(c) == c.hash # None

AllChoosable(con) == \A c \in ToSet(con) : IsChoosable(c)

AllValid(con) == \A c \in ToSet(con) : IsChoosable(c) /\ c \notin Invalid

CanBeObtained(con) ==
  \A c \in ToSet(con) : IsChoosable(c) \/ c.type \in Obtainable

Choosables(con) == Only(con, {c \in ToSet(con) : IsChoosable(c)})

Templates(con) == Without(con, {c \in ToSet(con) : IsChoosable(c)})

MatchesCredential(template, c) ==
  template.type = c.type /\ template.value \in {AnyValue, c.value}

Flattened(discon) == UNION {ToSet(con) : con \in ToSet(discon)}

IsOptional(discon) == << >> \in ToSet(discon)

-----------------------------------------------------------------------------
(* The candidates of a request, given the wallet (a sequence). *)

\* The credentials that match one entry, or the entry itself as placeholder.
Matching(wallet, entry) ==
  LET found == Only(wallet, {c \in ToSet(wallet) : MatchesCredential(entry, c)})
  IN  IF found = << >> THEN <<entry>> ELSE found

\* Each of the cons with each of the credentials found.
Extended(cons, found) ==
  FlattenSeq([i \in DOMAIN cons |-> [j \in DOMAIN found |-> Append(cons[i], found[j])]])

\* All combinations of what matches the entries of a con; one more with a
\* placeholder lets the user add another instance of a type that is no
\* singleton.
ConCandidates(wallet, con) ==
  LET combined[n \in 0 .. Len(con)] ==
        IF n = 0 THEN << << >> >> ELSE Extended(combined[n - 1], Matching(wallet, con[n]))
      product == combined[Len(con)]
      another == [j \in DOMAIN con |->
                    IF con[j].type \in Singleton THEN product[1][j] ELSE con[j]]
  IN  IF \E j \in DOMAIN con : /\ con[j].type \notin Singleton
                               /\ IsChoosable(product[1][j])
      THEN Append(product, another)
      ELSE product

\* The options of a discon, those that start with a credential first.
DisConCandidates(wallet, discon) ==
  LET options == FlattenSeq([k \in DOMAIN discon |-> ConCandidates(wallet, discon[k])])
      startChoosable == {con \in ToSet(options) : con = << >> \/ IsChoosable(con[1])}
  IN  Only(options, startChoosable) \o Without(options, startChoosable)

Candidates(wallet, request) ==
  [i \in DOMAIN request |-> DisConCandidates(wallet, request[i])]

\* The wallet after a credential was issued; a singleton replaces its like.
WithCredential(wallet, c) ==
  Append(Without(wallet, {d \in ToSet(wallet) : c.type \in Singleton /\ d.type = c.type}), c)

-----------------------------------------------------------------------------
(* How the bloc reads them.  An environment env holds the wallet the app   *)
(* knows (env.wallet), the candidates of the session (env.candidates) and  *)
(* the credentials added while the bloc lives, in order (env.newly).       *)

\* A candidate whose credential the app does not have becomes a template.
ParseCandidatesDisCon(env, discon) ==
  [k \in DOMAIN discon |-> [j \in DOMAIN discon[k] |->
     LET c == discon[k][j]
     IN  IF c \in ToSet(env.wallet) THEN c ELSE Template(c.type, c.value)]]

Parsed(env) == [i \in DOMAIN env.candidates |-> ParseCandidatesDisCon(env, env.candidates[i])]

PreviouslyAdded(env, c) == IsChoosable(c) /\ c \notin ToSet(env.newly)

\* The option that fits best when nothing was chosen before: a valid one, one
\* that can be chosen, one that can be obtained, or the first.
BestFit(discon) ==
  LET fits == << SelectInSeq(discon, AllValid), SelectInSeq(discon, AllChoosable),
                 SelectInSeq(discon, CanBeObtained), 1 >>
  IN  fits[SelectInSeq(fits, LAMBDA k : k > 0)]

\* Variant with a fault: a valid previous choice is not preferred.
FindSelectedConIndexUnkept(env, discon, prevDiscon, prevChoice, keepValidPrevChoice) ==
  LET added == SelectInSeq(discon, LAMBDA con : \E c \in ToSet(con) : c \in ToSet(env.newly))
  IN  IF prevDiscon # None /\ added > 0 THEN added ELSE BestFit(discon)

\* The option to select, given the options and the choice there were before
\* (None: there were none).
FindSelectedConIndex(env, discon, prevDiscon, prevChoice, keepValidPrevChoice) ==
  LET kept  == IF prevChoice = None THEN 0
               ELSE SelectInSeq(discon, LAMBDA con : ToSet(prevChoice) \subseteq ToSet(con))
      added == IF prevDiscon = None THEN 0
               ELSE SelectInSeq(discon, LAMBDA con :
                      \E c \in ToSet(con) : /\ c \in ToSet(env.newly)
                                            /\ c \notin Flattened(prevDiscon))
  IN  IF keepValidPrevChoice /\ kept > 0 /\ AllValid(prevChoice) THEN kept
      ELSE IF added > 0 THEN added
      ELSE IF kept > 0 THEN kept
      ELSE BestFit(discon)

TypesOf(discon) == {c.type : c \in Flattened(discon)}

\* A con cut to credential types, and a discon, with what options that leaves it.
\* What is cut to the same options is not made one: the code compares lists by
\* identity.
OfTypes(con, types) == Only(con, {c \in ToSet(con) : c.type \in types})

CutDisCon(discon, types) ==
  LET kept == Only(discon, {con \in ToSet(discon) :
                              con = << >> \/ \E c \in ToSet(con) : c.type \in types})
  IN  [k \in DOMAIN kept |-> OfTypes(kept[k], types)]

\* The options of the discon now, cut to the credential types there were.
RefreshDisCon(env, i, prevDiscon) ==
  CutDisCon(ParseCandidatesDisCon(env, env.candidates[i]), TypesOf(prevDiscon))

\* Variant with a fault: a type is taken to be there already when an option names it.
IssueWizardDisConOfNoType(discon) ==
  LET options == [k \in DOMAIN discon |-> Templates(discon[k])]
  IN  Only(options, {con \in ToSet(options) :
                       \A c \in ToSet(con) : c.type \notin TypesOf(discon)})

\* What of a discon the user still has to obtain: the templates of its
\* options, without the options that need a type the user can choose already
\* elsewhere in the discon.
IssueWizardDisCon(discon) ==
  LET choosableTypes == {c.type : c \in {d \in Flattened(discon) : IsChoosable(d)}}
      options == [k \in DOMAIN discon |-> Templates(discon[k])]
  IN  Only(options, {con \in ToSet(options) :
                       \A c \in ToSet(con) : c.type \notin choosableTypes})

\* Variant with a fault: the discons that need no wizard are forgotten.
CalculatePlannedStepsOfWizard(env, options, selected) ==
  {"issueWizard", "choicesOverview"}
    \cup IF \E i \in DOMAIN options :
              \E c \in ToSet(env.candidates[i][selected[i]]) : PreviouslyAdded(env, c)
         THEN {"previouslyAdded"} ELSE {}

\* The steps announced to the user when an issue wizard is shown.
CalculatePlannedSteps(env, options, selected) ==
  LET hasPrevAddedCreds ==
        \/ DOMAIN options # DOMAIN env.candidates
        \/ \E i \in DOMAIN options :
             \E c \in ToSet(env.candidates[i][selected[i]]) : PreviouslyAdded(env, c)
  IN  {"issueWizard", "choicesOverview"}
        \cup (IF hasPrevAddedCreds THEN {"previouslyAdded"} ELSE {})

=============================================================================
