-------------------------- MODULE MCDisclosureFlow --------------------------
(***************************************************************************)
(* Instances of DisclosureFlow for TLC.                                    *)
(***************************************************************************)
EXTENDS DisclosureFlow

Cred(type, value) == [type |-> type, value |-> value, hash |-> type \o value]

A1 == Cred("A", "1")
A2 == Cred("A", "2")
B1 == Cred("B", "1")
B2 == Cred("B", "2")
D1 == Cred("D", "1")

A == Template("A", AnyValue)
B == Template("B", AnyValue)
D == Template("D", AnyValue)

\* Walks through choices: one value, one of two types, both, one of them
\* optional; and two credentials for one option, required or optional.  A2 is
\* expired.
PairOption == <<Template("A", "1"), B>>
WalkRequests == {
  << << <<Template("A", "1")>> >> >>,
  << << <<A>>, <<B>> >> >>,
  << << <<A>> >>, << <<B>> >> >>,
  << << << >>, <<A>> >>, << <<B>> >> >>,
  << <<PairOption>> >>,
  << << << >>, PairOption >> >> }
WalkWallets == { << >>, <<A1>>, <<A2>>, <<B1>>, <<A1, B1>> }
WalkCredential == {A1, A2, B1}
WalkInvalid == {A2}
NoneInvalid == {}

\* Two options that differ in their values only.
CrossedRequests == { << << <<Template("A", "1"), Template("B", "1")>>,
                           <<Template("A", "2"), Template("B", "2")>> >> >> }
CrossedWallets == {<<A2, B1>>}
CrossedCredential == {A1, A2, B1, B2}

\* Two options that share a type the wallet holds.
PartialRequests == { << << <<A, B>>, <<A, D>> >> >> }
PartialWallets == {<<A1>>}
PartialCredential == {A1, D1}

=============================================================================
