--------------------------- MODULE MCSessionFlow ----------------------------
(***************************************************************************)
(* Instances of the session modules for TLC.                               *)
(***************************************************************************)
EXTENDS SessionRefinement, TLC

CONSTANTS s1, s2

\* Issuance in disclosure: s1 discloses what only s2 can put in the wallet.
DiscloseAndIssue == s1 :> "disclosing" @@ s2 :> "issuing"
FirstNeedsSecond == s1 :> {s2} @@ s2 :> {}

\* A combined session, next to one that issues or discloses.
CombineAndIssue == s1 :> "combined" @@ s2 :> "issuing"
CombineAndDisclose == s1 :> "combined" @@ s2 :> "disclosing"
NoNeeds == s1 :> {} @@ s2 :> {}

NoURL == s1 :> "none" @@ s2 :> "none"
FirstInApp == s1 :> "inApp" @@ s2 :> "none"
WebAndPhone == s1 :> "web" @@ s2 :> "phone"

\* A single session.
OneDiscloses == s1 :> "disclosing"
OneNeedsNothing == s1 :> {}
OneWithoutURL == s1 :> "none"

=============================================================================
