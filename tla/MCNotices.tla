------------------------------ MODULE MCNotices ------------------------------
(***************************************************************************)
(* What tells the user something: the alert engine, the rules and          *)
(* watchlists it evaluates, and the activity feed.  They meet only through *)
(* calls each module already has as inputs (a new rule set, a fact handed  *)
(* over), so they are checked side by side: subject is the one whose steps *)
(* are taken, and the others rest.                                         *)
(***************************************************************************)
EXTENDS AlertEngine, AlertRules, ActivityFeed, TLC

VARIABLE subject

CONSTANTS p1, q1, q2
OnePlane    == {p1}
TwoRequests == {q1, q2}
TypeA       == [f \in Airframes |-> "A"]
Symmetric   == Permutations(TwoRequests)

NoticeVars == <<subject, aVars, uVars, dVars>>

NoticesInit ==
  /\ subject \in {"alerts", "rules", "feed"}
  /\ AlertInit /\ RulesInit /\ FeedInit
  /\ subject # "rules" => uConfig = {}

NoticesNext ==
  /\ UNCHANGED subject
  /\ \/ subject = "alerts" /\ AlertNext /\ UNCHANGED <<uVars, dVars>>
     \/ subject = "rules" /\ RulesNext /\ UNCHANGED <<aVars, dVars>>
     \/ subject = "feed" /\ FeedNext /\ UNCHANGED <<aVars, uVars>>

NoticesSpec == NoticesInit /\ [][NoticesNext]_NoticeVars

\* The fairness each service justifies, for the one that runs.
FairNoticesSpec ==
  /\ NoticesSpec
  /\ subject = "alerts" => AlertFairness
  /\ subject = "feed" => FeedFairness
=============================================================================
