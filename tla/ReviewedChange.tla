--------------------------- MODULE ReviewedChange ---------------------------
(***************************************************************************)
(* What the administration promises about a change that an administrator    *)
(* has reviewed, whether it is one user's command or one item of a batch:   *)
(* it is made at most once, only to the object in the version that was      *)
(* reviewed, and it is reported as made only after it was made.             *)
(*                                                                          *)
(* The promise is one-sided.  A change that was made may be reported as not *)
(* made, because the report is written in another transaction.              *)
(***************************************************************************)
EXTENDS Naturals

CONSTANTS Reviews,      \* the reviewed changes
          Objects,      \* the versioned objects they change
          Object        \* the object of each review, [Reviews -> Objects]

VARIABLES version,      \* [Objects -> Nat], the version of each object
          reviewed,     \* [Reviews -> Nat], the version reviewed, 0 before
          made,         \* the reviews whose change was made
          report        \* [Reviews -> {"open", "made", "not made"}]

vars == <<version, reviewed, made, report>>

Init == /\ version \in [Objects -> Nat \ {0}]
        /\ reviewed = [r \in Reviews |-> 0]
        /\ made = {}
        /\ report = [r \in Reviews |-> "open"]

(* Several reviews change together: each keeps its value or takes the one    *)
(* that New gives it.                                                        *)
Some(old, new, New(_)) == \A r \in Reviews : new[r] \in {old[r], New(r)}

(* The administrator reviews some of the objects as they are. *)
Review == /\ Some(reviewed, reviewed', LAMBDA r : IF reviewed[r] = 0 THEN version[Object[r]] ELSE reviewed[r])
          /\ UNCHANGED <<version, made, report>>

Make(r) == /\ r \notin made
           /\ reviewed[r] # 0
           /\ version[Object[r]] = reviewed[r]
           /\ version' = [version EXCEPT ![Object[r]] = @ + 1]
           /\ made' = made \cup {r}
           /\ UNCHANGED <<reviewed, report>>

(* Somebody else changes the object. *)
Change(o) == /\ version' = [version EXCEPT ![o] = @ + 1]
             /\ UNCHANGED <<reviewed, made, report>>

ReportMade(r) == /\ report[r] = "open"
                 /\ r \in made
                 /\ report' = [report EXCEPT ![r] = "made"]
                 /\ UNCHANGED <<version, reviewed, made>>

ReportNotMade == /\ Some(report, report', LAMBDA r : IF report[r] = "open" THEN "not made" ELSE report[r])
                 /\ UNCHANGED <<version, reviewed, made>>

(* A retry; a change that was reported as made is not retried. *)
Reopen == /\ Some(report, report', LAMBDA r : IF report[r] = "not made" THEN "open" ELSE report[r])
          /\ UNCHANGED <<version, reviewed, made>>

Next == \/ \E r \in Reviews : Make(r) \/ ReportMade(r)
        \/ \E o \in Objects : Change(o)
        \/ Review \/ ReportNotMade \/ Reopen

Spec == Init /\ [][Next]_vars
=============================================================================
