---------------------------- MODULE AdminAccounts ----------------------------
(***************************************************************************)
(* The user rows that the administration's batch jobs, single commands and  *)
(* erasure jobs all write, each from processes of its own.  Every write is   *)
(* a compare-and-swap on the version the administrator reviewed.            *)
(***************************************************************************)
EXTENDS Naturals, FiniteSets

CONSTANT Users          \* numbers, in the order the rows were created

ASSUME UsersAssumption == Users \subseteq Nat /\ IsFiniteSet(Users)

VARIABLES accounts,     \* the users rows, with the seat of the user's current room
          made,         \* the reviewed changes that were made (history)
          budget        \* how many faults (crashes, lost leases, failed calls), writes of
                        \* others and requests to cancel or retry may still happen (bound)

accountVars == <<accounts, made, budget>>

Statuses == {"onboarding", "active", "suspended", "deleted"}

(* seat is the user's place in the room the user is, or was last, a member of. *)
Account == [status : Statuses, version : Nat, seat : [version : Nat, seated : BOOLEAN, playing : BOOLEAN]]

(* No user is deleted yet; the first one sits in a room that waits. *)
AccountsInit(status, bound) ==
    /\ accounts = [u \in Users |->
           [status |-> status[u], version |-> 1,
            seat |-> [version |-> 1, seated |-> \A v \in Users : u <= v, playing |-> FALSE]]]
    /\ made = {}
    /\ budget = bound

Spend(kind) == budget[kind] > 0 /\ budget' = [budget EXCEPT ![kind] = @ - 1]
Fault == Spend("faults")

NextStatus(change) == CASE change = "suspend" -> "suspended"
                        [] change = "unsuspend" -> "active"
                        [] change = "delete" -> "deleted"

validGovernanceTransition(from, to) == <<from, to>> \in {<<"active", "suspended">>, <<"suspended", "active">>}

(* The reviewed version of what a change writes: the account's, or the room's. *)
ReviewedVersion(u, change) == IF change = "remove" THEN accounts[u].seat.version ELSE accounts[u].version

(* Mutant: the status is written whatever was reviewed. *)
CanTransitionUnversioned(u, expected, to) == validGovernanceTransition(accounts[u].status, to)

(* TransitionUserStatus, DeleteUser and RemoveUserFromRoom write only what   *)
(* still has the reviewed version.                                           *)
CanTransition(u, expected, to) ==
    /\ accounts[u].version = expected
    /\ validGovernanceTransition(accounts[u].status, to)

CanDelete(u, expected) ==
    /\ accounts[u].version = expected
    /\ accounts[u].status \in {"active", "suspended"}

CanRemove(u, expected) ==
    /\ accounts[u].seat.seated
    /\ accounts[u].seat.version = expected
    /\ ~ accounts[u].seat.playing

Applies(u, change, expected) == CASE change = "remove" -> CanRemove(u, expected)
                                  [] change = "delete" -> CanDelete(u, expected)
                                  [] OTHER -> CanTransition(u, expected, NextStatus(change))

Reseated(u, seated, playing) ==
    [accounts EXCEPT ![u].seat = [version |-> @.version + 1, seated |-> seated, playing |-> playing]]

Changed(u, change) ==
    IF change = "remove"
      THEN Reseated(u, FALSE, FALSE)
      ELSE [accounts EXCEPT ![u].status = NextStatus(change), ![u].version = @ + 1]

(* Tags and the profile raise the account's version; players move the room. *)
OtherAccountWrite(u) ==
    /\ Spend("others")
    /\ accounts' = [accounts EXCEPT ![u].version = @ + 1]
    /\ UNCHANGED made

OtherRoomWrite(u) ==
    /\ Spend("others")
    /\ \E seated, playing \in BOOLEAN :
         /\ playing => seated
         /\ accounts' = Reseated(u, seated, playing)
    /\ UNCHANGED made
=============================================================================
