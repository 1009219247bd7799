----------------------------- MODULE UserCommands -----------------------------
(***************************************************************************)
(* An administrator's command on one user: a preview that fixes what was     *)
(* reviewed, then its execution, which consumes the preview, plans, audits,  *)
(* writes the effect and stores a receipt, each in a transaction of its own. *)
(* The request may be sent again while it runs, and its handler may die      *)
(* between any two of these.                                                 *)
(***************************************************************************)
EXTENDS Erasure, Identity

CONSTANTS Commands,     \* what is asked: a set of [change, user]
          Callers       \* handlers that can run at the same time

ASSUME CommandsAssumption ==
    Commands \subseteq [change : {"suspend", "unsuspend", "delete", "remove", "revoke"}, user : Users]

VARIABLES previews,     \* the preview rows
          receipts,     \* the outcome stored for each command
          callers       \* what each handler is doing

commandVars == <<previews, receipts, callers>>

(* seat is the version of the room the preview is bound to, 0 for none.      *)
NoPreview == [state |-> "none", blocked |-> FALSE, account |-> 0, seat |-> 0]
AtRest == [pc |-> "idle", outcome |-> "none"]

(* Some of the handlers serve requests. *)
CommandsInit(asked, running) ==
    /\ previews = [c \in Commands |-> IF c \in asked THEN NoPreview ELSE [NoPreview EXCEPT !.state = "unasked"]]
    /\ receipts = [c \in Commands |-> "none"]
    /\ callers = [a \in Callers |-> [c \in Commands |-> IF a \in running THEN AtRest ELSE [AtRest EXCEPT !.pc = "down"]]]

Seat(c) == accounts[c.user].seat

(* Nothing of the user is looked at when the user has another version than   *)
(* the administrator saw, or is deleted.                                     *)
Reviewable(c, seen) == accounts[c.user].version = seen.account /\ accounts[c.user].status # "deleted"

Blocked(c, seen, exporting) ==
    \/ ~ Reviewable(c, seen)
    \/ c.change \in {"suspend", "unsuspend"} /\ accounts[c.user].status = "onboarding"
    \/ c.change = "remove" /\ (~ Seat(c).seated \/ Seat(c).version # seen.seat \/ Seat(c).playing)
    \/ c.change = "delete" /\ (exporting \/ (Seat(c).seated /\ Seat(c).playing))

BoundSeat(c, seen) ==
    IF /\ Reviewable(c, seen)
       /\ c.change = "delete" \/ (c.change = "remove" /\ Seat(c).version = seen.seat)
       /\ Seat(c).seated /\ ~ Seat(c).playing
      THEN Seat(c).version ELSE 0

(* The administrator may have seen an earlier version of the user or of the  *)
(* room; exporting says whether an export of the user's data is pending.     *)
PreviewUserCommand(c) ==
    /\ previews[c].state = "none"
    /\ \E seen \in [account : 1 .. accounts[c.user].version, seat : 1 .. Seat(c).version], exporting \in BOOLEAN :
         previews' = [previews EXCEPT ![c] = [state |-> "live", blocked |-> Blocked(c, seen, exporting),
                                              account |-> accounts[c.user].version, seat |-> BoundSeat(c, seen)]]
    /\ UNCHANGED <<accountVars, receipts, callers, erasureVars, identityVars>>

-----------------------------------------------------------------------------
(* ExecuteUserCommand.  A handler that returns is idle again, with or without *)
(* an error; only what it left in the database matters.                       *)

Goto(a, c, pc, outcome) == callers' = [callers EXCEPT ![a][c] = [pc |-> pc, outcome |-> outcome]]
Return(a, c) == callers' = [callers EXCEPT ![a][c] = AtRest]

(* A stored receipt is replayed; a preview that was used, and one of a       *)
(* removal that found no room to leave, is refused.                          *)
ExecuteUserCommand(a, c) ==
    /\ callers[a][c].pc = "idle"
    /\ receipts[c] = "none"
    /\ previews[c].state = "live"
    /\ c.change = "remove" => previews[c].seat # 0
    /\ Goto(a, c, "consume", "none")
    /\ UNCHANGED <<accountVars, previews, receipts, erasureVars, identityVars>>

ConsumeUserCommandPreview(a, c) ==
    /\ callers[a][c].pc = "consume"
    /\ IF previews[c].state = "live"
         THEN previews' = [previews EXCEPT ![c].state = "consumed"] /\ Goto(a, c, "plan", "none")
         ELSE Return(a, c) /\ UNCHANGED previews
    /\ UNCHANGED <<accountVars, receipts, erasureVars, identityVars>>

SameRoom(c) == Seat(c).seated /\ Seat(c).version = previews[c].seat /\ ~ Seat(c).playing

(* A delete that is rejected here ends in a conflict, like one whose room    *)
(* has changed: neither has a receipt.                                       *)
planUserCommandExecution(c, exporting) ==
    LET status == accounts[c.user].status
        Transition(from, to) == CASE status = to -> "no_change"
                                  [] status = from -> "executed"
                                  [] OTHER -> "rejected"
    IN  CASE c.change = "suspend" -> Transition("active", "suspended")
          [] c.change = "unsuspend" -> Transition("suspended", "active")
          [] c.change = "revoke" -> IF HasDevice THEN "executed" ELSE "no_change"
          [] c.change = "remove" -> IF SameRoom(c) THEN "executed" ELSE "conflict"
          [] c.change = "delete" -> IF /\ status \in {"active", "suspended"} /\ ~ exporting
                                       /\ previews[c].seat = 0 \/ SameRoom(c)
                                      THEN "executed" ELSE "conflict"

(* Mutant: a delete leaves the reviewed room as it is. *)
FirstWriteSeated(c) == "write"

FirstWrite(c) == IF c.change = "delete" /\ previews[c].seat # 0 THEN "unseat" ELSE "write"

(* The plan is audited before anything is written. *)
PlanUserCommand(a, c) ==
    /\ callers[a][c].pc = "plan"
    /\ \E exporting \in BOOLEAN :
         LET outcome == CASE accounts[c.user].version # previews[c].account -> "conflict"
                          [] previews[c].blocked -> "rejected"
                          [] OTHER -> planUserCommandExecution(c, exporting)
         IN  CASE outcome = "executed" -> Goto(a, c, FirstWrite(c), outcome)
               [] outcome = "conflict" -> Return(a, c)
               [] OTHER -> Goto(a, c, "save", outcome)
    /\ UNCHANGED <<accountVars, previews, receipts, erasureVars, identityVars>>

(* A delete first takes the user out of the reviewed room. *)
UnseatDeletedUser(a, c) ==
    /\ callers[a][c].pc = "unseat"
    /\ IF CanRemove(c.user, previews[c].seat)
         THEN accounts' = Changed(c.user, "remove") /\ Goto(a, c, "write", "executed")
         ELSE Return(a, c) /\ UNCHANGED accounts
    /\ UNCHANGED <<made, budget, previews, receipts, erasureVars, identityVars>>

Expected(c) == IF c.change = "remove" THEN previews[c].seat ELSE previews[c].account

(* The devices of the holder go with the account. *)
DevicesAfter(c) == IF c.user = Holder /\ c.change = "delete" THEN RevokedAll("account_deleted") ELSE devices

(* The revocation carries the time of the plan; the database refuses it, and *)
(* all of the transaction, when the device was seen since.                   *)
SeenSincePlanned(a, c) ==
    /\ callers[a][c].pc = "write"
    /\ c.change \in {"delete", "revoke"} /\ c.user = Holder /\ HasDevice
    /\ Return(a, c)
    /\ UNCHANGED <<accountVars, previews, receipts, erasureVars, identityVars>>

WriteUserCommand(a, c) ==
    /\ callers[a][c].pc = "write"
    /\ c.change # "revoke"
    /\ IF Applies(c.user, c.change, Expected(c))
         THEN /\ accounts' = Changed(c.user, c.change)
              /\ made' = made \cup {c}
              /\ IF c.change = "delete" THEN CreateErasureJob(c.user) ELSE UNCHANGED erasures
              /\ devices' = DevicesAfter(c)
              /\ Goto(a, c, "save", "executed")
         ELSE Return(a, c) /\ UNCHANGED <<accounts, made, erasures, devices>>
    /\ UNCHANGED <<budget, previews, receipts, profiles, codes, attempts, results, serving, known, answered>>

(* The revocation is one statement: it checks neither the account nor what   *)
(* was reviewed.                                                             *)
RevokeAllDevices(a, c) ==
    /\ callers[a][c].pc = "write"
    /\ c.change = "revoke"
    /\ IF HasDevice
         THEN devices' = RevokedAll("admin_requested") /\ made' = made \cup {c} /\ Goto(a, c, "save", "executed")
         ELSE Return(a, c) /\ UNCHANGED <<made, devices>>
    /\ UNCHANGED <<accounts, budget, previews, receipts, erasureVars, codes, attempts, results, serving, known, answered>>

saveUserCommandReceipt(a, c) ==
    /\ callers[a][c].pc = "save"
    /\ receipts' = [receipts EXCEPT ![c] = callers[a][c].outcome]
    /\ Return(a, c)
    /\ UNCHANGED <<accountVars, previews, erasureVars, identityVars>>

(* The handler dies or one of its calls fails. *)
CommandDies(a, c) ==
    /\ callers[a][c].pc \notin {"idle", "down"}
    /\ Fault
    /\ Return(a, c)
    /\ UNCHANGED <<accounts, made, previews, receipts, erasureVars, identityVars>>
=============================================================================
