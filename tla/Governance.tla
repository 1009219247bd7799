------------------------------ MODULE Governance ------------------------------
(***************************************************************************)
(* The administration's writes to users together: batch jobs and erasure     *)
(* jobs run by workers, single commands run by request handlers, and the     *)
(* users themselves and other services in between.                           *)
(***************************************************************************)
EXTENDS UserCommands

CONSTANT Workloads      \* what is asked for, of whom, and how much goes wrong

ASSUME WorkloadsAssumption ==
    \A load \in Workloads : load.status \in [Users -> {"onboarding", "active", "suspended"}]

vars == <<accountVars, batchVars, workers, erasureVars, identityVars, commandVars>>

Init == \E load \in Workloads :
    /\ AccountsInit(load.status, load.bound)
    /\ BatchInit(load.jobs, load.workers)
    /\ ErasureInit
    /\ IdentityInit(load.operations)
    /\ CommandsInit(load.commands, load.callers)

WorkerStep(w) ==
    \/ /\ \/ \E i \in Items : ClaimNextBatchItem(w, i)
          \/ BatchQueueEmpty(w) \/ ReadJob(w) \/ LoadTarget(w) \/ WriteTarget(w)
          \/ CompleteBatchItem(w) \/ CompletionRefused(w)
       /\ UNCHANGED <<erasureVars, identityVars, commandVars>>
    \/ /\ \/ \E u \in Users : ClaimErasureJob(w, u)
          \/ ErasureQueueEmpty(w) \/ EraseUserProfile(w) \/ AdvanceErasureJob(w) \/ CompleteErasureJob(w)
       /\ UNCHANGED <<identityVars, commandVars>>

Expiry == \/ (\E i \in Items : LeaseExpires(i)) /\ UNCHANGED <<erasureVars, identityVars, commandVars>>
          \/ (\E u \in Users : ErasureLeaseExpires(u)) /\ UNCHANGED <<identityVars, commandVars>>

AdministratorStep ==
    \/ /\ \/ \E j \in Jobs : \/ PreviewBatch(j) \/ StartBatchJob(j)
                             \/ CancelBatchUserOperation(j) \/ RetryBatchUserOperation(j)
          \/ \E call \in calls : JobRequestAccepted(call) \/ JobRequestRefused(call)
       /\ UNCHANGED <<erasureVars, identityVars, commandVars>>
    \/ /\ \E c \in Commands :
            \/ PreviewUserCommand(c)
            \/ \E a \in Callers :
                 \/ ExecuteUserCommand(a, c) \/ ConsumeUserCommandPreview(a, c) \/ PlanUserCommand(a, c)
                 \/ UnseatDeletedUser(a, c) \/ WriteUserCommand(a, c) \/ RevokeAllDevices(a, c) \/ SeenSincePlanned(a, c)
                 \/ saveUserCommandReceipt(a, c) \/ CommandDies(a, c)
       /\ UNCHANGED <<batchVars, workers>>

OtherStep == /\ \/ \E w \in Workers : Crash(w)
                \/ \E u \in Users : OtherAccountWrite(u) /\ UNCHANGED <<batchVars, workers>>
                \/ \E u \in Users : OtherRoomWrite(u) /\ UNCHANGED <<batchVars, workers>>
             /\ UNCHANGED <<erasureVars, identityVars, commandVars>>

PersonStep == IdentityStep /\ UNCHANGED <<batchVars, workers, erasureVars, commandVars>>

Next == \/ \E w \in Workers : WorkerStep(w)
        \/ Expiry
        \/ AdministratorStep
        \/ PersonStep
        \/ OtherStep

(* Each worker's loop keeps running, and a lease nobody renews runs out.     *)
Fairness == /\ \A w \in Workers : WF_vars(WorkerStep(w))
            /\ WF_vars(Expiry)

Spec == Init /\ [][Next]_vars /\ Fairness

-----------------------------------------------------------------------------
(* What it implements: every item of a batch and every command is a reviewed *)
(* change of an account or of a seat, except the revocation of the devices,  *)
(* which has no version.                                                     *)

Reviews == Items \cup {c \in Commands : c.change # "revoke"}
ChangedBy(r) == IF r \in Commands THEN r.change ELSE ChangeOf(r)

Report(r) ==
    LET outcome == IF r \in Commands THEN receipts[r] ELSE items[r].state
    IN  CASE outcome \in {"executed", "succeeded"} -> "made"
          [] outcome \in Retriable \cup {"rejected", "no_change"} -> "not made"
          [] OTHER -> "open"

Promise == INSTANCE ReviewedChange WITH
    Objects <- Users \X {"account", "seat"},
    Object <- [r \in Reviews |-> <<r.user, IF ChangedBy(r) = "remove" THEN "seat" ELSE "account">>],
    version <- [o \in Users \X {"account", "seat"} |->
                   IF o[2] = "seat" THEN accounts[o[1]].seat.version ELSE accounts[o[1]].version],
    made <- made \cap Reviews,
    reviewed <- [r \in Reviews |-> IF r \in Commands THEN Expected(r) ELSE items[r].reviewed],
    report <- [r \in Reviews |-> Report(r)]

(* A reviewed change is made at most once, in the reviewed version, and is    *)
(* reported as made only after it was, whatever the workers, the handlers    *)
(* and their retries do (batch.go executeBatchItem, governance.go            *)
(* ExecuteUserCommand).                                                      *)
ImplementsPromise == Promise!Spec

-----------------------------------------------------------------------------
Count(j, s) == Cardinality({i \in ItemsOf(j) : items[i].state = s})

(* A job's counters are the numbers of its items in each state, and the job  *)
(* is closed exactly when none is left, although items are claimed, reclaimed *)
(* after a crash, completed late, cancelled and retried at the same time     *)
(* (admin_jobs.sql Mark/Apply/Cancel/Retry).  It holds until a cancel or a    *)
(* retry that the job refuses has moved the job's items.                      *)
CountersMatch ==
    \A j \in Jobs \ refused :
        jobs[j].state \in OpenStates \cup ClosedStates =>
            /\ \A s \in ItemStates : jobs[j].count[s] = Count(j, s)
            /\ jobs[j].state \in ClosedStates <=> Count(j, "queued") + Count(j, "running") = 0

(* Once a batch is being cancelled, the only changes still made are those of *)
(* workers that had claimed their item before: an item taken over from a     *)
(* dead worker is closed without its change (batch.go ProcessNextBatchItem).  *)
StopHonoured ==
    [][\A i \in Items :
          (i \in made' \ made /\ jobs[i.job].state = "canceling") =>
              \E w \in Workers : workers[w].item = i /\ workers[w].pc = "write" /\ workers[w].claimed = "before"]_vars

(* A user who was deleted is out of the waiting room that the administrator  *)
(* reviewed, wherever the handler of the delete died (governance.go          *)
(* ExecuteUserCommand).  A seat taken after the review is another matter.    *)
ReviewedSeatLeft ==
    \A c \in Commands :
        (c.change = "delete" /\ c \in made /\ previews[c].seat # 0) =>
            ~ (Seat(c).seated /\ Seat(c).version = previews[c].seat)

(* The batches that were started are all worked off although workers die     *)
(* and leases run out, unless a refused request has moved items of some job:  *)
(* then the head of the queue may be an item no worker can claim              *)
(* (admin_jobs.sql).                                                         *)
JobsClose ==
    (\E j \in Jobs : jobs[j].state \in OpenStates) ~> (refused # {} \/ \A j \in Jobs : jobs[j].state \notin OpenStates)

ErasureOpen(u) == erasures[u].state \in {"queued", "running"}

(* Every erasure comes to an end, even while the batch queue is stuck behind *)
(* an item that cannot be claimed, and one that is reported as done has      *)
(* erased the profile, whichever workers took it over at whichever           *)
(* checkpoint (erasure.go, dispatcher.go RunOnce).                           *)
ErasureEnds ==
    (\E u \in Users : ErasureOpen(u)) ~>
        \A u \in Users : ~ ErasureOpen(u) /\ (erasures[u].state = "succeeded" => u \notin profiles)

-----------------------------------------------------------------------------
(* All answers to one operation carry the same secrets, although the request *)
(* may be running twice and may be sent again after it was answered: the     *)
(* second transaction finds the result of the first (recovery_service.go     *)
(* RotateRecoveryCode, CompleteRecovery, service.go CompleteOnboarding).     *)
AnswersAgree == \A x, y \in answered : x.op = y.op => x.secrets = y.secrets

(* A recovery code lets the person in once: of the attempts begun with it at *)
(* most one is completed, and none once the code was rotated away, however   *)
(* many were begun before (recovery_service.go CompleteRecovery).            *)
CodeOpensOnce ==
    \A a \in DOMAIN attempts :
        attempts[a].state = "consumed" =>
            /\ codes[attempts[a].code] = "consumed"
            /\ \A b \in DOMAIN attempts : attempts[b].code = attempts[a].code /\ attempts[b].state = "consumed" => b = a

(* A deleted user has no live device, even when the delete came between the  *)
(* two transactions of a recovery (recovery_service.go CompleteRecovery,     *)
(* admin_user_governance_repository.go DeleteUser).                          *)
DeletedSignedOut == Status = "deleted" => ~ HasDevice

(* What the person can still do to get in. *)
HoldsDevice == \E key \in known.devices : Authentic(key[1], key[2])
HoldsCode == \E c \in known.codes : codes[c] = "active"
HoldsReplay == \E op \in Operations, a \in known.grants : CanReplay(op, a)

Unanswered(op) == Exists(op) /\ \A x \in answered : x.op # op

(* An answer was lost, and the time to ask for it again has passed. *)
Lapsed == \E op \in Operations :
            /\ Unanswered(op)
            /\ \/ \E a \in DOMAIN attempts : op \in attempts[a].ops /\ ~ attempts[a].open
               \/ op.kind = "renew" /\ ~ devices[results[op].secrets.device].grace

SignedOut == \E d \in DOMAIN devices : devices[d].revoked \in {"user_requested", "admin_requested"}

(* Whatever answers are lost, a person with an active account still holds a  *)
(* device, a recovery code or the right to ask again, unless the five        *)
(* minutes of an attempt or the grace of a device have passed or somebody    *)
(* has revoked a device (recovery_service.go CompleteRecovery, service.go    *)
(* openBootstrapReplay).                                                     *)
NeverLockedOut ==
    Status = "active" => HoldsDevice \/ HoldsCode \/ HoldsReplay \/ Lapsed \/ SignedOut
=============================================================================
