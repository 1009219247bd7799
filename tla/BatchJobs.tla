------------------------------ MODULE BatchJobs ------------------------------
(***************************************************************************)
(* Batch operations on users.  An administrator reviews and starts a job;    *)
(* the workers lease its items one by one, change the user and close the     *)
(* item; the administrator may cancel the job and retry what was not done.   *)
(*                                                                          *)
(* Every SQL statement outside a transaction, and every transaction, is one  *)
(* step.  The UPDATEs in the WITH clauses of the cancel and retry statements *)
(* run to the end whether or not the job row passes the statement's version  *)
(* check, so a refused cancel or retry still moves the items.                *)
(***************************************************************************)
EXTENDS AdminAccounts, Integers, Sequences, FiniteSetsExt

CONSTANTS Batches,      \* the jobs in creation order: sequence of [change, users]
          Workers

(* The commands of batch.go: no batch deletes a user. *)
ASSUME BatchesAssumption ==
    Batches \in Seq([change : {"suspend", "unsuspend", "remove"}, users : SUBSET Users])

VARIABLES jobs,         \* the admin_batch_jobs rows
          items,        \* the admin_batch_job_items rows
          workers,      \* what each worker is doing
          calls,        \* cancel and retry requests on their way to the database
          refused       \* jobs whose items were moved by a refused request (history)

batchVars == <<jobs, items, calls, refused>>

Jobs == DOMAIN Batches
Items == {i \in [job : Jobs, user : Users] : i.user \in Batches[i.job].users}
ChangeOf(i) == Batches[i.job].change
Before(i, k) == i.job < k.job \/ (i.job = k.job /\ i.user < k.user)

ItemStates == {"queued", "running", "succeeded", "failed", "skipped", "canceled"}
Retriable == {"failed", "skipped", "canceled"}
OpenStates == {"queued", "running", "canceling"}
ClosedStates == {"succeeded", "partially_succeeded", "failed", "canceled"}
NoJob == [state |-> "none", version |-> 0, count |-> [s \in ItemStates |-> 0]]
NoItem == [state |-> "none", version |-> 0, leased |-> FALSE, reviewed |-> 0, account |-> 0]

(* A worker's loop takes from both queues in turn; pc says what it does next. *)
(* Item [job |-> 0, user |-> u] is user u's erasure job.  claimed says whether *)
(* the item was claimed before or after the job's last cancellation (history). *)
AtBatch == [pc |-> "batch", item |-> [job |-> 0, user |-> 0], version |-> 0, result |-> "none", claimed |-> "before"]
AtErasure == [AtBatch EXCEPT !.pc = "erasure"]

(* The administrator asks for some of the jobs, and some workers run.        *)
BatchInit(asked, running) ==
    /\ jobs = [j \in Jobs |-> IF j \in asked THEN NoJob ELSE [NoJob EXCEPT !.state = "unasked"]]
    /\ items = [i \in Items |-> NoItem]
    /\ workers = [w \in Workers |-> IF w \in running THEN AtBatch ELSE [AtBatch EXCEPT !.pc = "down"]]
    /\ calls = {}
    /\ refused = {}

-----------------------------------------------------------------------------
(* The administrator reviews the targets and starts the job. *)

ItemsOf(j) == {i \in Items : i.job = j}

previewBatchTarget(i) ==
    /\ accounts[i.user].status # "deleted"
    /\ ChangeOf(i) = "remove" => accounts[i.user].seat.seated /\ ~ accounts[i.user].seat.playing

PreviewBatch(j) ==
    /\ jobs[j].state = "none"
    /\ LET targets == {i \in ItemsOf(j) : previewBatchTarget(i)}
       IN  /\ targets # {}
           /\ items' = [i \in Items |->
                  IF i \in targets THEN [NoItem EXCEPT !.state = "previewed",
                                                       !.reviewed = ReviewedVersion(i.user, ChangeOf(i)),
                                                       !.account = accounts[i.user].version]
                                   ELSE items[i]]
    /\ jobs' = [jobs EXCEPT ![j].state = "previewed"]
    /\ UNCHANGED <<accountVars, workers, calls, refused>>

StartBatchJob(j) ==
    /\ jobs[j].state = "previewed"
    /\ LET targets == {i \in ItemsOf(j) : items[i].state = "previewed"}
       IN  /\ items' = [i \in Items |->
                  IF i \in targets THEN [items[i] EXCEPT !.state = "queued", !.version = 1] ELSE items[i]]
           /\ jobs' = [jobs EXCEPT ![j] = [state |-> "queued", version |-> 1,
                                           count |-> [@.count EXCEPT !["queued"] = Cardinality(targets)]]]
    /\ UNCHANGED <<accountVars, workers, calls, refused>>

-----------------------------------------------------------------------------
(* The worker: claim, look at the job, look at the user, write, complete. *)

(* Mutant: an item whose worker died is not taken over. *)
RunnableQueuedOnly(i) == jobs[i.job].state \in OpenStates /\ items[i].state = "queued"

Runnable(i) == /\ jobs[i.job].state \in OpenStates
               /\ \/ items[i].state = "queued"
                  \/ items[i].state = "running" /\ ~ items[i].leased

(* The statement picks the oldest runnable item, and no other. *)
IsNext(i) == Runnable(i) /\ \A k \in Items : Runnable(k) => ~ Before(k, i)

Moved(count, from, to, n) == [count EXCEPT ![from] = @ - n, ![to] = @ + n]

(* A claim that starts an item also counts it as running; when the job row   *)
(* refuses, the transaction is rolled back and the claim finds nothing.      *)
MarkClaimed(j) == jobs[j].state \in {"queued", "running"} /\ jobs[j].count["queued"] > 0

CanClaim(i) == IsNext(i) /\ (items[i].state = "queued" => MarkClaimed(i.job))

ClaimNextBatchItem(w, i) ==
    /\ workers[w].pc = "batch"
    /\ CanClaim(i)
    /\ items' = [items EXCEPT ![i].state = "running", ![i].leased = TRUE, ![i].version = @ + 1]
    /\ jobs' = IF items[i].state = "queued"
                 THEN [jobs EXCEPT ![i.job] = [state |-> "running", version |-> @.version + 1,
                                              count |-> Moved(@.count, "queued", "running", 1)]]
                 ELSE jobs
    /\ workers' = [workers EXCEPT ![w] = [pc |-> "claimed", item |-> i, version |-> items[i].version + 1,
                                          result |-> "none",
                                          claimed |-> IF jobs[i.job].state = "canceling" THEN "after" ELSE "before"]]
    /\ UNCHANGED <<accountVars, calls, refused>>

(* Mutant: the loop waits while there is an item that it cannot claim. *)
BatchQueueWaits(w) ==
    /\ workers[w].pc = "batch"
    /\ ~ \E i \in Items : Runnable(i)
    /\ workers' = [workers EXCEPT ![w] = AtErasure]
    /\ UNCHANGED <<accountVars, batchVars>>

(* Nothing to claim: the loop goes on to the erasure queue. *)
BatchQueueEmpty(w) ==
    /\ workers[w].pc = "batch"
    /\ ~ \E i \in Items : CanClaim(i)
    /\ workers' = [workers EXCEPT ![w] = AtErasure]
    /\ UNCHANGED <<accountVars, batchVars>>

(* Mutant: the worker does not look whether the job is being cancelled. *)
ReadJobUnchecked(w) ==
    /\ workers[w].pc = "claimed"
    /\ workers' = [workers EXCEPT ![w].pc = "load"]
    /\ UNCHANGED <<accountVars, batchVars>>

(* A job that is being cancelled only gets its books closed. *)
ReadJob(w) ==
    /\ workers[w].pc = "claimed"
    /\ workers' = [workers EXCEPT ![w] =
           IF jobs[@.item.job].state = "canceling" THEN [@ EXCEPT !.pc = "complete", !.result = "canceled"]
                                                  ELSE [@ EXCEPT !.pc = "load"]]
    /\ UNCHANGED <<accountVars, batchVars>>

Unchanged(i) == \/ ChangeOf(i) = "suspend" /\ accounts[i.user].status = "suspended"
                \/ ChangeOf(i) = "unsuspend" /\ accounts[i.user].status = "active"
                \/ ChangeOf(i) = "remove" /\ ~ CanRemove(i.user, items[i].reviewed)

(* executeBatchItem up to the audit record; reading the user or writing the  *)
(* record may fail.                                                          *)
LoadTarget(w) ==
    /\ workers[w].pc = "load"
    /\ LET i == workers[w].item
           skip == accounts[i.user].version # items[i].account \/ Unchanged(i)
       IN  \/ /\ workers' = [workers EXCEPT ![w].pc = IF skip THEN "complete" ELSE "write",
                                            ![w].result = IF skip THEN "skipped" ELSE "none"]
              /\ UNCHANGED budget
           \/ /\ Fault
              /\ workers' = [workers EXCEPT ![w].pc = "complete", ![w].result = "failed"]
    /\ UNCHANGED <<accounts, made, batchVars>>

(* The write itself.  Its answer may be lost, with or without the change.    *)
WriteTarget(w) ==
    /\ workers[w].pc = "write"
    /\ LET i == workers[w].item
           applies == Applies(i.user, ChangeOf(i), items[i].reviewed)
           Done(result) == workers' = [workers EXCEPT ![w].pc = "complete", ![w].result = result]
           Make == accounts' = Changed(i.user, ChangeOf(i)) /\ made' = made \cup {i}
       IN  \/ applies /\ Make /\ Done("succeeded") /\ UNCHANGED budget
           \/ applies /\ Make /\ Done("failed") /\ Fault
           \/ ~ applies /\ Done("skipped") /\ UNCHANGED accountVars
           \/ Done("failed") /\ Fault /\ UNCHANGED <<accounts, made>>
    /\ UNCHANGED batchVars

Total(count) == MapThenSumSet(LAMBDA s : count[s], ItemStates)

JobClosed(count) == IF count["canceled"] = Total(count) THEN "canceled"
                    ELSE IF count["succeeded"] = Total(count) THEN "succeeded"
                    ELSE IF count["succeeded"] > 0 THEN "partially_succeeded" ELSE "failed"

(* The item and the job's counters change in one transaction, or neither.    *)
(* The loop goes on with an erasure, or starts over if its pass is used up.  *)
CanComplete(w) ==
    LET i == workers[w].item
    IN  /\ items[i].state = "running" /\ items[i].version = workers[w].version /\ items[i].leased
        /\ jobs[i.job].state \in {"running", "canceling"} /\ jobs[i.job].count["running"] > 0

CompleteBatchItem(w) ==
    /\ workers[w].pc = "complete"
    /\ CanComplete(w)
    /\ LET i == workers[w].item
           count == Moved(jobs[i.job].count, "running", workers[w].result, 1)
           last == count["queued"] = 0 /\ count["running"] = 0
       IN  /\ items' = [items EXCEPT ![i].state = workers[w].result, ![i].leased = FALSE, ![i].version = @ + 1]
           /\ jobs' = [jobs EXCEPT ![i.job] =
                  [state |-> IF last THEN JobClosed(count) ELSE @.state, version |-> @.version + 1, count |-> count]]
    /\ \E turn \in {AtErasure, AtBatch} : workers' = [workers EXCEPT ![w] = turn]
    /\ UNCHANGED <<accountVars, calls, refused>>

(* A refused completion is an error: the pass ends, the next one starts over. *)
CompletionRefused(w) ==
    /\ workers[w].pc = "complete"
    /\ ~ CanComplete(w)
    /\ workers' = [workers EXCEPT ![w] = AtBatch]
    /\ UNCHANGED <<accountVars, batchVars>>

(* The process dies, or a call fails that ends the pass. *)
Crash(w) ==
    /\ workers[w].pc \notin {"batch", "erasure", "down"}
    /\ Fault
    /\ workers' = [workers EXCEPT ![w] = AtBatch]
    /\ UNCHANGED <<accounts, made, batchVars>>

(* The lease of an item whose worker is gone runs out in time; that of a     *)
(* worker that is only slow runs out as well, which is a fault.              *)
Held(i) == \E w \in Workers : workers[w].item = i /\ workers[w].version = items[i].version

LeaseExpires(i) ==
    /\ items[i].leased
    /\ IF Held(i) THEN Fault ELSE UNCHANGED budget
    /\ items' = [items EXCEPT ![i].leased = FALSE]
    /\ UNCHANGED <<accounts, made, jobs, workers, calls, refused>>

-----------------------------------------------------------------------------
(* Cancel and retry: the request carries the version the administrator saw.  *)

Request(call) ==
    /\ Spend("requests")
    /\ calls' = calls \cup {call}
    /\ UNCHANGED <<accounts, made, jobs, items, workers, refused>>

(* The service reads the job before it sends the statement. *)
CancelBatchUserOperation(j) ==
    /\ jobs[j].state \in OpenStates
    /\ Request([op |-> "cancel", job |-> j, version |-> jobs[j].version, items |-> {}])

(* The service sends the retry unseen, whatever the job's state; a request   *)
(* that names no items is one for all of them.                               *)
RetryBatchUserOperation(j) ==
    /\ jobs[j].state \in OpenStates \cup ClosedStates
    /\ \E S \in SUBSET ItemsOf(j) \ {{}} :
         Request([op |-> "retry", job |-> j, version |-> jobs[j].version, items |-> S])

(* The items that the statement's WITH clause moves, and what they become.   *)
Touched(call) ==
    IF call.op = "cancel"
      THEN {i \in ItemsOf(call.job) : items[i].state = "queued"}
      ELSE {i \in ItemsOf(call.job) : items[i].state \in Retriable /\ i \in call.items}

Target(call) == IF call.op = "cancel" THEN "canceled" ELSE "queued"

(* The counters follow the items that were moved, state by state.            *)
Recounted(call) ==
    LET From(s) == Cardinality({i \in Touched(call) : items[i].state = s})
    IN  [s \in ItemStates |-> jobs[call.job].count[s] + (IF s = Target(call) THEN Cardinality(Touched(call)) ELSE 0) - From(s)]

(* Mutant: a cancelled job is closed while items still run. *)
JobAfterIgnoringRunning(call) == IF call.op = "cancel" THEN "canceled" ELSE "running"

JobAfter(call) ==
    CASE call.op = "cancel" -> IF jobs[call.job].count["running"] > 0 THEN "canceling" ELSE "canceled"
      [] call.op = "retry" -> IF Touched(call) # {} THEN "running" ELSE jobs[call.job].state

(* The job row is found: version and state are still what they must be.      *)
JobMatches(call) ==
    /\ jobs[call.job].version = call.version
    /\ jobs[call.job].state \in (IF call.op = "cancel" THEN OpenStates ELSE ClosedStates)

Statement(call) ==
    /\ call \in calls
    /\ calls' = calls \ {call}
    /\ UNCHANGED accountVars

ItemsMoved(call) ==
    items' = [i \in Items |-> IF i \in Touched(call)
                               THEN [items[i] EXCEPT !.state = Target(call), !.leased = FALSE, !.version = @ + 1]
                               ELSE items[i]]

(* A job that starts to be cancelled finds every claim made before. *)
ClaimedBefore(call) ==
    [w \in Workers |-> IF /\ workers[w].item.job = call.job
                          /\ jobs[call.job].state # "canceling" /\ JobAfter(call) = "canceling"
                         THEN [workers[w] EXCEPT !.claimed = "before"] ELSE workers[w]]

(* A counter below zero breaks a CHECK constraint and undoes the statement.  *)
JobRequestAccepted(call) ==
    /\ Statement(call)
    /\ JobMatches(call)
    /\ IF \A s \in ItemStates : Recounted(call)[s] >= 0
         THEN /\ ItemsMoved(call)
              /\ jobs' = [jobs EXCEPT ![call.job] = [state |-> JobAfter(call), version |-> @.version + 1,
                                                     count |-> Recounted(call)]]
              /\ workers' = ClaimedBefore(call)
         ELSE UNCHANGED <<items, jobs, workers>>
    /\ UNCHANGED refused

JobRequestRefused(call) ==
    /\ Statement(call)
    /\ ~ JobMatches(call)
    /\ ItemsMoved(call)
    /\ refused' = IF Touched(call) # {} THEN refused \cup {call.job} ELSE refused
    /\ UNCHANGED <<jobs, workers>>
=============================================================================
