------------------------------- MODULE Erasure -------------------------------
(***************************************************************************)
(* The erasure job that deleting a user leaves behind.  The worker loop that *)
(* runs the batch items also drives this job, one checkpoint at a time,      *)
(* under a lease; the profile is deleted before its checkpoint is written.   *)
(***************************************************************************)
EXTENDS BatchJobs

VARIABLES erasures,     \* the admin_user_erasure_jobs rows
          profiles      \* the users whose user_profiles row exists

erasureVars == <<erasures, profiles>>

Steps == {"queued", "revoke_credentials", "erase_profile", "enqueue_room_cleanup", "complete"}
NextStep == [revoke_credentials |-> "erase_profile",
             erase_profile |-> "enqueue_room_cleanup",
             enqueue_room_cleanup |-> "complete"]

NoErasure == [state |-> "none", step |-> "queued", version |-> 0, leased |-> FALSE]

ErasureInit == erasures = [u \in Users |-> NoErasure] /\ profiles = Users

CreateErasureJob(u) == erasures' = [erasures EXCEPT ![u].state = "queued", ![u].version = 1]

Claimable(u) == \/ erasures[u].state = "queued"
                \/ erasures[u].state = "running" /\ ~ erasures[u].leased

(* The worker's copy of the job: its version in "version", its step in       *)
(* "result".                                                                 *)
ClaimErasureJob(w, u) ==
    /\ workers[w].pc = "erasure"
    /\ Claimable(u)
    /\ LET step == IF erasures[u].state = "queued" THEN "revoke_credentials" ELSE erasures[u].step
       IN  /\ erasures' = [erasures EXCEPT ![u] = [state |-> "running", step |-> step,
                                                   version |-> @.version + 1, leased |-> TRUE]]
           /\ workers' = [workers EXCEPT ![w] = [AtErasure EXCEPT !.pc = "erase", !.item = [job |-> 0, user |-> u], !.result = step,
                                                                  !.version = erasures[u].version + 1]]
    /\ UNCHANGED <<accountVars, batchVars, profiles>>

ErasureQueueEmpty(w) ==
    /\ workers[w].pc = "erasure"
    /\ \A u \in Users : ~ Claimable(u)
    /\ workers' = [workers EXCEPT ![w] = AtBatch]
    /\ UNCHANGED <<accountVars, batchVars, erasureVars>>

(* The erase_profile step starts with its side effect, which may fail.       *)
EraseUserProfile(w) ==
    /\ workers[w].pc = "erase"
    /\ workers[w].result = "erase_profile"
    /\ \/ /\ profiles' = profiles \ {workers[w].item.user}
          /\ workers' = [workers EXCEPT ![w].pc = "advance"]
          /\ UNCHANGED budget
       \/ /\ Fault
          /\ profiles' \in {profiles, profiles \ {workers[w].item.user}}
          /\ workers' = [workers EXCEPT ![w].pc = "fail"]
    /\ UNCHANGED <<accounts, made, batchVars, erasures>>

OwnsErasure(w) ==
    LET row == erasures[workers[w].item.user]
    IN  row.state = "running" /\ row.leased /\ row.version = workers[w].version

(* The checkpoint is written, or it is not, or it is and the answer is lost; *)
(* in the last two cases the worker goes on with the copy it has.            *)
AdvanceErasureJob(w) ==
    /\ \/ workers[w].pc = "advance"
       \/ workers[w].pc = "erase" /\ workers[w].result \in {"revoke_credentials", "enqueue_room_cleanup"}
    /\ LET u == workers[w].item.user
           next == NextStep[workers[w].result]
           Advance == OwnsErasure(w) /\ erasures' = [erasures EXCEPT ![u].step = next, ![u].version = @ + 1]
           Fail == workers' = [workers EXCEPT ![w].pc = "fail"]
       IN  \/ /\ Advance
              /\ workers' = [workers EXCEPT ![w].pc = "erase", ![w].result = next, ![w].version = @ + 1]
              /\ UNCHANGED budget
           \/ Advance /\ Fail /\ Fault
           \/ Fail /\ UNCHANGED erasures /\ (IF OwnsErasure(w) THEN Fault ELSE UNCHANGED budget)
    /\ UNCHANGED <<accounts, made, batchVars, profiles>>

CompleteErasureJob(w) ==
    /\ \/ workers[w].pc = "fail"
       \/ workers[w].pc = "erase" /\ workers[w].result = "complete"
    /\ LET u == workers[w].item.user
       IN  erasures' = IF OwnsErasure(w)
                         THEN [erasures EXCEPT ![u].state = IF workers[w].pc = "fail" THEN "failed" ELSE "succeeded",
                                               ![u].leased = FALSE, ![u].version = @ + 1]
                         ELSE erasures
    /\ workers' = [workers EXCEPT ![w] = AtBatch]
    /\ UNCHANGED <<accountVars, batchVars, profiles>>

ErasureHeld(u) == \E w \in Workers : workers[w].item = [job |-> 0, user |-> u] /\ workers[w].version = erasures[u].version

ErasureLeaseExpires(u) ==
    /\ erasures[u].leased
    /\ IF ErasureHeld(u) THEN Fault ELSE UNCHANGED budget
    /\ erasures' = [erasures EXCEPT ![u].leased = FALSE]
    /\ UNCHANGED <<accounts, made, batchVars, workers, profiles>>
=============================================================================
