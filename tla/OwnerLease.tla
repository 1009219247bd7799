----------------------------- MODULE OwnerLease -----------------------------
(***************************************************************************)
(* Ownership of one game session by realtime processes.                    *)
(*                                                                         *)
(* A process claims a session in four separate calls: it takes a Redis key *)
(* with a random token, reads the session row, advances the row's          *)
(* ownership epoch by compare-and-set, and promotes the Redis value so     *)
(* that commands are routed to it (apps/realtime/internal/owner,           *)
(* platform/persistence/redis/coordination.go).  Redis is only a hint: the *)
(* PostgreSQL epoch fences every write.  The Redis key can expire between  *)
(* any two calls, any reply can be lost, and a process can crash.          *)
(*                                                                         *)
(* Tokens are 32 random bytes in the code; here they are drawn from a      *)
(* counter, so no two draws are equal.  Token 0 stands for "no token".     *)
(***************************************************************************)
EXTENDS Naturals

CONSTANTS
    Instances,    \* realtime processes, by InstanceID
    NoInstance,   \* the owner field of an absent lease
    MaxEpoch,     \* bound on the ownership epoch
    MaxToken,     \* bound on the number of lease tokens drawn
    MaxVersion    \* bound on the session state version

ASSUME OwnerAssumption ==
    /\ NoInstance \notin Instances
    /\ MaxEpoch \in Nat
    /\ MaxToken \in Nat
    /\ MaxVersion \in Nat

VARIABLES
    session,   \* PostgreSQL row: ownership epoch, state version, terminal status
    lease,     \* Redis value of the session's lease key
    drawn,     \* tokens drawn so far
    held,      \* Manager.held[session] of each process
    claim,     \* the coalesced claim of each process (Manager.claims)
    command,   \* one in-flight command of each process
    closed,    \* Manager.closed
    closing,   \* held session whose lease Close still has to release
    fanout     \* highest state version published to subscribers

vars == <<session, lease, drawn, held, claim, command, closed, closing, fanout>>
local == <<held, claim, command, closed, closing>>

NoLease == [token |-> 0, owner |-> NoInstance, ready |-> FALSE, epoch |-> 0]
NotHeld == [token |-> 0, epoch |-> 0]
NoClaim == [pc |-> "idle", token |-> 0, epoch |-> 0, version |-> 0]
NoCommand == [pc |-> "idle", kind |-> "direct", token |-> 0, began |-> 0,
              epoch |-> 0, version |-> 0]

ClaimPC == {"idle", "started", "leased", "loaded", "fenced", "promoted"}
CommandPC == {"idle", "loaded", "committed"}

\* "direct": a player's action, a timer, a cancellation.  "host": the host ends
\* the game.  "system": durable work, such as revoking a removed player.
CommandKinds == {"direct", "host", "system"}

\* A new session is stored with epoch zero and state version one.
Init ==
    /\ session = [epoch |-> 0, version |-> 1, terminal |-> FALSE]
    /\ lease = NoLease
    /\ drawn = 0
    /\ held = [i \in Instances |-> NotHeld]
    /\ claim = [i \in Instances |-> NoClaim]
    /\ command = [i \in Instances |-> NoCommand]
    /\ closed = [i \in Instances |-> FALSE]
    /\ closing = [i \in Instances |-> NotHeld]
    /\ fanout = 0

-----------------------------------------------------------------------------
(* Redis scripts: each is atomic and compares the whole stored value.      *)

Claiming(i, t) == [token |-> t, owner |-> i, ready |-> FALSE, epoch |-> 0]
Ready(i, t, e) == [token |-> t, owner |-> i, ready |-> TRUE, epoch |-> e]

\* ReleaseSessionLease: delete the key only while it still holds this value.
\* When the call does not reach Redis the key is left to its TTL.
Release(value) ==
    \/ lease = value /\ lease' = NoLease
    \/ UNCHANGED lease

-----------------------------------------------------------------------------
(* Runtime.Start takes the first epoch of a session without a Redis lease. *)

StartAcquire ==
    /\ ~session.terminal
    /\ session.epoch = 0
    /\ session.epoch < MaxEpoch
    /\ session' = [session EXCEPT !.epoch = 1]
    /\ UNCHANGED <<lease, drawn, fanout, local>>

-----------------------------------------------------------------------------
(* EnsureOwned and claim.                                                  *)

\* Register a claim that later callers of the same process wait on.  Close can
\* come between this and any later step of the claim.
EnsureOwned(i) ==
    /\ ~closed[i]
    /\ held[i].token = 0
    /\ claim[i].pc = "idle"
    /\ claim' = [claim EXCEPT ![i].pc = "started"]
    /\ UNCHANGED <<session, lease, drawn, held, command, closed, closing, fanout>>

\* AcquireSessionLease found the key free.  After a lost reply the claim ends
\* and the key holds a token that nobody knows.
AcquireLease(i) ==
    /\ claim[i].pc = "started"
    /\ lease = NoLease
    /\ drawn < MaxToken
    /\ drawn' = drawn + 1
    /\ lease' = Claiming(i, drawn + 1)
    /\ claim' \in {[claim EXCEPT ![i] = NoClaim],
                   [claim EXCEPT ![i].pc = "leased", ![i].token = drawn + 1]}
    /\ UNCHANGED <<session, held, command, closed, closing, fanout>>

\* The key is held by somebody (ErrOwnedElsewhere) or Redis did not answer.
FailAcquire(i) ==
    /\ claim[i].pc = "started"
    /\ claim' = [claim EXCEPT ![i] = NoClaim]
    /\ UNCHANGED <<session, lease, drawn, held, command, closed, closing, fanout>>

\* sessions.Get: the claim goes on with the epoch and version it read.
LoadSession(i) ==
    /\ claim[i].pc = "leased"
    /\ ~session.terminal
    /\ claim' = [claim EXCEPT ![i].pc = "loaded", ![i].epoch = session.epoch,
                              ![i].version = session.version]
    /\ UNCHANGED <<session, lease, drawn, held, command, closed, closing, fanout>>

OwnershipCurrent(i) ==
    /\ session.epoch = claim[i].epoch
    /\ session.version = claim[i].version
    /\ ~session.terminal

\* AcquireOwnershipCAS: the row still has the version and the epoch that were
\* read.  When the reply is lost the epoch has moved and the claim gives up.
AcquireOwnership(i) ==
    /\ claim[i].pc = "loaded"
    /\ OwnershipCurrent(i)
    /\ session.epoch < MaxEpoch
    /\ session' = [session EXCEPT !.epoch = session.epoch + 1]
    /\ \/ /\ claim' = [claim EXCEPT ![i].pc = "fenced", ![i].epoch = session.epoch + 1]
          /\ UNCHANGED lease
       \/ /\ claim' = [claim EXCEPT ![i] = NoClaim]
          /\ Release(Claiming(i, claim[i].token))
    /\ UNCHANGED <<drawn, held, command, closed, closing, fanout>>

\* Faulty variant: promotion overwrites whatever value Redis has.
PromoteAnyLease(i) ==
    /\ claim[i].pc = "fenced"
    /\ lease' = Ready(i, claim[i].token, claim[i].epoch)
    /\ claim' = [claim EXCEPT ![i].pc = "promoted"]
    /\ UNCHANGED <<session, drawn, held, command, closed, closing, fanout>>

\* PromoteSessionLease: the value becomes routable if it is still ours.  After
\* a lost reply the claim releases the unpromoted value, which matches nothing.
PromoteLease(i) ==
    /\ claim[i].pc = "fenced"
    /\ lease = Claiming(i, claim[i].token)
    /\ lease' = Ready(i, claim[i].token, claim[i].epoch)
    /\ claim' \in {[claim EXCEPT ![i].pc = "promoted"], [claim EXCEPT ![i] = NoClaim]}
    /\ UNCHANGED <<session, drawn, held, command, closed, closing, fanout>>

\* Faulty variant: a lost compare-and-set returns without ending the claim.
AbandonClaimUnlessLoaded(i) ==
    /\ claim[i].pc \in {"leased", "fenced"}
    /\ Release(Claiming(i, claim[i].token))
    /\ claim' = [claim EXCEPT ![i] = NoClaim]
    /\ UNCHANGED <<session, drawn, held, command, closed, closing, fanout>>

\* Any failed call before promotion: read error, terminal session, lost CAS,
\* changed Redis value.  The claim releases its claiming value and ends.
AbandonClaim(i) ==
    /\ claim[i].pc \in {"leased", "loaded", "fenced"}
    /\ Release(Claiming(i, claim[i].token))
    /\ claim' = [claim EXCEPT ![i] = NoClaim]
    /\ UNCHANGED <<session, drawn, held, command, closed, closing, fanout>>

\* EnsureOwned after claim returned: hold the session, unless Close came first.
FinishClaim(i) ==
    /\ claim[i].pc = "promoted"
    /\ \/ /\ ~closed[i]
          /\ held' = [held EXCEPT ![i] = [token |-> claim[i].token, epoch |-> claim[i].epoch]]
          /\ UNCHANGED lease
       \/ /\ closed[i]
          /\ Release(Ready(i, claim[i].token, claim[i].epoch))
          /\ UNCHANGED held
    /\ claim' = [claim EXCEPT ![i] = NoClaim]
    /\ UNCHANGED <<session, drawn, command, closed, closing, fanout>>

-----------------------------------------------------------------------------
(* Renewal and loss of a held lease.                                       *)

HeldValue(i) == Ready(i, held[i].token, held[i].epoch)

\* Faulty variant: a missing key counts as a successful renewal.
LoseLeaseIfReplaced(i) ==
    /\ held[i].token # 0
    /\ lease # NoLease
    /\ lease # HeldValue(i)
    /\ held' = [held EXCEPT ![i] = NotHeld]
    /\ UNCHANGED <<session, lease, drawn, claim, command, closed, closing, fanout>>

\* renewHeld and lose: a tick that finds another value in Redis drops the
\* session.  A tick that finds its own value extends the TTL, which leaves
\* this state as it is: nothing compares the held epoch with PostgreSQL.
LoseLease(i) ==
    /\ held[i].token # 0
    /\ lease # HeldValue(i)
    /\ held' = [held EXCEPT ![i] = NotHeld]
    /\ UNCHANGED <<session, lease, drawn, claim, command, closed, closing, fanout>>

\* A tick whose Redis call fails drops the session although the key is intact.
FailRenewal(i) ==
    /\ held[i].token # 0
    /\ lease = HeldValue(i)
    /\ held' = [held EXCEPT ![i] = NotHeld]
    /\ UNCHANGED <<session, lease, drawn, claim, command, closed, closing, fanout>>

\* The TTL elapsed without a renewal reaching Redis, or Redis lost the key.
ExpireLease ==
    /\ lease # NoLease
    /\ lease' = NoLease
    /\ UNCHANGED <<session, drawn, fanout, local>>

\* Close cancels every command first and releases the exact leases after it.
Close(i) ==
    /\ ~closed[i]
    /\ closed' = [closed EXCEPT ![i] = TRUE]
    /\ held' = [held EXCEPT ![i] = NotHeld]
    /\ closing' = [closing EXCEPT ![i] = held[i]]
    /\ UNCHANGED <<session, lease, drawn, claim, command, fanout>>

CloseRelease(i) ==
    /\ closing[i].token # 0
    /\ Release(Ready(i, closing[i].token, closing[i].epoch))
    /\ closing' = [closing EXCEPT ![i] = NotHeld]
    /\ UNCHANGED <<session, drawn, held, claim, command, closed, fanout>>

\* The process dies and is restarted with an empty manager.
Crash(i) ==
    /\ held' = [held EXCEPT ![i] = NotHeld]
    /\ claim' = [claim EXCEPT ![i] = NoClaim]
    /\ command' = [command EXCEPT ![i] = NoCommand]
    /\ closed' = [closed EXCEPT ![i] = FALSE]
    /\ closing' = [closing EXCEPT ![i] = NotHeld]
    /\ UNCHANGED <<session, lease, drawn, fanout>>

-----------------------------------------------------------------------------
(* Commands under the held epoch.                                          *)

\* owned, then the runtime reads the session: a changed epoch is refused.
\* "began" is the epoch that the manager passes in; "epoch" and "version" are
\* what the row has to show at the commit.
BeginCommand(i) ==
    /\ ~closed[i]
    /\ held[i].token # 0
    /\ command[i].pc = "idle"
    /\ ~session.terminal
    /\ session.epoch = held[i].epoch
    /\ \E kind \in CommandKinds :
          command' = [command EXCEPT ![i] =
              [pc |-> "loaded", kind |-> kind, token |-> held[i].token, began |-> held[i].epoch,
               epoch |-> held[i].epoch, version |-> session.version]]
    /\ UNCHANGED <<session, lease, drawn, held, claim, closed, closing, fanout>>

\* Faulty variant: the write is fenced by the state version alone.
CommandVersionOnly(i) ==
    /\ session.version = command[i].version
    /\ ~session.terminal

\* validateCurrentTransition under the row lock.
CommandCurrent(i) ==
    /\ session.epoch = command[i].epoch
    /\ session.version = command[i].version
    /\ ~session.terminal

\* What is left of a command after its commit: whose it was and what to publish.
Committed(t, v) == [pc |-> "committed", kind |-> "direct", token |-> t, began |-> 0,
                    epoch |-> 0, version |-> v]

\* The transaction commits even when the lease was lost while it ran.
CommitCommand(i) ==
    /\ command[i].pc = "loaded"
    /\ CommandCurrent(i)
    /\ session.version < MaxVersion
    /\ \E finished \in BOOLEAN :
          session' = [session EXCEPT !.version = command[i].version + 1, !.terminal = finished]
    /\ command' = [command EXCEPT ![i] = Committed(command[i].token, command[i].version + 1)]
    /\ UNCHANGED <<lease, drawn, held, claim, closed, closing, fanout>>

\* Cancel ends the session under the same fence and keeps its state version.
CommitCancel(i) ==
    /\ command[i].pc = "loaded"
    /\ command[i].kind = "direct"
    /\ CommandCurrent(i)
    /\ session' = [session EXCEPT !.terminal = TRUE]
    /\ command' = [command EXCEPT ![i] = Committed(command[i].token, command[i].version)]
    /\ UNCHANGED <<lease, drawn, held, claim, closed, closing, fanout>>

\* Retry in commitSystemAfterSessionLock and the loop of HandleSystem: a system
\* command that finds the row changed is computed again from the row as it is,
\* and takes over the epoch it finds there, whoever owns the session by now.
RecomputeSystem(i) ==
    /\ command[i].pc = "loaded"
    /\ command[i].kind = "system"
    /\ ~CommandCurrent(i)
    /\ ~session.terminal
    /\ command' = [command EXCEPT ![i].epoch = session.epoch, ![i].version = session.version]
    /\ UNCHANGED <<session, lease, drawn, held, claim, closed, closing, fanout>>

\* CompleteSystemNoop: the game is over, before the command of the host or the
\* system or since, and the command gets a receipt only.
CompleteNoop(i) ==
    /\ session.terminal
    /\ \/ /\ command[i].pc = "loaded"
          /\ command[i].kind # "direct"
          /\ command' = [command EXCEPT ![i] = Committed(command[i].token, session.version)]
       \/ /\ ~closed[i]
          /\ held[i].token # 0
          /\ command[i].pc = "idle"
          /\ command' = [command EXCEPT ![i] = Committed(held[i].token, session.version)]
    /\ UNCHANGED <<session, lease, drawn, held, claim, closed, closing, fanout>>

\* A rejected transaction, a cancelled context, a module error, or a system
\* command whose row changed too often.
RejectCommand(i) ==
    /\ command[i].pc = "loaded"
    /\ command' = [command EXCEPT ![i] = NoCommand]
    /\ UNCHANGED <<session, lease, drawn, held, claim, closed, closing, fanout>>

StillOwns(i) == ~closed[i] /\ held[i].token = command[i].token

\* Faulty variant: the wakeup goes out before the transaction commits.
PublishEarly(i) ==
    /\ command[i].pc # "idle"
    /\ fanout' = IF command[i].pc = "loaded" THEN command[i].version + 1 ELSE command[i].version
    /\ command' = [command EXCEPT ![i] = NoCommand]
    /\ UNCHANGED <<session, lease, drawn, held, claim, closed, closing>>

\* Only a process that still owns the session publishes.  Otherwise, or when
\* the publish fails, the caller gets an error although the command is durable.
PublishCommand(i) ==
    /\ command[i].pc = "committed"
    /\ \/ /\ StillOwns(i)
          /\ fanout' = IF command[i].version > fanout THEN command[i].version ELSE fanout
       \/ UNCHANGED fanout
    /\ command' = [command EXCEPT ![i] = NoCommand]
    /\ UNCHANGED <<session, lease, drawn, held, claim, closed, closing>>

-----------------------------------------------------------------------------

ClaimStep(i) ==
    \/ AcquireLease(i) \/ FailAcquire(i) \/ LoadSession(i) \/ AcquireOwnership(i) 
    \/ PromoteLease(i) \/ AbandonClaim(i) \/ FinishClaim(i)

Next ==
    \/ StartAcquire
    \/ ExpireLease
    \/ \E i \in Instances :
          \/ EnsureOwned(i) \/ ClaimStep(i)
          \/ LoseLease(i) \/ FailRenewal(i) \/ Close(i) \/ CloseRelease(i) \/ Crash(i)
          \/ BeginCommand(i) \/ CommitCommand(i) \/ CommitCancel(i) \/ RecomputeSystem(i)
          \/ CompleteNoop(i) \/ RejectCommand(i) \/ PublishCommand(i)

Spec == Init /\ [][Next]_vars

\* A claim is one goroutine running to its end, and Manager.Run renews every
\* held lease on a ticker.  Nothing is assumed of Redis or of arriving calls.
Fairness == \A i \in Instances : WF_vars(ClaimStep(i)) /\ WF_vars(LoseLease(i))

FairSpec == Spec /\ Fairness

-----------------------------------------------------------------------------
(* Properties.                                                             *)

SessionType == [epoch : Nat, version : Nat, terminal : BOOLEAN]
LeaseType == [token : Nat, owner : Instances \cup {NoInstance}, ready : BOOLEAN, epoch : Nat]
HeldType == [token : Nat, epoch : Nat]
ClaimType == [pc : ClaimPC, token : Nat, epoch : Nat, version : Nat]
CommandType == [pc : CommandPC, kind : CommandKinds, token : Nat, began : Nat,
                epoch : Nat, version : Nat]

\* The state has the shape of the PostgreSQL row, the Redis value, and the
\* manager's maps.
TypeOK ==
    /\ session \in SessionType
    /\ lease \in LeaseType
    /\ drawn \in Nat
    /\ held \in [Instances -> HeldType]
    /\ claim \in [Instances -> ClaimType]
    /\ command \in [Instances -> CommandType]
    /\ closed \in [Instances -> BOOLEAN]
    /\ closing \in [Instances -> HeldType]
    /\ fanout \in Nat

Holds(i) == held[i].token # 0

\* Two processes may both believe they own the session, after a key expired
\* under a slow owner, but never with the same fencing epoch.
DistinctEpochs ==
    \A i, j \in Instances :
        i # j /\ Holds(i) /\ Holds(j) => held[i].epoch # held[j].epoch

\* The route in Redis names the newest owner: a process that still holds the
\* session under another token has an older epoch than the routed one.
RouteIsNewest ==
    \A i \in Instances :
        Holds(i) /\ lease.ready /\ lease.token # held[i].token => held[i].epoch < lease.epoch

\* Some process is a newer owner than the epoch e: routable, or holding.
Superseded(e) ==
    \/ lease.ready /\ e < lease.epoch
    \/ \E j \in Instances : Holds(j) /\ e < held[j].epoch

\* Process i writes the session row.
Commits(i) == command[i].pc = "loaded" /\ command'[i].pc = "committed" /\ session' # session

\* Once a newer owner is routable, or holds the session, no action, timer,
\* cancellation or end of the game begun under an older epoch commits: the
\* fence that makes it safe for a cancelled transaction to go on running in
\* PostgreSQL.  A system command is computed again first, from a row of the
\* newest owner.
SupersededNeverCommits ==
    [][\A i \in Instances : Commits(i) =>
          ~Superseded(IF command[i].kind = "system" THEN command[i].epoch ELSE command[i].began)]_vars

\* What the release notes say of an owner that was replaced: all its operations
\* are refused, revocations and other system commands included.
OldOwnerRefused ==
    [][\A i \in Instances : Commits(i) => ~Superseded(command[i].began)]_vars

\* Subscribers are never told of a state version PostgreSQL has not committed.
FanoutIsCommitted == fanout <= session.version

\* The claim entry that coalesced callers of EnsureOwned wait on is always
\* removed again.
ClaimsEnd == \A i \in Instances : claim[i].pc # "idle" ~> claim[i].pc = "idle"

\* A process whose Redis value was lost eventually stops accepting commands.
LostLeaseIsDropped ==
    \A i \in Instances : Holds(i) /\ lease # HeldValue(i) ~> ~Holds(i)
=============================================================================
