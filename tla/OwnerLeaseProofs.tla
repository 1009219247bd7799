-------------------------- MODULE OwnerLeaseProofs --------------------------
(***************************************************************************)
(* Proofs about OwnerLease for any number of processes and any bounds.     *)
(*                                                                         *)
(* The argument is one observation in three parts.  The epoch in           *)
(* PostgreSQL bounds every epoch known anywhere (EpochsBounded).  The step *)
(* that fences a claim therefore gives it an epoch above all others, so    *)
(* fenced claims and holders never share one (FencesDistinct).  And while  *)
(* Redis still has the claiming value of a fenced claim, nobody else can   *)
(* have been promoted since that claim fenced (FenceBeatsHolders), so the  *)
(* value it writes by promotion is the newest route (RouteBeatsHolders).   *)
(***************************************************************************)
EXTENDS OwnerLease, TLAPS

Fenced(i) == claim[i].pc \in {"fenced", "promoted"}
Promoted(i) == claim[i].pc = "promoted"

\* Every epoch in a process, a claim or the route was handed out by PostgreSQL.
EpochsBounded ==
    /\ lease.ready => lease.epoch <= session.epoch
    /\ \A i \in Instances :
          /\ Holds(i) => held[i].epoch <= session.epoch
          /\ Fenced(i) => claim[i].epoch <= session.epoch
          /\ command[i].pc # "idle" => command[i].epoch <= session.epoch
          /\ command[i].pc = "loaded" /\ command[i].kind # "system" => command[i].epoch = command[i].began

\* A process never claims a session it holds.
ClaimExcludesHeld == \A i \in Instances : Holds(i) => claim[i].pc = "idle"

\* Holders and fenced claims of different processes have different epochs.
FencesDistinct ==
    \A i, j \in Instances : i # j =>
        /\ Holds(i) /\ Holds(j) => held[i].epoch # held[j].epoch
        /\ Holds(i) /\ Fenced(j) => held[i].epoch # claim[j].epoch
        /\ Fenced(i) /\ Fenced(j) => claim[i].epoch # claim[j].epoch

\* A fenced claim whose value is still in Redis is newer than every owner.
FenceBeatsHolders ==
    \A i, j \in Instances :
        i # j /\ claim[i].pc = "fenced" /\ lease = Claiming(i, claim[i].token) =>
            /\ Holds(j) => held[j].epoch < claim[i].epoch
            /\ Promoted(j) => claim[j].epoch < claim[i].epoch

\* The route is newer than every owner and every promoted claim it is not for.
RouteBeatsHolders ==
    lease.ready =>
        \A i \in Instances :
            /\ Holds(i) /\ lease.token # held[i].token => held[i].epoch < lease.epoch
            /\ Promoted(i) /\ lease.token # claim[i].token => claim[i].epoch < lease.epoch

\* A committed command and the last wakeup are about committed versions.
VersionsBounded ==
    /\ fanout <= session.version
    /\ \A i \in Instances : command[i].pc # "idle" => command[i].version <= session.version

\* The inductive invariant.
IInv ==
    /\ TypeOK
    /\ EpochsBounded
    /\ ClaimExcludesHeld
    /\ FencesDistinct
    /\ FenceBeatsHolders
    /\ RouteBeatsHolders
    /\ VersionsBounded

-----------------------------------------------------------------------------
(* Type correctness.                                                       *)

\* The empty values have their types.
LEMMA EmptyValues ==
    /\ NoLease \in LeaseType
    /\ NotHeld \in HeldType
    /\ NoClaim \in ClaimType
    /\ NoCommand \in CommandType
BY DEF NoLease, LeaseType, NotHeld, HeldType, NoClaim, ClaimType, ClaimPC,
       NoCommand, CommandType, CommandPC, CommandKinds

\* So have the two values a claim writes to Redis.
LEMMA RedisValues ==
    ASSUME NEW i \in Instances, NEW t \in Nat, NEW e \in Nat
    PROVE  Claiming(i, t) \in LeaseType /\ Ready(i, t, e) \in LeaseType
BY DEF Claiming, Ready, LeaseType

\* So has what a commit leaves of its command.
LEMMA CommittedType == \A t, v \in Nat : Committed(t, v) \in CommandType
BY DEF Committed, CommandType, CommandPC, CommandKinds

\* Every step of every process, of Redis and of Start keeps the types.
LEMMA TypeStep == TypeOK /\ [Next]_vars => TypeOK'
<1> SUFFICES ASSUME TypeOK, [Next]_vars PROVE TypeOK'
  OBVIOUS
<1> USE EmptyValues DEF TypeOK
<1>1. CASE StartAcquire
  BY <1>1 DEF StartAcquire, local, SessionType
<1>2. CASE ExpireLease
  BY <1>2 DEF ExpireLease, local
<1>3. ASSUME NEW i \in Instances,
             \/ EnsureOwned(i) \/ ClaimStep(i)
             \/ LoseLease(i) \/ FailRenewal(i) \/ Close(i) \/ CloseRelease(i) \/ Crash(i)
             \/ BeginCommand(i) \/ CommitCommand(i) \/ CommitCancel(i)
             \/ RecomputeSystem(i) \/ CompleteNoop(i) \/ RejectCommand(i) \/ PublishCommand(i)
      PROVE TypeOK'
  <2>1. CASE EnsureOwned(i)
    BY <2>1 DEF EnsureOwned, ClaimType, ClaimPC
  <2>2. CASE AcquireLease(i)
    <3>1. lease' \in LeaseType /\ drawn' \in Nat
      BY <2>2, RedisValues DEF AcquireLease
    <3>2. claim' \in [Instances -> ClaimType]
      BY <2>2 DEF AcquireLease, ClaimType, ClaimPC
    <3> QED
      BY <2>2, <3>1, <3>2 DEF AcquireLease
  <2>3. CASE FailAcquire(i)
    BY <2>3 DEF FailAcquire
  <2>4. CASE LoadSession(i)
    BY <2>4 DEF LoadSession, ClaimType, ClaimPC, SessionType
  <2>5. CASE AcquireOwnership(i)
    <3>1. session' \in SessionType
      BY <2>5 DEF AcquireOwnership, SessionType
    <3>2. claim' \in [Instances -> ClaimType]
      <4>1. session.epoch + 1 \in Nat
        BY DEF SessionType
      <4>2. [claim[i] EXCEPT !.pc = "fenced", !.epoch = session.epoch + 1] \in ClaimType
        BY <4>1, Zenon DEF ClaimType, ClaimPC
      <4> QED
        BY <2>5, <4>2, Zenon DEF AcquireOwnership
    <3>3. lease' \in LeaseType
      BY <2>5 DEF AcquireOwnership, Release
    <3> QED
      BY <2>5, <3>1, <3>2, <3>3 DEF AcquireOwnership
  <2>6. CASE PromoteLease(i)
    <3>1. claim[i].token \in Nat /\ claim[i].epoch \in Nat
      BY DEF ClaimType
    <3>2. lease' \in LeaseType
      BY <2>6, <3>1, RedisValues DEF PromoteLease
    <3>3. claim' \in [Instances -> ClaimType]
      <4>1. [claim EXCEPT ![i].pc = "promoted"] \in [Instances -> ClaimType]
        BY DEF ClaimType, ClaimPC
      <4> QED
        BY <2>6, <4>1 DEF PromoteLease
    <3> QED
      BY <2>6, <3>2, <3>3 DEF PromoteLease
  <2>7. CASE AbandonClaim(i)
    BY <2>7 DEF AbandonClaim, Release
  <2>8. CASE FinishClaim(i)
    <3>1. held' \in [Instances -> HeldType]
      <4>1. [token |-> claim[i].token, epoch |-> claim[i].epoch] \in HeldType
        BY DEF ClaimType, HeldType
      <4> QED
        BY <2>8, <4>1 DEF FinishClaim
    <3>2. lease' \in LeaseType
      BY <2>8 DEF FinishClaim, Release
    <3> QED
      BY <2>8, <3>1, <3>2, Zenon DEF FinishClaim
  <2>9. CASE LoseLease(i)
    BY <2>9 DEF LoseLease
  <2>10. CASE FailRenewal(i)
    BY <2>10 DEF FailRenewal
  <2>11. CASE Close(i)
    BY <2>11 DEF Close
  <2>12. CASE CloseRelease(i)
    BY <2>12 DEF CloseRelease, Release
  <2>13. CASE Crash(i)
    BY <2>13 DEF Crash
  <2>14. CASE BeginCommand(i)
    BY <2>14 DEF BeginCommand, SessionType, HeldType, CommandType, CommandPC
  <2>15. CASE CommitCommand(i)
    <3>1. command[i].token \in Nat /\ command[i].version + 1 \in Nat
      BY DEF CommandType
    <3>2. command' \in [Instances -> CommandType]
      BY <2>15, <3>1, CommittedType, Zenon DEF CommitCommand
    <3>3. session' \in SessionType
      BY <2>15, <3>1 DEF CommitCommand, SessionType
    <3> QED
      BY <2>15, <3>2, <3>3, Zenon DEF CommitCommand
  <2>16. CASE CommitCancel(i)
    <3>1. command[i].token \in Nat /\ command[i].version \in Nat
      BY DEF CommandType
    <3>2. command' \in [Instances -> CommandType]
      BY <2>16, <3>1, CommittedType, Zenon DEF CommitCancel
    <3>3. session' \in SessionType
      BY <2>16 DEF CommitCancel, SessionType
    <3> QED
      BY <2>16, <3>2, <3>3, Zenon DEF CommitCancel
  <2>17. CASE RejectCommand(i)
    BY <2>17 DEF RejectCommand
  <2>18. CASE PublishCommand(i)
    BY <2>18 DEF PublishCommand, CommandType
  <2>19. CASE RecomputeSystem(i)
    BY <2>19 DEF RecomputeSystem, SessionType, CommandType
  <2>20. CASE CompleteNoop(i)
    <3>1. command[i].token \in Nat /\ held[i].token \in Nat /\ session.version \in Nat
      BY DEF CommandType, HeldType, SessionType
    <3>2. \E n \in Nat : command' = [command EXCEPT ![i] = Committed(n, session.version)]
      BY <2>20, <3>1, Zenon DEF CompleteNoop
    <3>3. command' \in [Instances -> CommandType]
      BY <3>1, <3>2, CommittedType
    <3> QED
      BY <2>20, <3>3, Zenon DEF CompleteNoop
  <2> QED
    BY <1>3, <2>1, <2>2, <2>3, <2>4, <2>5, <2>6, <2>7, <2>8, <2>9,
       <2>10, <2>11, <2>12, <2>13, <2>14, <2>15, <2>16, <2>17, <2>18, <2>19, <2>20, Zenon DEF ClaimStep
<1>4. CASE UNCHANGED vars
  BY <1>4 DEF vars
<1> QED
  BY <1>1, <1>2, <1>3, <1>4 DEF Next

\* The PostgreSQL row, the Redis value and the manager's maps keep their shape.
THEOREM TypeCorrect == Spec => []TypeOK
<1>1. Init => TypeOK
  BY EmptyValues DEF Init, TypeOK, SessionType
<1> QED
  BY <1>1, TypeStep, PTL DEF Spec

-----------------------------------------------------------------------------
(* The inductive invariant.                                                *)

\* EnsureOwned starts a claim only when the process holds nothing.
LEMMA ClaimExcludesHeldStep ==
    TypeOK /\ ClaimExcludesHeld /\ [Next]_vars => ClaimExcludesHeld'
<1> SUFFICES ASSUME TypeOK, ClaimExcludesHeld, [Next]_vars PROVE ClaimExcludesHeld'
  OBVIOUS
<1> USE DEF TypeOK, ClaimExcludesHeld, Holds, HeldType, ClaimType
<1>1. CASE StartAcquire
  BY <1>1 DEF StartAcquire, local, SessionType
<1>2. CASE ExpireLease
  BY <1>2 DEF ExpireLease, local
<1>3. ASSUME NEW k \in Instances,
             \/ EnsureOwned(k) \/ ClaimStep(k)
             \/ LoseLease(k) \/ FailRenewal(k) \/ Close(k) \/ CloseRelease(k) \/ Crash(k)
             \/ BeginCommand(k) \/ CommitCommand(k) \/ CommitCancel(k)
             \/ RecomputeSystem(k) \/ CompleteNoop(k) \/ RejectCommand(k) \/ PublishCommand(k)
      PROVE ClaimExcludesHeld'
  <2>1. CASE EnsureOwned(k)
    BY <2>1 DEF EnsureOwned
  <2>2. CASE AcquireLease(k)
    BY <2>2, Zenon DEF AcquireLease, NoClaim
  <2>3. CASE FailAcquire(k)
    BY <2>3 DEF FailAcquire, NoClaim
  <2>4. CASE LoadSession(k)
    BY <2>4 DEF LoadSession
  <2>5. CASE AcquireOwnership(k)
    BY <2>5, Zenon DEF AcquireOwnership, NoClaim, Release
  <2>6. CASE PromoteLease(k)
    BY <2>6, Zenon DEF PromoteLease, NoClaim
  <2>7. CASE AbandonClaim(k)
    BY <2>7 DEF AbandonClaim, NoClaim, Release
  <2>8. CASE FinishClaim(k)
    BY <2>8 DEF FinishClaim, NoClaim, Release
  <2>9. CASE LoseLease(k)
    BY <2>9 DEF LoseLease, NotHeld
  <2>10. CASE FailRenewal(k)
    BY <2>10 DEF FailRenewal, NotHeld
  <2>11. CASE Close(k)
    BY <2>11 DEF Close, NotHeld
  <2>12. CASE CloseRelease(k)
    BY <2>12 DEF CloseRelease, NotHeld, Release
  <2>13. CASE Crash(k)
    BY <2>13 DEF Crash, NotHeld, NoClaim, NoCommand
  <2>14. CASE BeginCommand(k)
    BY <2>14 DEF BeginCommand
  <2>15. CASE CommitCommand(k)
    BY <2>15 DEF CommitCommand
  <2>16. CASE CommitCancel(k)
    BY <2>16 DEF CommitCancel
  <2>17. CASE RejectCommand(k)
    BY <2>17 DEF RejectCommand, NoCommand
  <2>18. CASE PublishCommand(k)
    BY <2>18 DEF PublishCommand, NoCommand
  <2>19. CASE RecomputeSystem(k)
    BY <2>19, Zenon DEF RecomputeSystem
  <2>20. CASE CompleteNoop(k)
    BY <2>20, Zenon DEF CompleteNoop
  <2> QED
    BY <1>3, <2>1, <2>2, <2>3, <2>4, <2>5, <2>6, <2>7, <2>8, <2>9,
       <2>10, <2>11, <2>12, <2>13, <2>14, <2>15, <2>16, <2>17, <2>18, <2>19, <2>20, Zenon DEF ClaimStep
<1>4. CASE UNCHANGED vars
  BY <1>4 DEF vars
<1> QED
  BY <1>1, <1>2, <1>3, <1>4, Zenon DEF Next

\* Epochs are handed out by AcquireOwnershipCAS and the row's epoch never falls.
LEMMA EpochsBoundedStep ==
    TypeOK /\ EpochsBounded /\ [Next]_vars => EpochsBounded'
<1> SUFFICES ASSUME TypeOK, EpochsBounded, [Next]_vars PROVE EpochsBounded'
  OBVIOUS
<1> USE DEF TypeOK, EpochsBounded, Holds, Fenced, SessionType, LeaseType, HeldType,
          ClaimType, CommandType, ClaimPC, CommandPC
<1>1. CASE StartAcquire
  BY <1>1 DEF StartAcquire, local, SessionType
<1>2. CASE ExpireLease
  BY <1>2 DEF ExpireLease, local, NoLease
<1>3. ASSUME NEW k \in Instances,
             \/ EnsureOwned(k) \/ ClaimStep(k)
             \/ LoseLease(k) \/ FailRenewal(k) \/ Close(k) \/ CloseRelease(k) \/ Crash(k)
             \/ BeginCommand(k) \/ CommitCommand(k) \/ CommitCancel(k)
             \/ RecomputeSystem(k) \/ CompleteNoop(k) \/ RejectCommand(k) \/ PublishCommand(k)
      PROVE EpochsBounded'
  <2>1. CASE EnsureOwned(k)
    BY <2>1 DEF EnsureOwned
  <2>2. CASE AcquireLease(k)
    <3>1. CASE claim' = [claim EXCEPT ![k] = NoClaim]
      BY <2>2, <3>1 DEF AcquireLease, NoClaim, Claiming
    <3>2. CASE claim' = [claim EXCEPT ![k].pc = "leased", ![k].token = drawn + 1]
      BY <2>2, <3>2 DEF AcquireLease, Claiming
    <3> QED
      BY <2>2, <3>1, <3>2, Zenon DEF AcquireLease
  <2>3. CASE FailAcquire(k)
    BY <2>3 DEF FailAcquire, NoClaim
  <2>4. CASE LoadSession(k)
    BY <2>4 DEF LoadSession
  <2>5. CASE AcquireOwnership(k)
    <3>1. CASE claim' = [claim EXCEPT ![k] = NoClaim]
      BY <2>5, <3>1 DEF AcquireOwnership, NoClaim, Release, NoLease
    <3>2. CASE claim' = [claim EXCEPT ![k].pc = "fenced", ![k].epoch = session.epoch + 1]
               /\ UNCHANGED lease
      BY <2>5, <3>2 DEF AcquireOwnership
    <3> QED
      BY <2>5, <3>1, <3>2, Zenon DEF AcquireOwnership
  <2>6. CASE PromoteLease(k)
    <3>1. CASE claim' = [claim EXCEPT ![k] = NoClaim]
      BY <2>6, <3>1 DEF PromoteLease, NoClaim, Ready
    <3>2. CASE claim' = [claim EXCEPT ![k].pc = "promoted"]
      BY <2>6, <3>2 DEF PromoteLease, Ready
    <3> QED
      BY <2>6, <3>1, <3>2, Zenon DEF PromoteLease
  <2>7. CASE AbandonClaim(k)
    BY <2>7 DEF AbandonClaim, NoClaim, Release, NoLease
  <2>8. CASE FinishClaim(k)
    BY <2>8 DEF FinishClaim, NoClaim, Release, NoLease
  <2>9. CASE LoseLease(k)
    BY <2>9 DEF LoseLease, NotHeld
  <2>10. CASE FailRenewal(k)
    BY <2>10 DEF FailRenewal, NotHeld
  <2>11. CASE Close(k)
    BY <2>11 DEF Close, NotHeld
  <2>12. CASE CloseRelease(k)
    BY <2>12 DEF CloseRelease, NotHeld, Release, NoLease
  <2>13. CASE Crash(k)
    BY <2>13 DEF Crash, NotHeld, NoClaim, NoCommand
  <2>14. CASE BeginCommand(k)
    BY <2>14 DEF BeginCommand
  <2>15. CASE CommitCommand(k)
    BY <2>15 DEF CommitCommand, CommandCurrent, Committed
  <2>16. CASE CommitCancel(k)
    BY <2>16 DEF CommitCancel, Committed
  <2>17. CASE RejectCommand(k)
    BY <2>17 DEF RejectCommand, NoCommand
  <2>18. CASE PublishCommand(k)
    BY <2>18 DEF PublishCommand, NoCommand
  <2>19. CASE RecomputeSystem(k)
    BY <2>19 DEF RecomputeSystem
  <2>20. CASE CompleteNoop(k)
    <3>1. CASE command' = [command EXCEPT ![k] = Committed(command[k].token, session.version)]
      BY <2>20, <3>1 DEF CompleteNoop, Committed
    <3>2. CASE command' = [command EXCEPT ![k] = Committed(held[k].token, session.version)]
      BY <2>20, <3>2 DEF CompleteNoop, Committed
    <3> QED
      BY <2>20, <3>1, <3>2, Zenon DEF CompleteNoop
  <2> QED
    BY <1>3, <2>1, <2>2, <2>3, <2>4, <2>5, <2>6, <2>7, <2>8, <2>9,
       <2>10, <2>11, <2>12, <2>13, <2>14, <2>15, <2>16, <2>17, <2>18, <2>19, <2>20, Zenon DEF ClaimStep
<1>4. CASE UNCHANGED vars
  BY <1>4 DEF vars
<1> QED
  BY <1>1, <1>2, <1>3, <1>4 DEF Next

\* A command publishes only the version its transaction committed.
LEMMA VersionsBoundedStep ==
    TypeOK /\ VersionsBounded /\ [Next]_vars => VersionsBounded'
<1> SUFFICES ASSUME TypeOK, VersionsBounded, [Next]_vars PROVE VersionsBounded'
  OBVIOUS
<1> USE DEF TypeOK, VersionsBounded, SessionType, LeaseType, HeldType, ClaimType,
          CommandType, ClaimPC, CommandPC
<1>1. CASE StartAcquire
  BY <1>1 DEF StartAcquire, local, SessionType
<1>2. CASE ExpireLease
  BY <1>2 DEF ExpireLease, local
<1>3. ASSUME NEW k \in Instances,
             \/ EnsureOwned(k) \/ ClaimStep(k)
             \/ LoseLease(k) \/ FailRenewal(k) \/ Close(k) \/ CloseRelease(k) \/ Crash(k)
             \/ BeginCommand(k) \/ CommitCommand(k) \/ CommitCancel(k)
             \/ RecomputeSystem(k) \/ CompleteNoop(k) \/ RejectCommand(k) \/ PublishCommand(k)
      PROVE VersionsBounded'
  <2>1. CASE EnsureOwned(k)
    BY <2>1 DEF EnsureOwned
  <2>2. CASE AcquireLease(k)
    BY <2>2 DEF AcquireLease, NoClaim
  <2>3. CASE FailAcquire(k)
    BY <2>3 DEF FailAcquire, NoClaim
  <2>4. CASE LoadSession(k)
    BY <2>4 DEF LoadSession
  <2>5. CASE AcquireOwnership(k)
    BY <2>5 DEF AcquireOwnership, NoClaim, Release
  <2>6. CASE PromoteLease(k)
    BY <2>6 DEF PromoteLease, NoClaim
  <2>7. CASE AbandonClaim(k)
    BY <2>7 DEF AbandonClaim, NoClaim, Release
  <2>8. CASE FinishClaim(k)
    BY <2>8 DEF FinishClaim, NoClaim, Release
  <2>9. CASE LoseLease(k)
    BY <2>9 DEF LoseLease, NotHeld
  <2>10. CASE FailRenewal(k)
    BY <2>10 DEF FailRenewal, NotHeld
  <2>11. CASE Close(k)
    BY <2>11 DEF Close, NotHeld
  <2>12. CASE CloseRelease(k)
    BY <2>12 DEF CloseRelease, NotHeld, Release
  <2>13. CASE Crash(k)
    BY <2>13 DEF Crash, NotHeld, NoClaim, NoCommand
  <2>14. CASE BeginCommand(k)
    BY <2>14 DEF BeginCommand
  <2>15. CASE CommitCommand(k)
    BY <2>15 DEF CommitCommand, CommandCurrent, Committed
  <2>16. CASE CommitCancel(k)
    BY <2>16 DEF CommitCancel, Committed
  <2>17. CASE RejectCommand(k)
    BY <2>17 DEF RejectCommand, NoCommand
  <2>18. CASE PublishCommand(k)
    BY <2>18 DEF PublishCommand, NoCommand
  <2>19. CASE RecomputeSystem(k)
    BY <2>19 DEF RecomputeSystem
  <2>20. CASE CompleteNoop(k)
    BY <2>20 DEF CompleteNoop, Committed
  <2> QED
    BY <1>3, <2>1, <2>2, <2>3, <2>4, <2>5, <2>6, <2>7, <2>8, <2>9,
       <2>10, <2>11, <2>12, <2>13, <2>14, <2>15, <2>16, <2>17, <2>18, <2>19, <2>20 DEF ClaimStep
<1>4. CASE UNCHANGED vars
  BY <1>4 DEF vars
<1> QED
  BY <1>1, <1>2, <1>3, <1>4 DEF Next

\* The compare-and-set gives every fenced claim an epoch above all others.
LEMMA FencesDistinctStep ==
    TypeOK /\ EpochsBounded /\ ClaimExcludesHeld /\ FencesDistinct /\ [Next]_vars => FencesDistinct'
<1> SUFFICES ASSUME TypeOK, EpochsBounded, ClaimExcludesHeld, FencesDistinct,
      [Next]_vars PROVE FencesDistinct'
  OBVIOUS
<1> USE DEF TypeOK, EpochsBounded, ClaimExcludesHeld, FencesDistinct, Holds, Fenced,
          SessionType, LeaseType, HeldType, ClaimType, CommandType, ClaimPC, CommandPC
<1>1. CASE StartAcquire
  BY <1>1 DEF StartAcquire, local, SessionType
<1>2. CASE ExpireLease
  BY <1>2 DEF ExpireLease, local
<1>3. ASSUME NEW k \in Instances,
             \/ EnsureOwned(k) \/ ClaimStep(k)
             \/ LoseLease(k) \/ FailRenewal(k) \/ Close(k) \/ CloseRelease(k) \/ Crash(k)
             \/ BeginCommand(k) \/ CommitCommand(k) \/ CommitCancel(k)
             \/ RecomputeSystem(k) \/ CompleteNoop(k) \/ RejectCommand(k) \/ PublishCommand(k)
      PROVE FencesDistinct'
  <2>1. CASE EnsureOwned(k)
    BY <2>1 DEF EnsureOwned
  <2>2. CASE AcquireLease(k)
    <3>1. CASE claim' = [claim EXCEPT ![k] = NoClaim]
      BY <2>2, <3>1 DEF AcquireLease, NoClaim
    <3>2. CASE claim' = [claim EXCEPT ![k].pc = "leased", ![k].token = drawn + 1]
      BY <2>2, <3>2 DEF AcquireLease
    <3> QED
      BY <2>2, <3>1, <3>2, Zenon DEF AcquireLease
  <2>3. CASE FailAcquire(k)
    BY <2>3 DEF FailAcquire, NoClaim
  <2>4. CASE LoadSession(k)
    BY <2>4 DEF LoadSession
  <2>5. CASE AcquireOwnership(k)
    <3>1. CASE claim' = [claim EXCEPT ![k] = NoClaim]
      BY <2>5, <3>1 DEF AcquireOwnership, NoClaim, Release
    <3>2. CASE claim' = [claim EXCEPT ![k].pc = "fenced", ![k].epoch = session.epoch + 1]
               /\ UNCHANGED lease
      BY <2>5, <3>2 DEF AcquireOwnership
    <3> QED
      BY <2>5, <3>1, <3>2, Zenon DEF AcquireOwnership
  <2>6. CASE PromoteLease(k)
    <3>1. CASE claim' = [claim EXCEPT ![k] = NoClaim]
      BY <2>6, <3>1 DEF PromoteLease, NoClaim
    <3>2. CASE claim' = [claim EXCEPT ![k].pc = "promoted"]
      BY <2>6, <3>2 DEF PromoteLease
    <3> QED
      BY <2>6, <3>1, <3>2 DEF PromoteLease
  <2>7. CASE AbandonClaim(k)
    BY <2>7 DEF AbandonClaim, NoClaim, Release
  <2>8. CASE FinishClaim(k)
    BY <2>8 DEF FinishClaim, NoClaim, Release
  <2>9. CASE LoseLease(k)
    BY <2>9 DEF LoseLease, NotHeld
  <2>10. CASE FailRenewal(k)
    BY <2>10 DEF FailRenewal, NotHeld
  <2>11. CASE Close(k)
    BY <2>11 DEF Close, NotHeld
  <2>12. CASE CloseRelease(k)
    BY <2>12 DEF CloseRelease, NotHeld, Release
  <2>13. CASE Crash(k)
    BY <2>13 DEF Crash, NotHeld, NoClaim, NoCommand
  <2>14. CASE BeginCommand(k)
    BY <2>14 DEF BeginCommand
  <2>15. CASE CommitCommand(k)
    BY <2>15 DEF CommitCommand
  <2>16. CASE CommitCancel(k)
    BY <2>16 DEF CommitCancel
  <2>17. CASE RejectCommand(k)
    BY <2>17 DEF RejectCommand, NoCommand
  <2>18. CASE PublishCommand(k)
    BY <2>18 DEF PublishCommand, NoCommand
  <2>19. CASE RecomputeSystem(k)
    BY <2>19 DEF RecomputeSystem
  <2>20. CASE CompleteNoop(k)
    BY <2>20, Zenon DEF CompleteNoop
  <2> QED
    BY <1>3, <2>1, <2>2, <2>3, <2>4, <2>5, <2>6, <2>7, <2>8, <2>9,
       <2>10, <2>11, <2>12, <2>13, <2>14, <2>15, <2>16, <2>17, <2>18, <2>19, <2>20, Zenon DEF ClaimStep
<1>4. CASE UNCHANGED vars
  BY <1>4 DEF vars
<1> QED
  BY <1>1, <1>2, <1>3, <1>4, Zenon DEF Next

\* An absent key is nobody's claiming value.
LEMMA AbsentIsNotClaiming == \A i \in Instances : \A t : NoLease # Claiming(i, t)
BY OwnerAssumption DEF NoLease, Claiming

\* Different claimants write different values.
LEMMA ClaimingInjective ==
    \A i, j \in Instances : \A s, t : Claiming(i, s) = Claiming(j, t) => i = j /\ s = t
BY DEF Claiming

\* A routable value is not a claiming one.
LEMMA ReadyIsNotClaiming ==
    \A i, j \in Instances : \A s, t, e : Ready(i, s, e) # Claiming(j, t)
BY DEF Claiming, Ready

\* Only the claim that wrote the claiming value can be promoted over it.
LEMMA FenceBeatsHoldersStep ==
    TypeOK /\ EpochsBounded /\ ClaimExcludesHeld /\ FenceBeatsHolders
        /\ [Next]_vars => FenceBeatsHolders'
<1> SUFFICES ASSUME TypeOK, EpochsBounded, ClaimExcludesHeld, FenceBeatsHolders,
      [Next]_vars PROVE FenceBeatsHolders'
  OBVIOUS
<1> USE DEF TypeOK, EpochsBounded, ClaimExcludesHeld, FenceBeatsHolders, Holds, Fenced,
          Promoted, SessionType, LeaseType, HeldType, ClaimType, CommandType, ClaimPC,
          CommandPC
<1>1. CASE StartAcquire
  BY <1>1, Zenon DEF StartAcquire, local, SessionType
<1>2. CASE ExpireLease
  BY <1>2, AbsentIsNotClaiming DEF ExpireLease, local
<1>3. ASSUME NEW k \in Instances,
             \/ EnsureOwned(k) \/ ClaimStep(k)
             \/ LoseLease(k) \/ FailRenewal(k) \/ Close(k) \/ CloseRelease(k) \/ Crash(k)
             \/ BeginCommand(k) \/ CommitCommand(k) \/ CommitCancel(k)
             \/ RecomputeSystem(k) \/ CompleteNoop(k) \/ RejectCommand(k) \/ PublishCommand(k)
      PROVE FenceBeatsHolders'
  <2>1. CASE EnsureOwned(k)
    BY <2>1 DEF EnsureOwned
  <2>2. CASE AcquireLease(k)
    <3>1. CASE claim' = [claim EXCEPT ![k] = NoClaim]
      BY <2>2, <3>1, ClaimingInjective DEF AcquireLease, NoClaim
    <3>2. CASE claim' = [claim EXCEPT ![k].pc = "leased", ![k].token = drawn + 1]
      BY <2>2, <3>2, ClaimingInjective DEF AcquireLease
    <3> QED
      BY <2>2, <3>1, <3>2, Zenon DEF AcquireLease
  <2>3. CASE FailAcquire(k)
    BY <2>3 DEF FailAcquire, NoClaim
  <2>4. CASE LoadSession(k)
    <3>1. claim'[k].pc = "loaded"
      BY <2>4 DEF LoadSession
    <3>2. \A j \in Instances \ {k} : claim'[j] = claim[j]
      BY <2>4 DEF LoadSession
    <3>3. UNCHANGED <<held, lease>>
      BY <2>4 DEF LoadSession
    <3> HIDE DEF TypeOK, SessionType, LeaseType, HeldType, ClaimType, CommandType
    <3> QED
      BY <3>1, <3>2, <3>3, ZenonT(40)
  <2>5. CASE AcquireOwnership(k)
    <3>1. CASE claim' = [claim EXCEPT ![k] = NoClaim]
      BY <2>5, <3>1, AbsentIsNotClaiming DEF AcquireOwnership, NoClaim, Release
    <3>2. CASE claim' = [claim EXCEPT ![k].pc = "fenced", ![k].epoch = session.epoch + 1]
               /\ UNCHANGED lease
      <4>1. claim'[k].pc = "fenced" /\ claim'[k].epoch = session.epoch + 1
        BY <3>2
      <4>2. \A i \in Instances \ {k} : claim'[i] = claim[i]
        BY <3>2
      <4>3. UNCHANGED <<held, lease>>
        BY <2>5, <3>2 DEF AcquireOwnership
      <4>4. \A j \in Instances : Holds(j) => held[j].epoch < session.epoch + 1
        OBVIOUS
      <4>5. \A j \in Instances : Promoted(j) => claim[j].epoch < session.epoch + 1
        OBVIOUS
      <4> SUFFICES ASSUME NEW i \in Instances, NEW j \in Instances, i # j,
                          claim'[i].pc = "fenced", lease' = Claiming(i, claim'[i].token)
                   PROVE  /\ Holds(j)' => held'[j].epoch < claim'[i].epoch
                          /\ Promoted(j)' => claim'[j].epoch < claim'[i].epoch
        OBVIOUS
      <4>6. CASE i = k
        BY <4>1, <4>2, <4>3, <4>4, <4>5, <4>6
      <4>7. CASE i # k /\ j = k
        BY <4>1, <4>2, <4>3, <4>7, ZenonT(40)
      <4>8. CASE i # k /\ j # k
        BY <4>2, <4>3, <4>8, Zenon
      <4> QED
        BY <4>6, <4>7, <4>8
    <3> QED
      BY <2>5, <3>1, <3>2, Zenon DEF AcquireOwnership
  <2>6. CASE PromoteLease(k)
    <3>1. \A i \in Instances : \A t : lease' # Claiming(i, t)
      BY <2>6, ReadyIsNotClaiming DEF PromoteLease
    <3> QED
      BY <3>1
  <2>7. CASE AbandonClaim(k)
    BY <2>7, AbsentIsNotClaiming DEF AbandonClaim, NoClaim, Release
  <2>8. CASE FinishClaim(k)
    BY <2>8, AbsentIsNotClaiming DEF FinishClaim, NoClaim, Release
  <2>9. CASE LoseLease(k)
    BY <2>9, ZenonT(40) DEF LoseLease, NotHeld
  <2>10. CASE FailRenewal(k)
    BY <2>10, ZenonT(40) DEF FailRenewal, NotHeld
  <2>11. CASE Close(k)
    BY <2>11, ZenonT(40) DEF Close, NotHeld
  <2>12. CASE CloseRelease(k)
    <3>1. UNCHANGED <<held, claim>>
      BY <2>12 DEF CloseRelease
    <3>2. \A i \in Instances : \A t : lease' = Claiming(i, t) => UNCHANGED lease
      BY <2>12, AbsentIsNotClaiming DEF CloseRelease, Release
    <3> HIDE DEF TypeOK, SessionType, LeaseType, HeldType, ClaimType, CommandType
    <3> QED
      BY <3>1, <3>2 DEF FenceBeatsHolders
  <2>13. CASE Crash(k)
    BY <2>13 DEF Crash, NotHeld, NoClaim, NoCommand
  <2>14. CASE BeginCommand(k)
    BY <2>14 DEF BeginCommand
  <2>15. CASE CommitCommand(k)
    BY <2>15 DEF CommitCommand
  <2>16. CASE CommitCancel(k)
    BY <2>16, Zenon DEF CommitCancel
  <2>17. CASE RejectCommand(k)
    BY <2>17, Zenon DEF RejectCommand, NoCommand
  <2>18. CASE PublishCommand(k)
    BY <2>18, Zenon DEF PublishCommand, NoCommand
  <2>19. CASE RecomputeSystem(k)
    BY <2>19, Zenon DEF RecomputeSystem
  <2>20. CASE CompleteNoop(k)
    BY <2>20, Zenon DEF CompleteNoop
  <2> QED
    BY <1>3, <2>1, <2>2, <2>3, <2>4, <2>5, <2>6, <2>7, <2>8, <2>9,
       <2>10, <2>11, <2>12, <2>13, <2>14, <2>15, <2>16, <2>17, <2>18, <2>19, <2>20, Zenon DEF ClaimStep
<1>4. CASE UNCHANGED vars
  BY <1>4, Zenon DEF vars
<1> QED
  BY <1>1, <1>2, <1>3, <1>4, Zenon DEF Next

\* A promotion writes an epoch above every other owner's.
LEMMA RouteBeatsHoldersStep ==
    TypeOK /\ EpochsBounded /\ ClaimExcludesHeld /\ FenceBeatsHolders /\ RouteBeatsHolders
        /\ [Next]_vars => RouteBeatsHolders'
<1> SUFFICES ASSUME TypeOK, EpochsBounded, ClaimExcludesHeld, FenceBeatsHolders,
      RouteBeatsHolders, [Next]_vars PROVE RouteBeatsHolders'
  OBVIOUS
<1> USE DEF TypeOK, EpochsBounded, ClaimExcludesHeld, FenceBeatsHolders,
          RouteBeatsHolders, Holds, Fenced, Promoted, SessionType, LeaseType, HeldType,
          ClaimType, CommandType, ClaimPC, CommandPC
<1>1. CASE StartAcquire
  BY <1>1 DEF StartAcquire, local, SessionType
<1>2. CASE ExpireLease
  BY <1>2 DEF ExpireLease, local, NoLease
<1>3. ASSUME NEW k \in Instances,
             \/ EnsureOwned(k) \/ ClaimStep(k)
             \/ LoseLease(k) \/ FailRenewal(k) \/ Close(k) \/ CloseRelease(k) \/ Crash(k)
             \/ BeginCommand(k) \/ CommitCommand(k) \/ CommitCancel(k)
             \/ RecomputeSystem(k) \/ CompleteNoop(k) \/ RejectCommand(k) \/ PublishCommand(k)
      PROVE RouteBeatsHolders'
  <2>1. CASE EnsureOwned(k)
    BY <2>1 DEF EnsureOwned
  <2>2. CASE AcquireLease(k)
    <3>1. CASE claim' = [claim EXCEPT ![k] = NoClaim]
      BY <2>2, <3>1 DEF AcquireLease, NoClaim, Claiming
    <3>2. CASE claim' = [claim EXCEPT ![k].pc = "leased", ![k].token = drawn + 1]
      BY <2>2, <3>2 DEF AcquireLease, Claiming
    <3> QED
      BY <2>2, <3>1, <3>2, Zenon DEF AcquireLease
  <2>3. CASE FailAcquire(k)
    BY <2>3 DEF FailAcquire, NoClaim
  <2>4. CASE LoadSession(k)
    BY <2>4 DEF LoadSession
  <2>5. CASE AcquireOwnership(k)
    <3>1. CASE claim' = [claim EXCEPT ![k] = NoClaim]
      BY <2>5, <3>1 DEF AcquireOwnership, NoClaim, Release, NoLease
    <3>2. CASE claim' = [claim EXCEPT ![k].pc = "fenced", ![k].epoch = session.epoch + 1]
               /\ UNCHANGED lease
      BY <2>5, <3>2 DEF AcquireOwnership
    <3> QED
      BY <2>5, <3>1, <3>2, Zenon DEF AcquireOwnership
  <2>6. CASE PromoteLease(k)
    <3>1. lease' = Ready(k, claim[k].token, claim[k].epoch) /\ UNCHANGED held /\ held[k].token = 0
      BY <2>6 DEF PromoteLease
    <3>2. lease'.token = claim[k].token /\ lease'.epoch = claim[k].epoch
      BY <3>1 DEF Ready
    <3>3. \A j \in Instances \ {k} :
              /\ claim'[j] = claim[j]
              /\ Holds(j) => held[j].epoch < claim[k].epoch
              /\ Promoted(j) => claim[j].epoch < claim[k].epoch
      BY <2>6 DEF PromoteLease
    <3>4. claim'[k].pc = "promoted" => claim'[k].token = claim[k].token
      BY <2>6 DEF PromoteLease, NoClaim
    <3> QED
      BY <3>1, <3>2, <3>3, <3>4
  <2>7. CASE AbandonClaim(k)
    BY <2>7 DEF AbandonClaim, NoClaim, Release, NoLease
  <2>8. CASE FinishClaim(k)
    BY <2>8 DEF FinishClaim, NoClaim, Release, NoLease
  <2>9. CASE LoseLease(k)
    BY <2>9 DEF LoseLease, NotHeld
  <2>10. CASE FailRenewal(k)
    BY <2>10 DEF FailRenewal, NotHeld
  <2>11. CASE Close(k)
    BY <2>11 DEF Close, NotHeld
  <2>12. CASE CloseRelease(k)
    BY <2>12 DEF CloseRelease, NotHeld, Release, NoLease
  <2>13. CASE Crash(k)
    BY <2>13 DEF Crash, NotHeld, NoClaim, NoCommand
  <2>14. CASE BeginCommand(k)
    BY <2>14 DEF BeginCommand
  <2>15. CASE CommitCommand(k)
    BY <2>15 DEF CommitCommand
  <2>16. CASE CommitCancel(k)
    BY <2>16 DEF CommitCancel
  <2>17. CASE RejectCommand(k)
    BY <2>17 DEF RejectCommand, NoCommand
  <2>18. CASE PublishCommand(k)
    BY <2>18 DEF PublishCommand, NoCommand
  <2>19. CASE RecomputeSystem(k)
    BY <2>19, Zenon DEF RecomputeSystem
  <2>20. CASE CompleteNoop(k)
    BY <2>20, Zenon DEF CompleteNoop
  <2> QED
    BY <1>3, <2>1, <2>2, <2>3, <2>4, <2>5, <2>6, <2>7, <2>8, <2>9,
       <2>10, <2>11, <2>12, <2>13, <2>14, <2>15, <2>16, <2>17, <2>18, <2>19, <2>20, Zenon DEF ClaimStep
<1>4. CASE UNCHANGED vars
  BY <1>4 DEF vars
<1> QED
  BY <1>1, <1>2, <1>3, <1>4, Zenon DEF Next

\* IInv holds initially, since nobody owns the session.
LEMMA InitIInv == Init => IInv
<1> SUFFICES ASSUME Init PROVE IInv
  OBVIOUS
<1>1. TypeOK
  BY EmptyValues DEF Init, TypeOK, SessionType
<1> QED
  BY <1>1 DEF Init, IInv, EpochsBounded, ClaimExcludesHeld, FencesDistinct, FenceBeatsHolders,
              RouteBeatsHolders, VersionsBounded, Holds, Fenced, Promoted,
              NoLease, NotHeld, NoClaim, NoCommand

\* Every step preserves IInv.
LEMMA NextIInv == IInv /\ [Next]_vars => IInv'
BY TypeStep, EpochsBoundedStep, ClaimExcludesHeldStep, FencesDistinctStep,
   FenceBeatsHoldersStep, RouteBeatsHoldersStep, VersionsBoundedStep DEF IInv

\* Every reachable state satisfies IInv.
THEOREM Invariance == Spec => []IInv
BY InitIInv, NextIInv, PTL DEF Spec

-----------------------------------------------------------------------------
(* What follows from it.                                                   *)

\* Two processes never hold a session with the same fencing epoch, however
\* many processes race and however often Redis loses the key.
THEOREM DistinctEpochsHolds == Spec => []DistinctEpochs
<1>1. IInv => DistinctEpochs
  BY DEF IInv, FencesDistinct, DistinctEpochs
<1> QED
  BY <1>1, Invariance, PTL

\* The route that PromoteSessionLease wrote is newer than every other holder.
THEOREM RouteIsNewestHolds == Spec => []RouteIsNewest
<1>1. IInv => RouteIsNewest
  BY DEF IInv, RouteBeatsHolders, RouteIsNewest
<1> QED
  BY <1>1, Invariance, PTL

\* Subscribers are only told of versions that PostgreSQL committed.
THEOREM FanoutIsCommittedHolds == Spec => []FanoutIsCommitted
<1>1. IInv => FanoutIsCommitted
  BY DEF IInv, VersionsBounded, FanoutIsCommitted
<1> QED
  BY <1>1, Invariance, PTL

\* No action, timer or cancellation commits under an epoch older than the
\* route's or a holder's, and a system command commits only what it computed
\* from a row of the newest owner.
THEOREM SupersededNeverCommitsHolds == Spec => SupersededNeverCommits
<1> DEFINE Fence == \A i \in Instances : Commits(i) =>
              ~Superseded(IF command[i].kind = "system" THEN command[i].epoch ELSE command[i].began)
<1>1. ASSUME IInv, [Next]_vars, NEW i \in Instances, Commits(i)
      PROVE  session.epoch = command[i].epoch
  <2> USE DEF Commits
  <2>1. ASSUME NEW k \in Instances, CommitCommand(k) \/ CommitCancel(k)
        PROVE  session.epoch = command[i].epoch
    <3>1. \A j \in Instances \ {k} : command'[j] = command[j]
      BY <1>1, <2>1 DEF CommitCommand, CommitCancel, IInv, TypeOK
    <3>2. i = k
      BY <1>1, <3>1
    <3> QED
      BY <2>1, <3>2 DEF CommitCommand, CommitCancel, CommandCurrent
  <2>2. ASSUME NEW k \in Instances,
               BeginCommand(k) \/ RecomputeSystem(k) \/ CompleteNoop(k)
                   \/ RejectCommand(k) \/ PublishCommand(k) \/ Crash(k)
        PROVE  UNCHANGED session
    BY <2>2, Zenon DEF BeginCommand, RecomputeSystem, CompleteNoop, RejectCommand, PublishCommand, Crash
  <2>3. CASE UNCHANGED command
    BY <1>1, <2>3
  <2> QED
    BY <1>1, <2>1, <2>2, <2>3, ZenonT(40)
    DEF Next, vars, ClaimStep, StartAcquire, local, ExpireLease, EnsureOwned, AcquireLease,
        FailAcquire, LoadSession, AcquireOwnership, PromoteLease, AbandonClaim, FinishClaim,
        LoseLease, FailRenewal, Close, CloseRelease
<1>2. IInv /\ [Next]_vars => Fence
  <2> SUFFICES ASSUME IInv, [Next]_vars, NEW i \in Instances, Commits(i)
               PROVE  ~Superseded(IF command[i].kind = "system" THEN command[i].epoch
                                                                ELSE command[i].began)
    BY Zenon
  <2>1. session.epoch = command[i].epoch
    BY <1>1
  <2>2. command[i].kind # "system" => command[i].began = command[i].epoch
    BY DEF IInv, EpochsBounded, Commits
  <2>3. ~Superseded(session.epoch)
    BY DEF IInv, EpochsBounded, Superseded, TypeOK, SessionType, LeaseType, HeldType
  <2> QED
    BY <2>1, <2>2, <2>3
<1>3. IInv /\ [Next]_vars => [Fence]_vars
  BY <1>2
<1> QED
  BY <1>3, Invariance, PTL DEF Spec, SupersededNeverCommits
=============================================================================
