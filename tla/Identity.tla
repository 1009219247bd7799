------------------------------- MODULE Identity -------------------------------
(***************************************************************************)
(* The secrets of one user: the devices that are signed in, the recovery     *)
(* code, and the encrypted answers kept so that a request whose answer was   *)
(* lost can be sent again.  Most requests check the caller in a transaction, *)
(* hash a new secret without one, and commit in a second transaction; the    *)
(* same request may be running twice, and any answer may be lost.            *)
(***************************************************************************)
EXTENDS AdminAccounts, Sequences

CONSTANTS Holder,       \* the user that is followed
          Operations,   \* what the person may ask for: a set of [kind, id, revokes]
          MaxServing    \* bound on the requests served at the same time

ASSUME IdentityAssumption ==
    /\ Holder \in Users
    /\ MaxServing \in Nat

VARIABLES codes,        \* the statuses of the user_recovery_credentials rows, oldest first
          devices,      \* the device_credentials rows, oldest first
          attempts,     \* the user_recovery_attempts rows, oldest first
          results,      \* the secret_operation_results row of each operation
          serving,      \* the requests between their two transactions; one may be there twice
          known,        \* the secrets the person holds
          answered      \* the answers that arrived (history)

identityVars == <<codes, devices, attempts, results, serving, known, answered>>

(* secret counts the secrets of the device; the one before is still good in  *)
(* the grace period.  A device is due for a new secret after 30 days.        *)
(* revoked is the reason of the revocation, "none" while there is none.       *)
NewDevice == [secret |-> 1, grace |-> FALSE, due |-> FALSE, revoked |-> "none"]

(* What an answer carries: 0 where it has no such secret. *)
NoSecrets == [code |-> 0, device |-> 0, secret |-> 0]
NoRequest == [pc |-> "none"]
Slots == 1 .. MaxServing
NoResult == [state |-> "none", secrets |-> NoSecrets]

Status == accounts[Holder].status
Wanted == {op \in Operations : results[op].state # "unasked"}

(* The person has one device, and a recovery code once onboarding is over.   *)
(* A user who has not finished onboarding is removed after a day, before the *)
(* device is due.                                                            *)
IdentityInit(wanted) ==
    /\ codes = IF Status = "onboarding" THEN <<>> ELSE <<"active">>
    /\ devices = <<[NewDevice EXCEPT !.due = Status # "onboarding"]>>
    /\ attempts = <<>>
    /\ results = [op \in Operations |-> IF op \in wanted THEN NoResult ELSE [NoResult EXCEPT !.state = "unasked"]]
    /\ serving = [k \in Slots |-> NoRequest]
    /\ known = [codes |-> DOMAIN codes, devices |-> {<<1, 1>>}, grants |-> {}]
    /\ answered = {}

-----------------------------------------------------------------------------
(* The checks.                                                               *)

Live(d) == devices[d].revoked = "none"

(* authenticateSensitiveDevice: only the current secret of a live device.    *)
Sensitive(d, s) == Live(d) /\ devices[d].secret = s

(* Authenticate also takes the previous secret in its grace period.          *)
Authentic(d, s) == \/ Sensitive(d, s)
                   \/ Live(d) /\ devices[d].grace /\ devices[d].secret = s + 1

(* Mutant: a consumed attempt authorizes nothing any more. *)
AuthorizedUnused(a) == attempts[a].open /\ attempts[a].state = "active"

Authorized(a) == attempts[a].open /\ attempts[a].state \in {"active", "consumed"}

Exists(op) == results[op].state \in {"available", "confirmed", "expired"}
Openable(op) == results[op].state = "available"

(* cookieWrite: the secret in the answer is still the device's current one.  *)
Writable(op) == Sensitive(results[op].secrets.device, results[op].secrets.secret)

-----------------------------------------------------------------------------
(* What a request does with its own state and with the answer.               *)

(* Slots are taken in their order. *)
Serve(r) == \E k \in Slots :
    /\ serving[k] = NoRequest
    /\ \A m \in 1 .. k - 1 : serving[m] # NoRequest
    /\ serving' = [serving EXCEPT ![k] = r]

Finish(k) == serving' = [serving EXCEPT ![k] = NoRequest]

Learned(secrets) ==
    [known EXCEPT !.codes = (@ \cup {secrets.code}) \ {0},
                  !.devices = IF secrets.device = 0 THEN @ ELSE @ \cup {<<secrets.device, secrets.secret>>}]

(* The answer arrives, or it is lost. *)
Answer(op, secrets) ==
    \/ known' = Learned(secrets) /\ answered' = answered \cup {[op |-> op, secrets |-> secrets]}
    \/ UNCHANGED <<known, answered>>

Replay(op) == Answer(op, results[op].secrets) /\ UNCHANGED <<codes, devices, attempts, results>>

(* The request ends with an error. *)
Refuse == UNCHANGED <<codes, devices, attempts, results, known, answered>>

Commit(op, secrets) ==
    /\ results' = [results EXCEPT ![op] = [state |-> "available", secrets |-> secrets]]
    /\ Answer(op, secrets)

(* The active code is retired and a new one takes its place. *)
Recoded(retired) == Append([c \in DOMAIN codes |-> IF codes[c] = "active" THEN retired ELSE codes[c]], "active")
NewCode == Len(codes) + 1
HasCode == \E c \in DOMAIN codes : codes[c] = "active"

-----------------------------------------------------------------------------
(* CompleteOnboarding and RotateRecoveryCode.                                *)

(* The first transaction: a stored result is returned from it by onboarding, *)
(* where the previous secret of the device does for a replay as well.        *)
resolveOnboardingResult(op, d, s) ==
    /\ op.kind = "onboard"
    /\ Authentic(d, s)
    /\ IF Exists(op)
         THEN /\ IF Openable(op) THEN Replay(op) ELSE Refuse
              /\ UNCHANGED serving
         ELSE /\ Sensitive(d, s)
              /\ Serve([pc |-> "onboard", op |-> op, device |-> d, secret |-> s])
              /\ Refuse
    /\ UNCHANGED accountVars

CompleteOnboarding(k) ==
    /\ serving[k].pc = "onboard"
    /\ LET op == serving[k].op
           Authorizes == Sensitive(serving[k].device, serving[k].secret)
       IN  \/ /\ Authorizes /\ Openable(op)
              /\ Replay(op) /\ UNCHANGED accounts
           \/ /\ Authorizes /\ ~ Exists(op) /\ Status = "onboarding"
              /\ accounts' = [accounts EXCEPT ![Holder].status = "active", ![Holder].version = @ + 1]
              /\ codes' = Append(codes, "active")
              /\ Commit(op, [NoSecrets EXCEPT !.code = NewCode])
              /\ UNCHANGED <<devices, attempts>>
           \/ /\ \/ ~ Authorizes
                 \/ Exists(op) /\ ~ Openable(op)
                 \/ ~ Exists(op) /\ Status # "onboarding"
              /\ Refuse /\ UNCHANGED accounts
    /\ Finish(k)
    /\ UNCHANGED <<made, budget>>

AuthorizeRotation(op, d, s) ==
    /\ op.kind = "rotate"
    /\ Sensitive(d, s)
    /\ Status = "active"
    /\ Serve([pc |-> "rotate", op |-> op, device |-> d, secret |-> s])
    /\ Refuse
    /\ UNCHANGED accountVars

(* Mutant: the second transaction does not look for the operation's result. *)
RotateAlways(k) ==
    /\ serving[k].pc = "rotate"
    /\ codes' = Recoded("revoked")
    /\ Commit(serving[k].op, [NoSecrets EXCEPT !.code = NewCode])
    /\ Finish(k)
    /\ UNCHANGED <<devices, attempts, accountVars>>

RotateRecoveryCode(k) ==
    /\ serving[k].pc = "rotate"
    /\ LET op == serving[k].op
           Authorizes == Status = "active" /\ Sensitive(serving[k].device, serving[k].secret)
       IN  \/ Authorizes /\ Openable(op) /\ Replay(op)
           \/ /\ Authorizes /\ ~ Exists(op) /\ HasCode
              /\ codes' = Recoded("revoked")
              /\ Commit(op, [NoSecrets EXCEPT !.code = NewCode])
              /\ UNCHANGED <<devices, attempts>>
           \/ /\ \/ ~ Authorizes
                 \/ Exists(op) /\ ~ Openable(op)
                 \/ ~ Exists(op) /\ ~ HasCode
              /\ Refuse
    /\ Finish(k)
    /\ UNCHANGED accountVars

-----------------------------------------------------------------------------
(* Recovery: a code begins an attempt, the attempt's grant completes it.     *)

(* An attempt is begun for each of the wanted recoveries (bound).            *)
lookupRecoverySource(c) ==
    /\ c \in known.codes
    /\ codes[c] = "active"
    /\ Status = "active"
    /\ Len(attempts) + Cardinality({k \in Slots : serving[k] = [pc |-> "begin", code |-> c]})
         < Cardinality({op \in Wanted : op.kind = "recover"})
    /\ Serve([pc |-> "begin", code |-> c])
    /\ Refuse
    /\ UNCHANGED accountVars

BeginRecovery(k) ==
    /\ serving[k].pc = "begin"
    /\ LET c == serving[k].code
       IN  \/ /\ Status = "active" /\ codes[c] = "active"
              /\ attempts' = Append(attempts, [code |-> c, state |-> "active", open |-> TRUE, ops |-> {}])
              /\ \E arrived \in BOOLEAN :
                   known' = [known EXCEPT !.grants = IF arrived THEN @ \cup {Len(attempts) + 1} ELSE @]
              /\ UNCHANGED <<codes, devices, results, answered>>
           \/ (Status # "active" \/ codes[c] # "active") /\ Refuse
    /\ Finish(k)
    /\ UNCHANGED accountVars

authorizeRecoveryAttempt(op, a) ==
    /\ op.kind = "recover"
    /\ a \in known.grants
    /\ Authorized(a)
    /\ Status = "active"
    /\ Serve([pc |-> "recover", op |-> op, attempt |-> a])
    /\ Refuse
    /\ UNCHANGED accountVars

(* A consumed attempt answers only for the operation that consumed it.       *)
CanReplay(op, a) ==
    /\ Authorized(a)
    /\ attempts[a].state = "consumed" /\ op \in attempts[a].ops
    /\ Openable(op) /\ Writable(op)

(* Mutant: the code of the attempt is not read again. *)
SourceAsBegun(a) == TRUE

SourceActive(a) == codes[attempts[a].code] = "active"

CanRecover(op, a) ==
    /\ Authorized(a)
    /\ attempts[a].state = "active"
    /\ SourceActive(a)
    /\ ~ Exists(op)

(* Mutant: the second transaction trusts the user it read in the first. *)
CurrentUserAsRead == TRUE

CurrentUserActive == Status = "active"

HasDevice == \E d \in DOMAIN devices : Live(d)
RevokedAll(reason) == [d \in DOMAIN devices |-> IF Live(d) THEN [devices[d] EXCEPT !.revoked = reason] ELSE devices[d]]

CompleteRecovery(k) ==
    /\ serving[k].pc = "recover"
    /\ LET op == serving[k].op
           a == serving[k].attempt
       IN  \/ CurrentUserActive /\ CanReplay(op, a) /\ Replay(op)
           \/ /\ CurrentUserActive /\ CanRecover(op, a)
              /\ codes' = Recoded("consumed")
              /\ devices' = Append(IF op.revokes THEN RevokedAll("recovery") ELSE devices, NewDevice)
              /\ attempts' = [attempts EXCEPT ![a].state = "consumed", ![a].ops = {op}]
              /\ Commit(op, [code |-> NewCode, device |-> Len(devices) + 1, secret |-> 1])
           \/ ~ (CurrentUserActive /\ (CanReplay(op, a) \/ CanRecover(op, a))) /\ Refuse
    /\ Finish(k)
    /\ UNCHANGED accountVars

-----------------------------------------------------------------------------
(* BootstrapIdentity with a device: its secret is replaced when it is due.   *)
(* The first use is one transaction; a replay opens the result in one and    *)
(* checks the device again in another.                                       *)

bootstrapExistingIdentity(op, d, s) ==
    /\ op.kind = "renew"
    /\ results[op].state = "none"
    /\ Sensitive(d, s)
    /\ Status \in {"onboarding", "active"}
    /\ devices[d].due
    /\ devices' = [devices EXCEPT ![d].secret = s + 1, ![d].grace = TRUE, ![d].due = FALSE]
    /\ Commit(op, [NoSecrets EXCEPT !.device = d, !.secret = s + 1])
    /\ UNCHANGED <<codes, attempts, serving, accountVars>>

getBootstrapReplayResult(op, d, s) ==
    /\ op.kind = "renew"
    /\ Openable(op)
    /\ results[op].secrets.device = d
    /\ Serve([pc |-> "renew", op |-> op, device |-> d, secret |-> s])
    /\ Refuse
    /\ UNCHANGED accountVars

openBootstrapReplay(k) ==
    /\ serving[k].pc = "renew"
    /\ LET op == serving[k].op
           Authorizes == Authentic(serving[k].device, serving[k].secret) /\ Writable(op)
       IN  IF Authorizes THEN Replay(op) ELSE Refuse
    /\ Finish(k)
    /\ UNCHANGED accountVars

-----------------------------------------------------------------------------
(* The requests that are one transaction.                                    *)

ConfirmSecretReceipt(op, d, s) ==
    /\ \E answer \in answered : answer.op = op
    /\ Openable(op)
    /\ Sensitive(d, s)
    /\ Status \in (IF op.kind = "renew" THEN {"onboarding", "active"} ELSE {"active"})
    /\ results' = [results EXCEPT ![op].state = "confirmed"]
    /\ UNCHANGED <<codes, devices, attempts, serving, known, answered, accountVars>>

(* The target of the request is its id. *)
RevokeDevice(op, d, s) ==
    /\ op.kind = "revoke"
    /\ Status = "active"
    /\ Sensitive(d, s)
    /\ op.id \in DOMAIN devices /\ Live(op.id)
    /\ devices' = [devices EXCEPT ![op.id].revoked = "user_requested"]
    /\ UNCHANGED <<codes, attempts, results, serving, known, answered, accountVars>>

-----------------------------------------------------------------------------
(* Time.  An attempt lives 5 minutes from its beginning, a result 10 minutes *)
(* from its completion, the previous secret of a device 2 minutes.           *)

GraceEnds(d) ==
    /\ devices[d].grace
    /\ devices' = [devices EXCEPT ![d].grace = FALSE]
    /\ UNCHANGED <<codes, attempts, results, serving, known, answered, accountVars>>

AttemptExpires(a) ==
    /\ attempts[a].open
    /\ attempts' = [attempts EXCEPT ![a].open = FALSE]
    /\ UNCHANGED <<codes, devices, results, serving, known, answered, accountVars>>

ResultExpires(op) ==
    /\ Openable(op)
    /\ \A a \in DOMAIN attempts : op \in attempts[a].ops => ~ attempts[a].open
    /\ op.kind = "renew" => ~ devices[results[op].secrets.device].grace
    /\ results' = [results EXCEPT ![op].state = "expired"]
    /\ UNCHANGED <<codes, devices, attempts, serving, known, answered, accountVars>>

-----------------------------------------------------------------------------
(* Requests are served only where the person has something to ask for. *)
IdentityStep ==
    /\ Wanted # {}
    /\ \/ \E k \in Slots :
            \/ CompleteOnboarding(k) \/ RotateRecoveryCode(k)
            \/ BeginRecovery(k) \/ CompleteRecovery(k) \/ openBootstrapReplay(k)
       \/ \E c \in known.codes : lookupRecoverySource(c)
       \/ \E op \in Wanted, a \in known.grants : authorizeRecoveryAttempt(op, a)
       \/ \E op \in Wanted, key \in known.devices :
            LET d == key[1]
                s == key[2]
            IN  \/ resolveOnboardingResult(op, d, s) \/ AuthorizeRotation(op, d, s)
                \/ getBootstrapReplayResult(op, d, s) \/ bootstrapExistingIdentity(op, d, s)
                \/ ConfirmSecretReceipt(op, d, s) \/ RevokeDevice(op, d, s)
       \/ \E d \in DOMAIN devices : GraceEnds(d)
       \/ \E a \in DOMAIN attempts : AttemptExpires(a)
       \/ \E op \in Wanted : ResultExpires(op)
=============================================================================
