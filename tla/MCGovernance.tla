----------------------------- MODULE MCGovernance -----------------------------
(***************************************************************************)
(* Two users, two workers, two handlers.  An initial state chooses what the  *)
(* administrator and the first user ask for and how much goes wrong, so that *)
(* each combination is explored in full without the product of all of them.  *)
(***************************************************************************)
EXTENDS Governance

CONSTANTS w1, w2, a1, a2

Suspend12 == 1
Remove1 == 2
Unsuspend2 == 3
MCBatches == <<[change |-> "suspend", users |-> {1, 2}],
               [change |-> "remove", users |-> {1}],
               [change |-> "unsuspend", users |-> {2}]>>

Delete1 == [change |-> "delete", user |-> 1]
Suspend1 == [change |-> "suspend", user |-> 1]
Unsuspend2C == [change |-> "unsuspend", user |-> 2]
Remove1C == [change |-> "remove", user |-> 1]
Revoke1 == [change |-> "revoke", user |-> 1]
MCCommands == {Delete1, Suspend1, Unsuspend2C, Remove1C, Revoke1}

Operation(kind, id, revokes) == [kind |-> kind, id |-> id, revokes |-> revokes]
Onboard == Operation("onboard", 1, FALSE)
Rotate == Operation("rotate", 1, FALSE)
Renew == Operation("renew", 1, FALSE)
RecoverKeep == Operation("recover", 1, FALSE)
RecoverAlone == Operation("recover", 2, TRUE)
SignOut1 == Operation("revoke", 1, FALSE)
MCOperations == {Onboard, Rotate, Renew, RecoverKeep, RecoverAlone, SignOut1}

MCUsers == {1, 2}
Active == <<"active", "active">>
Suspended1 == <<"suspended", "active">>
Suspended2 == <<"active", "suspended">>
Onboarding1 == <<"onboarding", "active">>

Budget(f, o, r) == [faults |-> f, others |-> o, requests |-> r]

Administration(js, cs, status, bound, ws) ==
    [jobs |-> js, commands |-> cs, operations |-> {}, status |-> status, bound |-> bound, workers |-> ws,
     callers |-> {a1, a2}]

(* Nothing goes wrong but the answers; a worker is up where there is an    *)
(* erasure to do.                                                          *)
Person(ops, cs, status) ==
    [jobs |-> {}, commands |-> cs, operations |-> ops, status |-> status, bound |-> Budget(0, 0, 0),
     workers |-> IF Delete1 \in cs THEN {w1} ELSE {}, callers |-> {a1, a2}]

MCWorkloads ==
    {Administration({Suspend12}, {}, Suspended1, Budget(0, 0, 2), {w1}),
     Administration({Suspend12}, {}, Active, Budget(1, 0, 1), {w1, w2}),
     Administration({Suspend12}, {Delete1}, Active, Budget(0, 0, 0), {w1, w2}),
     [Administration({Suspend12}, {Delete1}, Suspended1, Budget(1, 0, 1), {w1}) EXCEPT !.callers = {a1}],
     Administration({}, {Delete1}, Active, Budget(1, 0, 0), {w1, w2}),
     Administration({}, {Delete1}, Onboarding1, Budget(0, 0, 0), {w1}),
     Administration({}, {Delete1}, Active, Budget(0, 1, 0), {w1}),
     Administration({Remove1}, {Suspend1}, Active, Budget(0, 1, 0), {w1}),
     Administration({Remove1}, {Delete1}, Active, Budget(0, 0, 0), {w1, w2}),
     Administration({}, {Remove1C}, Active, Budget(0, 1, 0), {}),
     Administration({Unsuspend2}, {Unsuspend2C}, Suspended2, Budget(0, 0, 1), {w1}),
     Person({Onboard, Rotate, RecoverAlone}, {}, Onboarding1),
     Person({Rotate, RecoverAlone}, {}, Active),
     Person({RecoverKeep, RecoverAlone}, {}, Active),
     Person({Renew, Rotate, SignOut1}, {}, Active),
     Person({Renew}, {Revoke1}, Active),
     Person({RecoverAlone}, {Delete1}, Active),
     Person({Rotate}, {Suspend1}, Active)}
=============================================================================
