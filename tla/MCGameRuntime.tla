---------------------------- MODULE MCGameRuntime ---------------------------
(* GameRuntime for TLC.                                                    *)
EXTENDS GameRuntime, FiniteSetsExt, TLC

Symmetry == Permutations(Users) \cup Permutations(Workers)

\* A later starting point: every user has joined an open room one after the
\* other, and the game may start.
FullRoom ==
    /\ \E host \in Users, g \in Games :
          room = FoldSet(LAMBDA u, r : Join(r, u, "participant"),
                         NewWithAdmission(host, "open", "open", g), Users \ {host})
    /\ frozen = {}
    /\ revocations = {}
    /\ NothingStored

FullRoomSafe == FullRoom /\ [][RuntimeNext]_runtimeVars

FullRoomSpec == FullRoomSafe /\ Fairness

\* Bound on the search: once two commands of the room have followed the start,
\* such as a pause and its resume, one call at a time goes on, and a game that
\* still runs has its first owner.
LateRoomBound ==
    room.roomVersion > Cardinality(Users) + 2 =>
        /\ Cardinality({w \in Workers : Busy(w)}) <= 1
        /\ room.session # NoSession => sessions[room.session].epoch <= 1
=============================================================================
