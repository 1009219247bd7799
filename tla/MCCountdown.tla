---------------------------- MODULE MCCountdown -----------------------------
(* Countdown for TLC.                                                      *)
EXTENDS Countdown, TLC

\* A workload by the number of its calls.
Calls(rooms, others, edits, begins, cancels, starts) ==
    [room |-> rooms, other |-> others, edit |-> edits, begin |-> begins, cancel |-> cancels, start |-> starts]

MCWorkloads == {
    Calls(7, 7, 0, 0, 0, 0),    \* the room on its own
    Calls(1, 1, 0, 1, 0, 2),    \* two starts from one countdown, around a finish
    Calls(2, 0, 0, 1, 0, 1),    \* another command, or a transfer, against a start
    Calls(1, 0, 1, 2, 0, 1),    \* an edit between two countdowns
    Calls(1, 0, 2, 1, 1, 1)}    \* edits and a cancellation against a start

Symmetry == Permutations(Users) \cup Permutations(Games) \cup Permutations(Handlers)
=============================================================================
