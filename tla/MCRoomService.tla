---------------------------- MODULE MCRoomService ---------------------------
(* RoomService for TLC.                                                    *)
EXTENDS RoomService, TLC

Symmetry == Permutations(Users) \cup Permutations(Handlers) \cup Permutations(Games)
=============================================================================
