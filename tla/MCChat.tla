------------------------------- MODULE MCChat -------------------------------
(* Small instances of PacketProcess for TLC. *)
EXTENDS ChatProperties

MCStartIndexes == {0}
MCAllStarts == -1..2
MCOneFresh == {"GARBAGE"}
MCAnyFresh == {"NONE", "STARTING", "GARBAGE"}
MCIdleGames == {"NONE"}
IDSymmetry == Permutations(UserIDs)
=============================================================================
