-------------------------- MODULE MCAnnouncements ---------------------------
(* Instances of Announcements for TLC. *)
EXTENDS Announcements, TLC

Symmetry == Permutations(Threads) \union Permutations(Users)
=============================================================================
