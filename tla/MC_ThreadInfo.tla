---------------------------- MODULE MC_ThreadInfo ----------------------------
(* Request values for checking ThreadInfo with TLC (negative numbers       *)
(* cannot be written in a .cfg file).                                      *)
EXTENDS ThreadInfo

(* An invalid priority (-3), a class bound, and a realtime-only value (6). *)
MC_Priorities == {-3, 2, 6}

=============================================================================
