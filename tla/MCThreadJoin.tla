---------------------------- MODULE MCThreadJoin ----------------------------
(* Small instances of ThreadJoin: every vector of one or two threads,      *)
(* duplicates included.                                                    *)
EXTENDS ThreadJoin

MCJoinArgs == UNION {[1 .. n -> Worker] : n \in 1 .. 2}
=============================================================================
