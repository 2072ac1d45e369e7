---------------------------- MODULE Occurrences ----------------------------
(* How often something is in a queue.                                      *)
EXTENDS Integers, Sequences, FiniteSets

Times(x, s) == Cardinality({i \in DOMAIN s : s[i] = x})
=============================================================================
