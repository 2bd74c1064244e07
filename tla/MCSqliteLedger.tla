--------------------------- MODULE MCSqliteLedger ---------------------------
(* Small instances of SqliteLedger for TLC: a file of three lines, two at   *)
(* one time and with one large identity, one with a large request.         *)
EXTENDS SqliteLedger

MCLineOf == << [at |-> 2, identity |-> "long", payload |-> "brief"],
               [at |-> 2, identity |-> "long", payload |-> "brief"],
               [at |-> 1, identity |-> "short", payload |-> "huge"] >>

MCQueries == {[cutoff |-> 1, accounting |-> TRUE], [cutoff |-> 2, accounting |-> FALSE]}
=============================================================================
