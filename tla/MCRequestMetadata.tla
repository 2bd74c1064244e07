------------------------- MODULE MCRequestMetadata -------------------------
(* Small instances of RequestMetadata for TLC: e1 and e2 are attempts of   *)
(* one request, e3 runs beside them on the same credential and model.      *)
EXTENDS RequestMetadata, TLC

CONSTANTS e1, e2, e3

OneRetry  == (e1 :> "q1") @@ (e2 :> "q1") @@ (e3 :> "q2")
OneGroup  == [e \in {e1, e2, e3} |-> "auth"]
TwoPaths  == {[path |-> "responses", stream |-> TRUE, tier |-> "default"],
              [path |-> "responses", stream |-> TRUE, tier |-> "priority"],
              [path |-> "messages", stream |-> FALSE, tier |-> "default"]}
=============================================================================
