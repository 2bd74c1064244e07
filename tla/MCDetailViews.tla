---------------------------- MODULE MCDetailViews ----------------------------
(* A small instance of DetailViews for TLC. *)
EXTENDS DetailViews

CONSTANTS r1, r2, r3, r4, here, there

MinuteOf == (r1 :> 0) @@ (r2 :> 1) @@ (r3 :> 1) @@ (r4 :> 2)
SourceOf == (r1 :> here) @@ (r2 :> there) @@ (r3 :> here) @@ (r4 :> there)

(* No details, or two of which one is untimed. *)
RestoredArrays == {<<>>, <<r1, r2>>}

ListQueries ==
    {[filter |-> Everything, span |-> 0, offset |-> 1, limit |-> 2],
     [filter |-> here, span |-> 1, offset |-> 0, limit |-> 2]}

SummaryQueries == {[reader |-> "summary", span |-> 1]}
DetailQueries  == {[reader |-> "detail", span |-> 0]}

PlainFilters == {Everything}
=============================================================================
