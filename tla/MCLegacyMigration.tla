-------------------------- MODULE MCLegacyMigration --------------------------
(* Small instances of LegacyMigration: documents with the repeated members *)
(* that the old decoder merges, replaces or clears.                        *)
EXTENDS LegacyMigration

Atom(value) == [json |-> "atom", value |-> value]
Num(n)      == Atom("n" :> n)
Null        == [json |-> "null", value |-> Nothing]
Obj(members) == [json |-> "object", members |-> members]
Arr(items)   == [json |-> "array", members |-> [i \in DOMAIN items |-> <<ToString(i - 1), items[i]>>]]

Snapshot(usage) == Obj(<< <<"usage", Obj(usage)>> >>)
OneModel(members) == Snapshot(<< <<"apis", Obj(<< <<"A", Obj(<< <<"models", Obj(<< <<"M", Obj(members)>> >>)>> >>)>> >>)>> >>)

Detail(tokens) == Atom("tokens" :> tokens)
OfApi(api, tokens) == Atom(("api" :> api) @@ ("tokens" :> tokens))

\* A list shortened and lengthened again: the hidden element comes back.
Shortened == OneModel(<< <<"total_requests", Num(5)>>,
    <<"details", Arr(<< OfApi("B", 1), Detail(2) >>)>>,
    <<"details", Arr(<< Detail(3) >>)>>,
    <<"details", Arr(<< Null, Atom("model" :> "N") >>)>> >>)

\* A list emptied and filled again: nothing comes back.
Emptied == OneModel(<<
    <<"details", Arr(<< OfApi("B", 1) >>)>>, <<"details", Arr(<< >>)>>,
    <<"details", Arr(<< Detail(4) >>)>>, <<"accounting", Arr(<< Atom("provider" :> "p") >>)>>,
    <<"providers", Arr(<< Atom(("provider" :> "p") @@ ("requests" :> 3)) >>)>> >>)

\* A map entry replaced, a map kept, null into a struct and into a counter.
Superseded == Snapshot(<< <<"total_requests", Num(7)>>, <<"remark", Num(1)>>, <<"total_requests", Null>>,
    <<"apis", Obj(<< <<"A", Obj(<< <<"input_tokens", Num(9)>> >>)>>, <<"B", Null>> >>)>>,
    <<"apis", Obj(<< <<"A", Obj(<< <<"total_requests", Num(2)>> >>)>> >>)>>,
    <<"requests_by_day", Obj(<< <<"d", Null>> >>)>> >>)

\* Details of two APIs under one, an API without a name, no requests counted.
Divided == Snapshot(<< <<"apis", Obj(<<
    <<"", Obj(<< <<"models", Obj(<< <<"M", Obj(<< <<"details", Arr(<< Detail(8) >>)>> >>)>> >>)>> >>)>>,
    <<"A", Obj(<< <<"models", Obj(<< <<"M", Obj(<< <<"input_tokens", Num(7)>>,
        <<"details", Arr(<< Detail(1), OfApi("B", 2) >>)>> >>)>>, <<"N", Null>> >>)>> >>)>> >>)>> >>)

MCContent == ("divided" :> Divided) @@ ("shortened" :> Shortened) @@ ("emptied" :> Emptied) @@ ("replaced" :> Superseded)

MCNames == <<"", "0", "1", "A", "B", "M", "N", "accounting", "apis", "d", "details", "input_tokens", "models",
             "providers", "requests_by_day", "total_requests", "usage">>
=============================================================================
