----------------------------- MODULE MCPriceBook -----------------------------
(* Small instances of PriceBook for TLC: a rule across midnight, one that  *)
(* fits beside it, and one that meets it on some days; price files are     *)
(* left at no place or at two, of which one may be unreadable at first.    *)
EXTENDS PriceBook, TLC

TimeRule(s, e, d) == [start |-> s, end |-> e, days |-> d]
Night == TimeRule(3, 1, {})
Apart == {Night, TimeRule(1, 3, {})}
Clash == {Night, TimeRule(0, 2, {1})}
TimeRules == {{}, Apart, Clash}
FileOf(rules, readable) == [prices |-> [m \in Models |-> rules], readable |-> readable]
NoFiles == [data |-> Nothing, own |-> Nothing, root |-> Nothing]
Files == {NoFiles} \cup {[data |-> Nothing, own |-> FileOf(Apart, r),
                          root |-> FileOf(Clash, TRUE)] : r \in BOOLEAN}
=============================================================================
