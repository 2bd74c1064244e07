---------------------------- MODULE MCRequestParts ----------------------------
(* Small instances of the components that complete and price a request,    *)
(* for TLC.  They do not read one another's state, so a behaviour of this  *)
(* module exercises one of them, chosen at the beginning.                  *)
EXTENDS MCRequestMetadata, MCPriceBook

VARIABLE part

RequestInit ==
    /\ Init /\ PriceInit
    /\ part \in {"metadata", "prices"}
    /\ part = "prices" \/ priceFile = NoFiles
    /\ part = "metadata" \/ info = [e \in Execs |-> CHOOSE i \in Infos : TRUE]

Metadata == part = "metadata" /\ UNCHANGED <<part, priceVars>>
Prices   == part = "prices"   /\ UNCHANGED <<part, vars>>

RequestNext ==
    \/ \E e \in Execs : Metadata /\ Begin(e)
    \/ \E e \in Execs : Metadata /\ End(e)
    \/ \E e \in Execs, at \in 1..MaxTime : Metadata /\ Complete(Request[e], at)
    \/ Metadata /\ Report
    \/ Metadata /\ Tick
    \/ \E on \in BOOLEAN, u \in Catalogs, p \in PricePaths : Prices /\ BeginSettings(on, u, p)
    \/ Prices /\ ApplySettings
    \/ \E p \in PricePaths : Prices /\ SetPath(p)
    \/ Prices /\ Ask
    \/ Prices /\ Answer
    \/ Prices /\ Publish
    \/ Prices /\ Wake
    \/ Prices /\ FetcherEnds
    \/ Prices /\ QueryPrices
    \/ \E m \in Models, price \in RuleSets \cup {Nothing} : Prices /\ EditPrice(m, price)
    \/ \E p \in PricePaths : Prices /\ Recover(p)
    \/ Prices /\ PriceRestart

RequestSpec == RequestInit /\ [][RequestNext]_<<part, vars, priceVars>>
=============================================================================
