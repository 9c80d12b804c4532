--------------------------- MODULE MCCatalogCache ---------------------------
(* A small instance of CatalogCache: two readers, an empty catalog, one     *)
(* with a tail of two providers, and one with a provider's twins.           *)
EXTENDS CatalogCache

CONSTANTS web, cli

MetaOf(n, l, p, t) == [name |-> n, limit |-> l, price |-> p, reasoning |-> t]
ListingOf(prov, id, tail, meta) == [provider |-> prov, id |-> id, tail |-> tail, meta |-> meta]

Paid   == MetaOf("v1", "v1", "v1", "v1")
Free   == MetaOf("v2", "zero", "zero", "zero")

\* x under two providers and y under one; y twice under one provider.
Shared  == {ListingOf("acme", "x", "x", Paid), ListingOf("other", "x", "x", Free),
            ListingOf("other", "y", "y", Paid)}
Twofold == {ListingOf("acme", "a/y", "y", Paid), ListingOf("acme", "b/y", "y", Free)}
MCPayloads == {{}, Shared, Twofold}

MCAsked == [r \in {web, cli} |->
    IF r = web THEN [tail |-> "y", providers |-> <<"acme", "nobody">>, policies |-> Policies]
    ELSE [tail |-> "x", providers |-> <<>>, policies |-> {"generated"}]]
MCEntries == {MetaOf("mine", "zero", "zero", "absent")}
MCValues  == {"v1", "v2", "mine"}
MCReaders == {web, cli}
=============================================================================
