----------------------------- MODULE MCGateway -----------------------------
(* Three clients: one queries or checks, one uploads, one looks. *)
EXTENDS Gateway

CONSTANTS a, b, c, n

MCReq     == {a, b, c}
MCName    == MCReq \cup {n}
MCSegment == {"lumilake-public", "materialized"}

Blob   == <<"lumilake-public", n>>
Result == <<"materialized", a>>

Retrieval(format) == [op |-> "retrieve", format |-> format, readonly |-> TRUE]
Puts(key, sizes)  == {[op |-> "put", key |-> key, size |-> s] : s \in sizes}
Get(key)          == [op |-> "get", key |-> key]
Listing(prefix)   == [op |-> "list", prefix |-> prefix]
Catalog(l)        == [op |-> "catalog", legal |-> l]
Ready             == [op |-> "ready"]

MCAsked == [r \in MCReq |->
    CASE r = a -> {Retrieval("jsonl"), Retrieval("csv"),
                   [Retrieval("csv") EXCEPT !.readonly = FALSE]}
      [] r = b -> Puts(Blob, {1, 2}) \cup Puts(Result, {1})
      [] r = c -> {Get(Blob), Get(Result), Ready, Listing("lumilake-public"),
                   Catalog(TRUE), Catalog(FALSE)}]
=============================================================================
