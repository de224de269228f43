----------------------------- MODULE Retrieval -----------------------------
(***************************************************************************)
(* SQLiteMemoryStore.retrieve: the rows that the SQL selects, scored by    *)
(* the tokens they share with the query.  How the rows come to be there is *)
(* MemoryStore's.                                                          *)
(***************************************************************************)
EXTENDS Integers, FiniteSets

(* The tokens of retrieval_text; feedback and errors are left out. *)
TokensOf(words, e) == words[e.text] \cup {e.family}

(* The WHERE clause; a query cannot name a split. *)
Selected(rows, scope, disposition) ==
    {e \in rows : /\ e.scope = scope
                  /\ e.disposition = disposition
                  /\ e.split = "train"
                  /\ e.eligible}

(* The sort key: score, then matched tokens, then the id. *)
Before(words, tokens, e, d) ==
    LET m(x) == Cardinality(tokens \cap TokensOf(words, x))
        u(x) == Cardinality(tokens \cup TokensOf(words, x))
    IN  \/ m(e) * u(d) > m(d) * u(e)
        \/ m(e) * u(d) = m(d) * u(e) /\ m(e) > m(d)
        \/ m(e) * u(d) = m(d) * u(e) /\ m(e) = m(d) /\ e.id < d.id

(* The first `limit` of the rows that share a token with the query. *)
Retrieve(rows, words, text, scope, disposition, limit) ==
    LET hits == {e \in Selected(rows, scope, disposition) :
                    words[text] \cap TokensOf(words, e) # {}}
    IN  {e \in hits :
            Cardinality({d \in hits : Before(words, words[text], d, e)}) < limit}
=============================================================================
