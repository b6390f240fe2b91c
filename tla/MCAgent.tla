------------------------------- MODULE MCAgent -------------------------------
(* Values for Agent: one tool, two releases of the task catalogue.           *)
EXTENDS Agent

Query(id) == [id |-> id, name |-> "workflow_catalog_query", complete |-> TRUE, fits |-> TRUE]

SomeBatches ==
    {<<>>, <<Query(1)>>, <<Query(1), Query(2)>>, <<Query(1), Query(1)>>,
     <<Query(1), [Query(2) EXCEPT !.complete = FALSE]>>,
     <<Query(1), [Query(2) EXCEPT !.name = "unregistered"]>>,
     <<[Query(1) EXCEPT !.fits = FALSE]>>}

OneTool == [n \in {"workflow_catalog_query"} |-> "catalog:read"]

CatalogRead == {"catalog:read"}
DocumentRead == {"document:read"}

Text(v) == [type |-> "string", value |-> v]

Read == [action |-> "read-document", timeout |-> 30, input |-> [n \in {"source"} |-> Text("article")]]
Clean(mode) == [action |-> "clean-document", timeout |-> 30, input |-> [n \in {"mode"} |-> Text(mode)]]

\* A pipeline, one a newer release refuses, one with too much concurrency.
Pipeline == [concurrency |-> 1, tasks |-> <<Read, Clean("standard")>>]
Strict == [concurrency |-> 2, tasks |-> <<Read, Clean("strict")>>]
Wide == [concurrency |-> 2, tasks |-> <<[Read EXCEPT !.input = <<>>]>>]

SomeDefinitions == {Pipeline, Strict, Wide}
SomeCompile == {Pipeline, Strict}

Parameter(required, enum) == [type |-> "string", required |-> required, enum |-> enum]

CatalogWith(modes) ==
    [a \in {"read-document", "clean-document"} |->
        IF a = "read-document"
        THEN [agentAllowed |-> TRUE, permission |-> "document:read", maxTimeout |-> 30,
              parameters |-> [n \in {"source"} |-> Parameter(TRUE, {})]]
        ELSE [agentAllowed |-> TRUE, permission |-> None, maxTimeout |-> 30,
              parameters |-> [n \in {"mode"} |-> Parameter(FALSE, modes)]]]

\* The tabs are alike.
TabSymmetry == Permutations(Tab)

TwoReleases == {CatalogWith({"standard", "strict"}), CatalogWith({"standard"})}
=============================================================================
