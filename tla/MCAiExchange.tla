---------------------------- MODULE MCAiExchange ----------------------------
(***************************************************************************)
(* Small instances: a question and its answer, in pages with plain and     *)
(* with personal text, also spread over two lines; answers of the AI track *)
(* that are fit, without citations, stale, gated or not read-only.  Of the *)
(* catalog, products observed twice in one file, in a later file with an   *)
(* earlier change and outside the full collection, three categories below  *)
(* each other, which a later export closes to a cycle, and relations, one  *)
(* of them of a category nobody lists.  Around the experiment, three       *)
(* products, two of which are in the first snapshot.                       *)
(***************************************************************************)
EXTENDS AiExchange, TLC

MCParentOf == (1 :> 0) @@ (2 :> 1)
MCExported ==
  {1 :> <<"plain">>, 1 :> <<"plain", "private">>, 2 :> <<"private">>,
   (1 :> <<"half", "blank", "half", "plain">>) @@ (2 :> <<"plain">>)}

Trace(citations, gated, sure, warning, readOnly) ==
  [citations |-> citations, gated |-> gated, sure |-> sure, held |-> FALSE, warning |-> warning, readOnly |-> readOnly]
MCTraces ==
  {Trace("fresh", FALSE, TRUE, "none", TRUE), Trace("none", TRUE, TRUE, "none", TRUE), Trace("stale", FALSE, TRUE, "none", TRUE),
   Trace("fresh", TRUE, FALSE, "unconfirmed", TRUE), Trace("fresh", FALSE, TRUE, "none", FALSE)}

Product(id, updated, selling) == [id |-> id, updated |-> updated, display |-> TRUE, selling |-> selling]
Category(id, parent) == [id |-> id, updated |-> 0, parent |-> parent]
Relation(category, product) == [id |-> <<category, product>>, updated |-> 0]
FullExport(kind, rows) == [kind |-> kind, full |-> TRUE, rows |-> rows]

TwoProducts    == FullExport("products", <<Product(1, 1, TRUE), Product(2, 0, FALSE)>>)
ThreeLevels    == FullExport("categories", <<Category(1, 0), Category(2, 1), Category(3, 2)>>)
InTwoOfThem    == FullExport("relations", <<Relation(1, 1), Relation(2, 1)>>)
MCLabShelves   == {TwoProducts, ThreeLevels, InTwoOfThem, FullExport("products", <<Product(3, 0, TRUE)>>)}
MCShelves      ==
  MCLabShelves \union
    {FullExport("products", <<Product(1, 3, FALSE), Product(1, 2, TRUE)>>),
     [kind |-> "products", full |-> FALSE, rows |-> <<Product(1, 0, TRUE), Product(3, 2, TRUE)>>],
     FullExport("categories", <<Category(1, 3)>>),
     FullExport("relations", <<Relation(3, 2)>>),
     FullExport("relations", <<Relation(4, 1)>>)}

\* What a catalog of the first three exports holds; the reader was written for
\* the one whose products were exported first.
MCExpected == [products |-> 2, operational |-> 1, categorized |-> 1, unlisted |-> 0, several |-> 1, most |-> 2,
               categories |-> 3, direct |-> 1, sold |-> 1, recursive |-> (1 :> 1) @@ (2 :> 1)]
MCPinned   == [artifact  |-> [full     |-> TRUE,
                              products |-> (1 :> [at |-> 1, operational |-> TRUE, categories |-> {1, 2}])
                                             @@ (2 :> [at |-> 1, operational |-> FALSE, categories |-> {}]),
                              tree     |-> (1 :> 0) @@ (2 :> 1) @@ (3 :> 2),
                              members  |-> {<<1, 1>>, <<2, 1>>},
                              scopes   |-> (1 :> {1}) @@ (2 :> {1})],
               relations |-> 2,
               direct    |-> (1 :> 1)]
=============================================================================
