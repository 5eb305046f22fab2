---------------------------- MODULE CatalogHandoff ----------------------------
(***************************************************************************)
(* The catalog hand-off: build_day09_ai_catalog_handoff reads every export *)
(* of products, categories and their relations there is, one kind after    *)
(* the other, keeps the latest observation of each identity, projects the  *)
(* products of each category and writes the artifact, its validation and   *)
(* its manifest in place; validate_day09_actual_catalog and its filters    *)
(* are the reader on the AI side.  Collections go on meanwhile: see        *)
(* CatalogCollection for how an export comes about.                        *)
(*                                                                         *)
(* Time is the position of an export: batch ids hold the time of their     *)
(* batch.  A row states the time it was changed, or 0: nothing.            *)
(***************************************************************************)
EXTENDS Integers, Sequences, FiniteSets, FiniteSetsExt

CONSTANTS
  Shelves,        \* the exports that collections may leave: [kind, full, rows]
  Scoped,         \* the categories whose scope is projected
  Preorder,       \* the one of them that holds what can be ordered ahead
  Expected,       \* the counts both sides were written for
  Pinned,         \* what only the reader was written for: [artifact, relations, direct]
  MaxShelves,     \* bound: exports
  MaxBuilds,      \* bound: hand-offs started
  MaxBuildFaults, \* bound: hand-offs that die
  NoSheet,        \* model value: a file that does not exist
  TornSheet       \* model value: a file that was opened and not filled

Kinds == {"products", "categories", "relations"}

ASSUME CatalogAssumption ==
  /\ \A s \in Shelves :
       /\ s.kind \in Kinds /\ s.full \in BOOLEAN
       /\ s.rows \in Seq({s.rows[n] : n \in DOMAIN s.rows})
       /\ \A n \in DOMAIN s.rows : s.rows[n].updated \in Nat /\ (s.kind = "products" => s.rows[n].id \in Nat)
  /\ Preorder \in Scoped
  /\ {MaxShelves, MaxBuilds, MaxBuildFaults} \subseteq Nat

VARIABLES
  shelf,        \* the exports in the order of their batches; the last may be torn
  cataloger,    \* build_day09_ai_catalog_handoff
  sheets,       \* the three files it writes
  builds,
  buildFaults

catalogVars == <<shelf, cataloger, sheets, builds, buildFaults>>

-----------------------------------------------------------------------------
(* Observations.                                                           *)
FullOf(kind) == {i \in DOMAIN shelf : shelf[i].kind = kind /\ shelf[i].full}

\* The files of the preferred pattern, and if there is none every file.
FilesOf(kind) ==
  IF FullOf(kind) # {} THEN FullOf(kind) ELSE {i \in DOMAIN shelf : shelf[i].kind = kind}

Unreadable(kind) == FilesOf(kind) = {} \/ \E i \in FilesOf(kind) : ~shelf[i].whole

\* A row of the file i as it was observed.
ObservationsIn(i) ==
  {[row |-> shelf[i].rows[n], batch |-> i, sequence |-> n,
    at |-> IF shelf[i].rows[n].updated = 0 THEN i ELSE shelf[i].rows[n].updated] : n \in DOMAIN shelf[i].rows}

Observations(kind) == UNION {ObservationsIn(i) : i \in FilesOf(kind)}

IsLater(o, p) ==
  \/ o.at > p.at
  \/ o.at = p.at /\ (o.batch > p.batch \/ (o.batch = p.batch /\ o.sequence > p.sequence))

\* Mutant: what was read last.
LastByIdentity(all) ==
  [id \in {o.row.id : o \in all} |->
     CHOOSE o \in all : o.row.id = id /\ \A p \in all : p.row.id = id /\ p # o =>
       o.batch > p.batch \/ (o.batch = p.batch /\ o.sequence > p.sequence)]

\* _latest_by_identity, by which relations are chosen as well.
LatestByIdentity(all) ==
  [id \in {o.row.id : o \in all} |->
     CHOOSE o \in all : o.row.id = id /\ \A p \in all : p.row.id = id /\ p # o => IsLater(o, p)]

-----------------------------------------------------------------------------
(* The projection of categories.  tree: category -> its parent or 0;       *)
(* members: the pairs of a category and a product.                         *)
ChildrenOf(tree, c) == {d \in DOMAIN tree : tree[d] = c}

\* The walk of project_category_scope.  It stops at categories it has seen and
\* fails when it meets one it is still in; "looped" is that failure.
ScopeOf(tree, c) ==
  LET nodes == DOMAIN tree \union {c}
      visit[current \in nodes, visiting \in SUBSET nodes, seen \in [below : SUBSET nodes, looped : BOOLEAN]] ==
        LET inside == visiting \union {current}
            meet(child, found) ==
              IF found.looped THEN found
              ELSE IF child \in inside THEN [found EXCEPT !.looped = TRUE]
              ELSE IF child \in found.below THEN found
              ELSE visit[child, inside, [found EXCEPT !.below = @ \union {child}]]
        IN FoldSet(meet, seen, ChildrenOf(tree, current))
  IN visit[c, {}, [below |-> {}, looped |-> FALSE]]

ScopeProducts(tree, members, c) ==
  {m[2] : m \in {n \in members : n[1] \in ScopeOf(tree, c).below \union {c}}}
DirectProducts(members, c) == {m[2] : m \in {n \in members : n[1] = c}}

Operational(row) == row.display /\ row.selling

\* A product with its categories, none or many.
ProjectedProducts(latest, members) ==
  [p \in DOMAIN latest |->
     [at |-> latest[p].at, operational |-> Operational(latest[p].row),
      categories |-> {m[1] : m \in {n \in members : n[2] = p}}]]

CatalogOf(full, products, tree, members) ==
  [full |-> full, products |-> products, tree |-> tree, members |-> members,
   scopes |-> [c \in Scoped |-> ScopeProducts(tree, members, c)]]

\* What the validation compares: of the categories to order ahead from the
\* relations, of the scopes from their projection.
TallyOf(catalog) ==
  LET products == catalog.products
      direct   == DirectProducts(catalog.members, Preorder)
      Count(P(_)) == Cardinality({p \in DOMAIN products : P(products[p])}) IN
  [products    |-> Cardinality(DOMAIN products),
   operational |-> Count(LAMBDA p : p.operational),
   categorized |-> Count(LAMBDA p : p.categories # {}),
   unlisted    |-> Count(LAMBDA p : p.categories = {} /\ p.operational),
   several     |-> Count(LAMBDA p : Cardinality(p.categories) > 1),
   most        |-> Max({0} \union {Cardinality(products[p].categories) : p \in DOMAIN products}),
   categories  |-> Cardinality(DOMAIN catalog.tree),
   direct      |-> Cardinality(direct),
   sold        |-> Cardinality({p \in direct : products[p].operational}),
   recursive   |-> [c \in Scoped |-> Cardinality(catalog.scopes[c])]]

\* The relations that name a product or a category nobody lists end the run, as
\* do a category that is its own ancestor and a scope nobody lists.
Dangling(latest, tree, members) == \E m \in members : m[1] \notin DOMAIN tree \/ m[2] \notin DOMAIN latest
Unscoped(tree) == \E c \in Scoped : c \notin DOMAIN tree \/ ScopeOf(tree, c).looped

\* Mutant: only the product of a relation is looked up.
RefusesProducts(latest, tree, members) == (\E m \in members : m[2] \notin DOMAIN latest) \/ members = {} \/ Unscoped(tree)

Refuses(latest, tree, members) == Dangling(latest, tree, members) \/ members = {} \/ Unscoped(tree)

-----------------------------------------------------------------------------
(* The reader: catalog_filter and validate_day09_actual_catalog.           *)
\* Mutant: a category and its children.
OneLevel(tree, c) == {c} \union ChildrenOf(tree, c)

\* build_descendant_map: the category and all below it, cycle or not.
DescendantsOf(tree, c) ==
  LET nodes == DOMAIN tree \union {c}
      reached[stack \in SUBSET nodes, visited \in SUBSET nodes] ==
        IF stack = {} THEN visited
        ELSE LET d == CHOOSE x \in stack : TRUE IN
             reached[(stack \ {d}) \union (ChildrenOf(tree, d) \ (visited \union {d})), visited \union {d}]
  IN reached[{c}, {}]

FilterProducts(catalog, c, recursive) ==
  LET allowed == IF recursive THEN DescendantsOf(catalog.tree, c) ELSE {c} IN
  {p \in DOMAIN catalog.products : catalog.products[p].categories \intersect allowed # {}}
FilterOperational(catalog, operational) ==
  {p \in DOMAIN catalog.products : catalog.products[p].operational = operational}

\* The counts both sides know, as the reader comes to them: by its filters over
\* the rows of the artifact, never from the relations or the counts in it.
ReaderTally(catalog) ==
  LET categoriesOf == [p \in DOMAIN catalog.products |-> catalog.products[p].categories]
      selling      == FilterOperational(catalog, TRUE)
      ahead        == FilterProducts(catalog, Preorder, FALSE)
      listed       == {p \in DOMAIN categoriesOf : categoriesOf[p] # {}} IN
  [products    |-> Cardinality(selling) + Cardinality(FilterOperational(catalog, FALSE)),
   operational |-> Cardinality(selling),
   categorized |-> Cardinality(listed),
   unlisted    |-> Cardinality(selling \ listed),
   several     |-> Cardinality({p \in listed : Cardinality(categoriesOf[p]) > 1}),
   most        |-> Max({0} \union {Cardinality(categoriesOf[p]) : p \in listed}),
   categories  |-> Cardinality(DOMAIN catalog.tree),
   direct      |-> Cardinality(ahead),
   sold        |-> Cardinality(ahead \intersect selling),
   recursive   |-> [c \in Scoped |-> Cardinality(FilterProducts(catalog, c, TRUE))]]

\* What is required first and besides: the one artifact whose hash the reader
\* holds, the number of its relations and what is directly in the other scopes.
\* The hash stands for the whole artifact: it covers every row.
ReaderAccepts(catalog) ==
  /\ catalog = Pinned.artifact
  /\ ReaderTally(catalog) = Expected
  /\ Cardinality(catalog.members) = Pinned.relations
  /\ \A c \in Scoped \ {Preorder} : Cardinality(FilterProducts(catalog, c, FALSE)) = Pinned.direct[c]

-----------------------------------------------------------------------------
SheetNames == <<"artifact", "validation", "manifest">>

CatalogInit ==
  /\ shelf = <<>>
  /\ cataloger = [pc |-> "idle"]
  /\ sheets = [name \in {"artifact", "validation", "manifest"} |-> NoSheet]
  /\ builds = 0 /\ buildFaults = 0

\* Collections: a file is there before it is filled.
Shelved ==
  /\ \/ /\ Len(shelf) < MaxShelves
        /\ \A i \in DOMAIN shelf : shelf[i].whole
        /\ \E s \in Shelves : shelf' = Append(shelf, [kind |-> s.kind, full |-> s.full, rows |-> s.rows, whole |-> FALSE])
     \/ \E i \in DOMAIN shelf : ~shelf[i].whole /\ shelf' = [shelf EXCEPT ![i].whole = TRUE]
  /\ UNCHANGED <<cataloger, sheets, builds, buildFaults>>

Fails == cataloger' = [pc |-> "idle"]
CatalogerOnly == UNCHANGED <<shelf, sheets, buildFaults>>

ReadProducts ==
  /\ cataloger.pc = "idle" /\ builds < MaxBuilds
  /\ builds' = builds + 1
  /\ IF Unreadable("products") THEN Fails
     ELSE cataloger' = [pc |-> "categories", full |-> FullOf("products") # {},
                        latest |-> LatestByIdentity(Observations("products"))]
  /\ CatalogerOnly

ReadCategories ==
  /\ cataloger.pc = "categories"
  /\ IF Unreadable("categories") THEN Fails
     ELSE LET latest == LatestByIdentity(Observations("categories")) IN
          cataloger' = [pc |-> "relations", full |-> cataloger.full, latest |-> cataloger.latest,
                        tree |-> [c \in DOMAIN latest |-> latest[c].row.parent]]
  /\ UNCHANGED builds /\ CatalogerOnly

\* The relations are read, and everything is put together and checked.
ReadRelations ==
  /\ cataloger.pc = "relations"
  /\ LET members == DOMAIN LatestByIdentity(Observations("relations")) IN
     IF Unreadable("relations") \/ Refuses(cataloger.latest, cataloger.tree, members) THEN Fails
     ELSE cataloger' = [pc |-> "write", open |-> FALSE, left |-> SheetNames,
                        catalog |-> CatalogOf(cataloger.full, ProjectedProducts(cataloger.latest, members),
                                              cataloger.tree, members)]
  /\ UNCHANGED builds /\ CatalogerOnly

SheetOf(name, catalog) ==
  CASE name = "artifact"   -> catalog
    [] name = "validation" -> [of |-> catalog, passed |-> TallyOf(catalog) = Expected]
    [] name = "manifest"   -> [artifact |-> sheets["artifact"], validation |-> sheets["validation"]]

\* write_text opens the file and fills it.  A validation that did not pass is
\* published like one that did; only the run ends with an error.
WriteSheet ==
  /\ cataloger.pc = "write"
  /\ LET name == Head(cataloger.left) IN
     IF ~cataloger.open
       THEN /\ sheets' = [sheets EXCEPT ![name] = TornSheet]
            /\ cataloger' = [cataloger EXCEPT !.open = TRUE]
       ELSE /\ sheets' = [sheets EXCEPT ![name] = SheetOf(name, cataloger.catalog)]
            /\ IF Len(cataloger.left) = 1 THEN Fails
               ELSE cataloger' = [cataloger EXCEPT !.open = FALSE, !.left = Tail(@)]
  /\ UNCHANGED <<shelf, builds, buildFaults>>

CatalogerDies ==
  /\ cataloger.pc # "idle" /\ buildFaults < MaxBuildFaults
  /\ buildFaults' = buildFaults + 1
  /\ Fails
  /\ UNCHANGED <<shelf, sheets, builds>>

CatalogNext == Shelved \/ ReadProducts \/ ReadCategories \/ ReadRelations \/ WriteSheet \/ CatalogerDies

-----------------------------------------------------------------------------
Readable(name) == sheets[name] \notin {NoSheet, TornSheet}

\* Whatever arrived between the three reads, an artifact that can be read is
\* closed: the categories of its products are listed.
CategoriesAreListed(catalog) == \A p \in DOMAIN catalog.products : catalog.products[p].categories \subseteq DOMAIN catalog.tree
CatalogIsClosed == Readable("artifact") => CategoriesAreListed(sheets["artifact"])

\* The scopes its writer projected are those its reader filters by, none holds a
\* category above itself, and what the writer counts over relations and scopes is
\* what the reader counts over the rows: an artifact that was published although
\* its validation failed is refused by the reader, which refuses more than that.
CatalogScopesAgree ==
  Readable("artifact") =>
    LET catalog == sheets["artifact"] IN
    /\ \A c \in Scoped : /\ catalog.scopes[c] = FilterProducts(catalog, c, TRUE)
                         /\ catalog.tree[c] \notin DescendantsOf(catalog.tree, c)
    /\ TallyOf(catalog) = ReaderTally(catalog)
    /\ ReaderAccepts(catalog) => TallyOf(catalog) = Expected

\* A run about to replace an artifact that was built from files of the same
\* pattern lists every product of it, and none as of an earlier time: also when
\* runs died between their files and exports arrive that tell of earlier changes.
CatalogGoesForward ==
  cataloger.pc = "write" /\ cataloger.left = SheetNames /\ Readable("artifact") =>
    LET old == sheets["artifact"]
        new == cataloger.catalog IN
    old.full = new.full =>
      \A p \in DOMAIN old.products : p \in DOMAIN new.products /\ new.products[p].at >= old.products[p].at

\* A manifest that fits the artifact and the validation there are was written with
\* them: the validation is that of the artifact.
ManifestIsBacked ==
  Readable("manifest") /\ Readable("artifact") /\ Readable("validation")
    /\ sheets["manifest"] = [artifact |-> sheets["artifact"], validation |-> sheets["validation"]] =>
      sheets["validation"].of = sheets["artifact"]

CatalogIsSound == CatalogIsClosed /\ CatalogGoesForward /\ ManifestIsBacked
=============================================================================
