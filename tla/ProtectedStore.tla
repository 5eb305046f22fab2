--------------------------- MODULE ProtectedStore ---------------------------
(***************************************************************************)
(* The protected root as the Cafe24 collection sees it.  A batch is a raw  *)
(* response, a sanitized export and a manifest, written one after the      *)
(* other, each opened with mode "x" and then filled; a reader that comes   *)
(* in between, and every reader after a process that died in between,      *)
(* finds the file torn.  No reader modelled here looks at a raw response   *)
(* without a sanitized export, so a batch exists from that export on.      *)
(***************************************************************************)
EXTENDS Naturals, Sequences, FiniteSets

Stages == {"sanitizing", "sanitized", "manifesting", "complete"}

\* select_canonical_sanitized_artifacts puts every sanitized export of a
\* resource into one of three classes.
Selected(b)        == b.stage = "complete"
MissingManifest(b) == b.stage = "sanitized"
InvalidArtifact(b) == b.stage \in {"sanitizing", "manifesting"}

\* The batches of a resource, as indices of the store.
OfResource(store, res) == {i \in DOMAIN store : store[i].of = res}
Canonical(store, res)  == {i \in OfResource(store, res) : Selected(store[i])}
HasInvalid(store, res) == \E i \in OfResource(store, res) : InvalidArtifact(store[i])
HasMissing(store, res) == \E i \in OfResource(store, res) : MissingManifest(store[i])

\* open("x") of a sanitized export, its content, open("x") of the manifest,
\* its content.
Opened(store, res, key)  == Append(store, [of |-> res, at |-> key, stage |-> "sanitizing"])
Filled(store, i)         == [store EXCEPT ![i].stage = "sanitized"]
ManifestOpened(store, i) == [store EXCEPT ![i].stage = "manifesting"]
ManifestFilled(store, i) == [store EXCEPT ![i].stage = "complete"]

\* An index is rewritten through a temporary file that takes its name.  Who has
\* a file open goes on writing it under the name it has after that.
FileNames       == {"index", "tmp"}
NameAfter(name) == CASE name = "tmp" -> "index" [] name = "index" -> "gone" [] OTHER -> name
=============================================================================
