-------------------------- MODULE CoherenceSubject --------------------------
(***************************************************************************)
(* The subject of an evaluation and the built-in evaluators that read it   *)
(* (src/hub/coherence: manifest.py, package.py, evaluators.py, and the     *)
(* loaders of the captured facts).                                         *)
(*                                                                         *)
(* A tree is a function from the paths that exist to entries.  An entry    *)
(* has a kind (a file, a link found among the directories or among the     *)
(* files, a submodule, an excluded directory), the content that a reader   *)
(* finds there, whether it stays inside the tree when it is a link, and    *)
(* the git metadata of a submodule.  Content has the declared product, the *)
(* markers, and the JSON object it parses to, or Nothing.                  *)
(***************************************************************************)
EXTENDS CoherencePolicy

CONSTANTS Casefold      \* the case-folded form of a path

-----------------------------------------------------------------------------
(* manifest.py.                                                            *)

\* Whether a path resolves outside the tree.
escapes(entry) == entry.kind \in {"linkdir", "linkfile"} /\ ~entry.inside

\* The commit of a submodule: its detached HEAD, or the ref that HEAD names,
\* looked up among the loose and the packed refs.
gitlink_commit(git) ==
    IF git.detached # Nothing THEN git.detached
    ELSE IF git.ref \in DOMAIN git.refs THEN git.refs[git.ref] ELSE Nothing

\* The manifest's entry: a digest for a regular file, and the outcome of the
\* policy for everything else.
ManifestEntry(entry) ==
    CASE entry.kind = "file" ->
           [kind |-> "file", digest |-> entry.content, outcome |-> Nothing]
      [] entry.kind = "linkdir" ->
           [kind |-> "symlink", digest |-> Nothing,
            outcome |-> IF escapes(entry) THEN "symlink-escape" ELSE "symlink-forbidden"]
      [] entry.kind = "linkfile" ->
           [kind |-> "symlink", digest |-> Nothing, outcome |-> "symlink-forbidden"]
      [] entry.kind = "submodule" ->
           [kind |-> "submodule", digest |-> Nothing, outcome |-> gitlink_commit(entry.git)]
      [] entry.kind = "excluded" ->
           [kind |-> "excluded", digest |-> Nothing, outcome |-> "excluded-by-policy"]

\* Paths that differ only by case or normalisation make a tree unbuildable.
Collision(tree) == \E p, q \in DOMAIN tree : p # q /\ Casefold[p] = Casefold[q]

\* A file's path is contained, links resolved.
check_safe(entry) == entry.kind \in {"file", "linkfile"} => ~escapes(entry)

WORLD_BUNDLE_FILE == "world-bundle.json"
PART_KINDS == {"world-ir", "glb", "engine-scene", "executable-build", "capture",
               "evaluation-record"}

\* _build_world_parts: the parts that the bundle file declares, with the
\* digests of the manifest; a capture has a pinned configuration as well.
world_parts(tree) ==
    LET parts      == tree[WORLD_BUNDLE_FILE].content.doc.parts
        regular(p) == p \in DOMAIN tree /\ tree[p].kind = "file"
        part(d)    == [id |-> d.id, kind |-> d.kind, digest |-> tree[d.path].content,
                       config |-> IF d.kind = "capture" THEN tree[d.config].content ELSE Nothing]
    IN
    IF /\ WORLD_BUNDLE_FILE \in DOMAIN tree
       /\ tree[WORLD_BUNDLE_FILE].kind \in {"file", "linkfile"}
       /\ tree[WORLD_BUNDLE_FILE].content.doc # Nothing
       /\ parts # <<>>
       /\ \A j, k \in DOMAIN parts : parts[j].id = parts[k].id => j = k
       /\ \A d \in ToSet(parts) :
             /\ d.kind \in PART_KINDS /\ regular(d.path)
             /\ IF d.kind = "capture" THEN regular(d.config) ELSE d.config = Nothing
    THEN {part(d) : d \in ToSet(parts)}
    ELSE Refused

\* The manifest of a tree, for the kind of subject that the request names.
build(tree, kind) ==
    LET parts == IF kind = "world-bundle" THEN world_parts(tree) ELSE {} IN
    IF \/ tree = Nothing \/ Collision(tree) \/ \E p \in DOMAIN tree : ~check_safe(tree[p])
       \/ parts = Refused
    THEN Refused
    ELSE [kind    |-> kind,
          entries |-> [p \in DOMAIN tree |-> ManifestEntry(tree[p])],
          parts   |-> parts]

\* Mutant: the subject is trusted to stand still.
NeverMutated(snapshot, tree) == FALSE

\* The tree walked again under the same rules cannot be built or has other
\* entries.
first_mutation(snapshot, tree) ==
    LET current == build(tree, snapshot.kind)
    IN  current = Refused \/ current.entries # snapshot.entries

-----------------------------------------------------------------------------
(* package.py: every inventoried file matches its recorded digest, every   *)
(* import is frozen, and the identity covers the normative entries only.   *)

InventoryHolds(package) ==
    /\ package.inventory # {}
    /\ \A e \in package.inventory : e.path \in DOMAIN package.files
                                    /\ package.files[e.path] = e.digest

package_resolve(package) ==
    IF /\ InventoryHolds(package)
       /\ \A i \in package.imports : i.digest # Nothing
    THEN [normative    |-> {e \in package.inventory : e.normative},
          imports      |-> package.imports,
          product      |-> package.product,
          room         |-> package.room,
          requirements |-> package.requirements,
          release      |-> package.release]
    ELSE Refused

\* _load_assertions: the files under specs/, inventoried or not, in order.
load_assertions(package) ==
    FlattenSeq([k \in DOMAIN package.specs |-> package.files[package.specs[k]]])

-----------------------------------------------------------------------------
(* context.load_captured_facts: content that does not match its bound      *)
(* digest refuses the context, a record without a digest binds nothing.    *)

load_captured_facts(bound, files) ==
    LET named == {f \in DOMAIN bound : bound[f] # Nothing} IN
    IF \E f \in named : f \notin DOMAIN files \/ files[f] # bound[f]
    THEN Refused
    ELSE [f \in named |-> files[f]]

-----------------------------------------------------------------------------
(* evaluators.py: each evaluator returns its findings or is unresolved.    *)

Finding(a, loc, class) == [aid |-> a.id, loc |-> loc, class |-> class]
Unresolved == Nothing
FactSubjects(a) == {s \in a.subjects : s.kind = "captured-fact"}

\* A selector's path is contained under the root before it is read; what is
\* behind it is read whatever the manifest recorded for it.
Readable(tree, path) ==
    path \in DOMAIN tree /\ ~escapes(tree[path])

\* _extract: the declared product of a file or of the package's metadata.
Extract(s, tree, package) ==
    IF s.kind = "artifact-metadata" THEN package.product
    ELSE IF s.kind = "file" /\ Readable(tree, s.at) THEN tree[s.at].content.product
    ELSE Nothing

identity_consistency(a, package, tree) ==
    IF \/ package.product = Nothing
       \/ \E s \in a.subjects : Extract(s, tree, package) = Nothing
    THEN Unresolved
    ELSE {Finding(a, s.at, "identity-mismatch") :
            s \in {x \in a.subjects : Extract(x, tree, package) # package.product}}

\* _source_markers: the markers of every source file that the scan does not skip.
source_markers(tree) ==
    UNION {tree[p].content.markers : p \in {q \in DOMAIN tree : tree[q].scanned}}

traceability_completeness(a, package, tree) ==
    LET testable == {q \in DOMAIN package.requirements : package.requirements[q].testable}
    IN  {Finding(a, "package", "orphan-requirement") :
            q \in {x \in testable : package.requirements[x].assertions = {}}}
        \cup IF a.marker_scan
             THEN {Finding(a, q, "unmarked-requirement") : q \in testable \ source_markers(tree)}
             ELSE {}

release_claim_consistency(a, package) ==
    IF package.release = Nothing
    THEN {Finding(a, "package", "selector-empty")}
    ELSE IF package.release.outer # Nothing /\ package.release.outer = package.release.inner
    THEN {Finding(a, "package", "self-referential-release")}
    ELSE {}

captured_fact_consistency(a, package, facts) ==
    IF \/ package.product = Nothing
       \/ \E s \in FactSubjects(a) : s.at \notin DOMAIN facts \/ facts[s.at].value = Nothing
    THEN Unresolved
    ELSE {Finding(a, s.at, "captured-fact-mismatch") :
            s \in {x \in FactSubjects(a) : facts[x.at].value # package.product}}

\* A model observation is pinned when the artifact its digest names is in the
\* subject and every fact repeats the pin.
is_pinned_reproducible_model(a, tree, facts) ==
    /\ a.pin # Nothing
    /\ a.pin.path \in DOMAIN tree /\ tree[a.pin.path].content = a.pin.digest
    /\ FactSubjects(a) # {}
    /\ \A s \in FactSubjects(a) : s.at \in DOMAIN facts /\ facts[s.at].pin = a.pin.digest

vision_observation(a, tree, facts) ==
    IF \E s \in FactSubjects(a) : s.at \notin DOMAIN facts
    THEN Unresolved
    ELSE IF is_pinned_reproducible_model(a, tree, facts)
    THEN {Finding(a, s.at, "vision-rubric-violation") :
            s \in {x \in FactSubjects(a) : facts[x.at].verdict # "clear"}}
    ELSE {Finding(a, s.at, "unpinned-model-advice") : s \in FactSubjects(a)}

\* _read_contained_bytes and _read_contained_json: a regular file behind a
\* contained path, and the object it parses to.
ReadableBytes(tree, path) ==
    Readable(tree, path) /\ tree[path].kind \in {"file", "linkfile"}
ReadableJson(tree, path) == ReadableBytes(tree, path) /\ tree[path].content.doc # Nothing
Doc(tree, path) == tree[path].content.doc

\* The first declared part that passes, or one without paths.
FirstPart(parts, Test(_)) ==
    LET k == SelectInSeq(parts, Test)
    IN  IF k = 0 THEN [path |-> Nothing, config |-> Nothing] ELSE parts[k]

parts_complete(a, tree, parts) ==
    IF \E d \in ToSet(parts) : ~ReadableBytes(tree, d.path)
    THEN Unresolved
    ELSE {Finding(a, kind, "missing-world-part") :
            kind \in a.part_kinds \ {d.kind : d \in ToSet(parts)}}

room_bounds(a, package, tree, ir) ==
    IF ~ReadableJson(tree, ir) THEN Unresolved
    ELSE {Finding(a, ir, "room-id-mismatch") :
            id \in {package.room} \ {Nothing, Doc(tree, ir).room}}
         \cup {Finding(a, axis, "room-bounds-violation") :
                 axis \in {x \in DOMAIN a.min_bounds :
                              \/ x \notin DOMAIN Doc(tree, ir).bounds
                              \/ Doc(tree, ir).bounds[x] < a.min_bounds[x]}}

\* The capture must carry the digest of its configuration, and both records
\* must leave the doorway wide enough.
doorway_clearance(a, tree, ir, cap) ==
    IF ~ReadableJson(tree, ir) \/ ~ReadableJson(tree, cap.path)
         \/ ~ReadableBytes(tree, cap.config)
    THEN Unresolved
    ELSE LET record == Doc(tree, cap.path)
             narrow == \/ Doc(tree, ir).clear < a.min_clear
                       \/ record.clear < a.min_clear
                       \/ record.blocked
         IN {Finding(a, cap.path, "capture-config-digest-mismatch") :
               c \in {record.config} \ {tree[cap.config].content}}
            \cup {Finding(a, cap.path, "doorway-clearance-violation") : n \in {narrow} \ {FALSE}}

asset_scene_binding(a, tree, glb, scene) ==
    IF ~ReadableBytes(tree, glb) \/ ~ReadableBytes(tree, scene) THEN Unresolved
    ELSE {Finding(a, glb, "invalid-glb-header") : m \in {tree[glb].content.magic} \ {TRUE}}
         \cup {Finding(a, scene, "scene-asset-unbound") : p \in {glb} \ tree[scene].content.mentions}

world_room_coherence(a, package, tree) ==
    LET parts   == Doc(tree, WORLD_BUNDLE_FILE).parts
        of(kind) == FirstPart(parts, LAMBDA d : d.kind = kind)
        named   == FirstPart(parts, LAMBDA d : d.id = a.capture)
        capture == IF named.path = Nothing THEN of("capture") ELSE named
    IN
    IF ~ReadableJson(tree, WORLD_BUNDLE_FILE) THEN Unresolved
    ELSE CASE a.check = "parts-complete"      -> parts_complete(a, tree, parts)
           [] a.check = "room-bounds"         -> room_bounds(a, package, tree, of("world-ir").path)
           [] a.check = "doorway-clearance"   ->
                doorway_clearance(a, tree, of("world-ir").path, capture)
           [] a.check = "asset-scene-binding" ->
                asset_scene_binding(a, tree, of("glb").path, of("engine-scene").path)
           [] OTHER                           -> Unresolved

BUILTINS == {"identity", "traceability", "release-claim", "captured-fact", "world-room", "vision"}

Evaluate(a, package, tree, facts) ==
    CASE a.evaluator = "identity"      -> identity_consistency(a, package, tree)
      [] a.evaluator = "traceability"  -> traceability_completeness(a, package, tree)
      [] a.evaluator = "release-claim" -> release_claim_consistency(a, package)
      [] a.evaluator = "captured-fact" -> captured_fact_consistency(a, package, facts)
      [] a.evaluator = "world-room"    -> world_room_coherence(a, package, tree)
      [] a.evaluator = "vision"        -> vision_observation(a, tree, facts)

\* The product of a path that exists and is a directory: the read itself raises.
Crashes(a, tree) ==
    /\ a.evaluator = "identity"
    /\ \E s \in a.subjects : s.kind = "file" /\ Readable(tree, s.at)
                            /\ ~ReadableBytes(tree, s.at)

OutcomeOf(findings) ==
    IF findings = Unresolved THEN "UNRESOLVED"
    ELSE IF findings = {} THEN "SATISFIED" ELSE "VIOLATED"
=============================================================================
