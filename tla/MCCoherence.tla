---------------------------- MODULE MCCoherence ----------------------------
(* A subject of one source file and a submodule, one required identity     *)
(* assertion and one captured-fact assertion, or a world bundle of a room  *)
(* and a capture with two checks of it; two bundles.                       *)
EXTENDS CoherenceRun

CONSTANTS r1, r2,
          SwapApproved   \* TRUE: the bundles approve the overlay's evaluator

MCCasefold == [p \in {"src", "lib", "ir", "cap", "cfg", WORLD_BUNDLE_FILE} |-> p] @@ [SRC |-> "src"]

Content(product, doc) == [product |-> product, markers |-> {}, doc |-> doc]
Entry(kind, content)  == [kind |-> kind, content |-> content, inside |-> TRUE, git |-> Nothing,
                          scanned |-> TRUE]
File(product)  == Entry("file", Content(product, Nothing))
Parsed(doc)    == Entry("file", Content(Nothing, doc))
Module(sha)    == [Entry("submodule", Nothing) EXCEPT
                     !.git = [detached |-> Nothing, ref |-> "main", refs |-> [main |-> sha]]]
Link(inside)   == [Entry("linkfile", Nothing) EXCEPT !.inside = inside]

Good     == [src |-> File("p"), lib |-> Module("c1")]
Bad      == [src |-> File("q"), lib |-> Module("c1")]
Repinned == [src |-> File("p"), lib |-> Module("c2")]
Unbuilt  == [src |-> File("p"), SRC |-> Link(FALSE)]

\* A room whose doorway is wide enough in its description, and in the capture.
Room(clear, blocked) ==
    LET config == Content(Nothing, [lens |-> 1])
        parts  == <<[id |-> "w", kind |-> "world-ir", path |-> "ir", config |-> Nothing],
                    [id |-> "c", kind |-> "capture", path |-> "cap", config |-> "cfg"]>>
        capture == [config |-> config, clear |-> clear, blocked |-> blocked]
    IN  (WORLD_BUNDLE_FILE :> Parsed([parts |-> parts]))
        @@ [ir  |-> Parsed([room |-> "room", bounds |-> [width |-> 2], clear |-> 2]),
            cap |-> Parsed(capture), cfg |-> Entry("file", config)]
MCTrees == ("source-tree" :> {Good, Bad, Repinned, Unbuilt})
           @@ ("world-bundle" :> {Room(2, FALSE), Room(2, TRUE)})

Assertion(id, evaluator, severity, deps, subjects) ==
    [id |-> id, evaluator |-> evaluator, severity |-> severity, deps |-> deps, refs |-> {"q1"},
     subjects |-> subjects, marker_scan |-> FALSE, pin |-> Nothing, check |-> Nothing,
     capture |-> Nothing, min_clear |-> 2, min_bounds |-> <<>>, part_kinds |-> {}]
A1 == Assertion("a1", "identity", 2, <<>>, {[kind |-> "file", at |-> "src"]})
A2 == Assertion("a2", "captured-fact", 1, <<>>, {[kind |-> "captured-fact", at |-> "f"]})
A3 == Assertion("a3", "release-claim", 1, <<"a1">>, {})

\* In a world bundle a1 and a2 are two checks of the room.
RoomCheck(id, check) ==
    [Assertion(id, "world-room", 2, <<>>, {}) EXCEPT
       !.check = check, !.capture = "c", !.min_bounds = [width |-> 2],
       !.part_kinds = {"world-ir", "capture"}]
W1 == RoomCheck("a1", "doorway-clearance")
W2 == RoomCheck("a2", "room-bounds")

Package(spec) ==
    [files |-> [s |-> spec], specs |-> <<"s">>,
     inventory |-> {[path |-> "s", digest |-> spec, normative |-> TRUE]},
     imports |-> {}, product |-> "p", room |-> "room",
     requirements |-> [q1 |-> [testable |-> TRUE, assertions |-> {"a1"}]],
     release |-> [inner |-> 1, outer |-> 2]]
MCPackages == {Package(<<A1, A2>>), Package(<<A2>>)}

Approved == {"identity", "captured-fact"} \cup (IF SwapApproved THEN {"release-claim"} ELSE {})
Bundle(epoch, min, floor) ==
    [epoch |-> epoch, min_epoch |-> min, required |-> {"a1"}, floors |-> [a1 |-> floor],
     approved |-> Approved,
     stages |-> [core |-> Nothing, max_age |-> 5],
     escalation |-> [on_expiry |-> "block", renewal |-> Nothing], signer |-> "approved"]
Old       == Bundle(1, 1, 1)
New       == Bundle(2, 2, 3)
MCBundles == {Old, New}

Change(id, disabled, severity, evaluator) ==
    [id |-> id, disabled |-> disabled, severity |-> severity, evaluator |-> evaluator]
Overlay(changes, adds) == [changes |-> changes, adds |-> adds, grants |-> FALSE]
MCOverlays ==
    {Overlay(<<Change("a1", TRUE, Nothing, Nothing)>>, <<>>),
     Overlay(<<Change("a2", TRUE, Nothing, Nothing)>>, <<A3>>),
     Overlay(<<Change("a1", FALSE, 3, "release-claim")>>, <<>>)}

Debt == [fp |-> <<"a1", "src", "identity-mismatch">>, open |-> TRUE, severity |-> 2]
MCBaselines == {{Debt}}

Fact == [value |-> "p", verdict |-> "clear", pin |-> Nothing]
Issue(time, baseline, exceptions, grandfathers) ==
    [time |-> time, requested |-> Nothing, semantics |-> "fresh-promotion",
     grandfathers |-> grandfathers, baseline |-> baseline, exceptions |-> exceptions,
     facts |-> [f |-> Fact], profile |-> "amd64"]
Excuse(until) == [fp |-> Debt.fp, wildcard |-> FALSE, expires |-> until]
MCIssues ==
    {Issue(1, {}, {}, {[bundle |-> Old, valid_until |-> 2]}),
     Issue(2, {Debt}, {Excuse(2)}, {[bundle |-> Old, valid_until |-> 2]}),
     Issue(2, Nothing, Nothing, {})}

MCWorlds0 ==
   {[tree |-> w[1], kind |-> w[4], package |-> Package(w[2]), bundle |-> w[3],
     overlay |-> Nothing,
     baseline |-> Nothing, exceptions |-> Nothing, facts |-> [f |-> Fact],
     record |-> Nothing, stage |-> 2, revoked |-> FALSE] :
      w \in {<<Good, <<A1, A2>>, New, "source-tree">>, <<Bad, <<A1, A2>>, Old, "source-tree">>,
             <<Good, <<A2>>, Old, "source-tree">>,
             <<Room(2, FALSE), <<W1, W2>>, New, "world-bundle">>}}

\* What PassesAreHonest assumes of the contents, in this instance.
ASSUME HonestContents ==
    SpecsAreNormative /\ TreesAreCommitted /\ (SwapApproved \/ OverlaysKeepRequired)

MCRegistry == [amd64 |-> "d1"]
Launch == build_launch("amd64", "d1")
MCLaunches ==
    {[config |-> Launch, outputs |-> "out"],
     [config |-> [Launch EXCEPT !.image.digest = "d2"], outputs |-> "out"],
     [config |-> Launch, outputs |-> "policy"]}
=============================================================================
