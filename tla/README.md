# step-redox in TLA+

step-redox reads a STEP file (ISO 10303-21), rewrites the graph of entities in
its DATA sections into a smaller and more meaningful one, and writes it back.
It is a library with command line tools and a browser page.  The program is
sequential and keeps nothing on disk between two calls.  What is hard about it
is not concurrency but *graph surgery*: dozens of passes replace references in
a shared graph, in orders that hash sets decide, and each pass relies on what
the ones before it left; editors find "the same" parameter again in a file they
have just rewritten; everything must fail closed.  The page is the one place
where handlers interleave.

This directory models those parts in TLA+, checks the models with TLC and
proves theorems about them with TLAPS.  `PROJECT.json` lists the components,
the runs, the source lines of every definition, the hazards and the theorems.

To run it: `tlc -config MCReferenceGraph.cfg ReferenceGraph.tla`, and so on
through the table of runs below; `tlapm GraphProofs.tla` for the proofs.

## Inventory

Paths are below `src/` of the repository unless a directory is given.

| Component | State it keeps | Operations | What makes it correct |
|---|---|---|---|
| Reading and writing: `step_io`, `step_document`, `step_entities` | the parsed exchange | `parse` (UTF-8, else GBK; refuses ANCHOR, REFERENCE and SIGNATURE), `write_exchange` | what is written parses to the same graph |
| Reference graph: `step_graph`, `periodic_resize/graph_editor` | forward and inbound references, the deletion set | `descendant_closure`, `propagate_detached`, the detached and the prunable collection, the editor's sweep | nothing dangles, exactly the detached entities go, the loop ends |
| Structural interning: `normalization`, `step_identity` | redirects, cached hashes, dirty set, rounds | `intern_section`, `consolidate_presentation`, `dense_renumber`, `minify_placeholder_names` | only equal values merge; sharing is maximal; references stay closed |
| Geometric interning: `geometric_intern` | first support of each key, redirects | `intern_geometric_supports` | no user's geometry changes; a second pass finds nothing |
| Clean pipeline: `clean_pipeline` | the exchange, counters that gate later passes | `clean_bytes`: normalisation, recovery, instancing, stabilisation | one invocation reaches a fixed point |
| Curve and surface recovery: `line_recovery`, `bezier_recovery`, `surface_recovery` | the graph | splines become lines, Béziers, extrusions | shape and parameterisation of users kept |
| Partition recovery: `partition_recovery` | union-find over edges and vertices, a copy for rollback | `recover_partitioned_bodies` | all of it or none |
| Face coalescing: `face_coalesce` | groups of faces on one support | `coalesce_same_support_faces` | a single boundary loop, no face lost |
| Instancing: `instances`, `planar_features`, `spherical_caps`, `curve_replicas`, `surface_replicas` | families, new maps and placements, styles | replaces repeated geometry by mapped items and replicas | every replaced root has a style and a place again; nothing leaks |
| Patterns: `patterns` | the lattice of mapped items | detection, `resize_filled_linear_pattern` | the row after an edit is the lattice asked for |
| Count parameters: `parameters`, `periodic_bodies`, `lib` | groups of rows and bodies | `resize_count_parameter_bytes` with its anchors | rows and bodies move together; the edit is verified or refused |
| Periodic chains: `periodic_chains`, `periodic_resize/*`, `lib` | sites, gaps, seams of a body | expand, shrink, weld, verify | the shell stays closed, the grammar is found again |
| Complete IR: `complete_ir` | candidates per solid, peel journal, the kernel's current file | provider cascade, local reduction loops, kernel transactions | the model that is kept builds the body; provenance names the file that was read |
| Shape recognition: `solid_extrusions`, `solid_revolutions`, `solid_sweeps`, `dominant_extrusions`, `formed_sheet`, `edge_treatments`, `inverse_edge_treatment`, `reduced_brep`, `shape_identity`, `brep`, `profile_curves` | none | pure functions of geometry | recognised shape equals the boundary |
| CAD IR and kernels: `cad_ir`, `cad_recovery`, `cad_kernel`, `kernel_topology`, `kernel_source_load`, `boundary_proof`, `body_corpus` | feature graph, evaluation memo, patches | build, validate, evaluate, export | features refer backwards; a patch names what the kernel loaded |
| Reports and tools: `analysis`, `compatibility`, `bin/*` | none | reports, command line | |
| Page and bindings: `web/` | file, bytes, report, button | pick a file, run, edit, download | the page shows what an edit will be applied to |

How they meet: every pass takes the entity vector and returns it changed; a
pass that unhooks something hands roots to the collection of the reference
graph (or runs a loop of its own that does the same); passes that create values
rely on `intern_section` afterwards; the editors parse, detect, rewrite, intern,
renumber, detect again and compare.  The page calls the bindings, which call
`clean_bytes` and the editors, and sends an *index into the last report* back.

The hard behaviours, each with its line and the properties aimed at it, are the
hazards of `PROJECT.json`: orders of hash sets, fixed-point loops that must end
and must not end early, cached hashes and redirect chains, caps on rounds, edits
that refuse half way, parameters identified by counts, sequences of edits, and
awaits.

## Modules

Every component has a module that EXTENDS nothing but its helpers; an `MC...` module
gives it sample files; where several small components share a run, an `MC...` module puts
them side by side (a behaviour is one of them, the other files stand still).

| Components | Modules | Run |
|---|---|---|
| reference graph | `EntityStore`, `ReferenceGraph`, `GraphProofs` | `reference_graph` |
| structural and geometric interning | `Intern`, `GeometricIntern`, `InternProofs` | `interning` (`MCInterning`) |
| patterns, count parameters | `PatternResize`, `CountEdit`, `PatternResizeProofs`, `CountEditProofs` | `editors` (`MCEditors`) |
| periodic chains and bodies | `PeriodicSolid`, `ChainGrammar`, `ChainEdit`, `BodyEdit` | `periodic_edits` (`MCPeriodicEdits`) |
| body passes, value passes, instancing | `BodyMerge`, `CleanPipeline`, `Instancing`, `BoundaryFeatures`, `FeatureInstancing`, `SphericalCaps`, `SampleShells`, `BodyMergeProofs`, `InstancingProofs`, `CleanPipelineProofs` | `cleaning` (`MCCleaning`, its files in `MCCleaningSamples`) |
| recognition, CAD IR, recovery | `FaceViews`, `EdgeTreatments`, `ReducedBrep`, `Prisms`, `CadGraph`, `CadModel`, `KernelTopology`, `CompleteIr`, `GraphProofs` | `recovery` (`MCRecovery`) |
| page | `UnscrewApp`, `UnscrewAppProofs` | `unscrew_app` |

### Graph and values

`ReferenceGraph` models `step_graph.rs`.  Its state is the section (`live`,
`refs`) and the variables of the collector's loops: the worklist (`stack`,
`descendants`) and the fixed point (`todo`, `changed`, `delete`).  One action is
one iteration (`Pop`, `Visit`), the start of a pass (`EndDescend`, `NextPass`) or
the sweep; any member of a hash set may come next.  Between collections a pass
rewires references.  `BeginDetached` has the caller's duty as its guard: the seed
has been unhooked from everything that stays.  A caller that failed it would not be found
here; the two callers are in `FeatureInstancing` and `SphericalCaps`, where
`ItemsStayAssigned` says that nothing dangles.
`EntityStore` is what a collection promises, without loops: the live entities,
minus the least set that holds the seed and everything below the roots whose
parents are all in it.  `ReferenceGraph` implements it under the mapping
`collecting <- (pc # "edit")`.

`Intern` models `intern_section`: one action per stage of a round, in the order
of the code, with the cap on the rounds.  An entity is a keyword with its plain
parameters (`label`), whether it is a value, and its references.  A hash is the
key it is computed from; two keys that collide only share a bucket, and the code
compares again inside a bucket.

`GeometricIntern` models `intern_geometric_supports`: the scan with its two guards
(safe roles, safe line aliases), the rewriting, the collection with the whole
closure of the duplicates as candidates.  Quantised coordinates are `Loci`;
whether an origin is near enough for an edge is the relation `near`.  Where it
speaks about the collection it uses the operators of `EntityStore`.

`CleanPipeline` models the order of `clean_bytes` over a small file: names emptied,
values interned, presentation chains consolidated, surface and curve replicas
created, the gates of `stabilize_output`, the numbering; and then the whole once
more, on what was written.  Each pass is one action that does what the pass
leaves behind.  A geometry is a shape with a position, a replica refers to the entity
it moves.  `Whole` says what a section of the program is, and is the type of the model's:
ids are distinct, references lead to what their attribute admits.

### Bodies and instances

`BodyMerge` models `recover_partitioned_bodies` and `coalesce_same_support_faces`, one
after the other as the pipeline runs them, twice: planning (interfaces, components,
their conditions), welding or rolling back, rebuilding solid, style and lists, and the
collection.  Topology is explicit (vertices, edges, loops with senses, faces, shells);
geometry is what the keys read of it: points, traces, levels.  What a solid shows is
computed from its faces independently of the passes (`Skin`).

`Instancing` models `instances.rs`: families of congruent solids, found by quarter turns
about z, become mapped items, one family per step; then lists and styles are patched and
the duplicates collected.  The assembly conversion plans first and rolls back when the
product tree is none it supports.  A shape is a set of corners with looks.  `SceneIsKept`
compares what each reader of the file (each representation, a layer, a foreign user)
shows before and after, computed by walking the references.  It is assumed that every
style is in a presentation or in a layer and that no file has an assembly already; a top
representation that is emptied stays as an empty one.

`BoundaryFeatures` models `planar_features.rs`: patches of faces that hang on planar hosts
by whole inner bounds, their signatures, the families they make, the leaves among those,
the tool that closes a patch with caps, and the peel that takes families off and leaves
healed hosts.  `FeatureInstancing` is the mapped emitter on top of it (the first boss of a
family moves into a representation, all members become mapped items), `SphericalCaps` the
older pass for balls on planar faces.  Assumed: nobody else uses faces of a feature.  The
emitter does not fold coplanar islands, and bosses of one style nested in one another
make its plan refuse, in the code as in the model.

### Periodic editors

`PatternResize` models a row of mapped items and its editor: detection (the
lattice, the implicit site of the source), validation, the new origin for each
anchor, reuse, creation and removal of items, the splicing into the parent and
into the presentation lists, the pruning.  Each edit detects the row anew in what the
edit before it wrote.

`CountEdit` models the count editor above it: groups of rows and bodies, the
bodies then the rows of one pass, verification, the second pass of a centred
edit.  A row or body is only its extent (lattice, first site, number of sites).

`PeriodicSolid` is a boundary representation and the graph editor on it: cloning with
all descendants, styles, welding, moving, pruning.  `ChainGrammar` models
`periodic_chains.rs`, the vote for a lattice and the partition of the faces into sites
and gaps; `ChainEdit` inserts and removes units, pairs and welds the seams, stretches
the faces that run along, verifies with the grammar, and does the centred edit as two.
`BodyEdit` does the same for the bodies of a count parameter, driven by a row.  One axis;
a face is a kind with a set of edges.  A file is compared with `Ideal`, the solid of the
requested design built from nothing.

### Recovery

`FaceViews` is a face as the recognisers see it: support, loops of oriented uses.
`EdgeTreatments` finds chamfers, `ReducedBrep` takes them and redundant seams away on a
copy that must be closed, `Prisms` proves a solid, or a core in it, to be a profile swept
along an axis.  Planes and straight edges on integers only.

`CadGraph` is the feature graph: nodes that refer to earlier ones, provenance, `append_model`,
validation.  `CadModel` adds cost, unions in bounded trees, chamfers, and evaluation.  The exact kernel is a
set of points of a grid that never meets a face: a node denotes those inside of it.

`KernelTopology` writes a peel, a merge of coplanar faces or the removal of chamfers as one
patch to the kernel's own topology, merges patches, and models as an external part what
the kernel does with them: import, edit, check, export under new ids.

`CompleteIr` models `complete_ir.rs`.  An action is a stage of the cascade: direct candidates;
for each section the peel, one round a step, with the journal's view and replay; fragments
for congruent solids; reduced solids; and, when a kernel owns the topology, its three
phases over the sources that are still unrecovered.  The kernel may fail any import, refuse any
edit that fits and reject any result.  What is kept for a source is the cheapest
candidate, a constructive one before a chain.

`UnscrewApp` models the page, split at the awaits that can suspend.  The handler
of a run waits for the module, the file's content and a frame; an edit runs
through, because it is only possible once the module is there and an await on a
settled promise lets no event in between.

Some definitions stand next to a *slip*: a variant with a plausible
mistake, marked as such in its comment.  No specification uses a slip; for every
property `PROJECT.json` names the slip (`mutants`) that, put in the place of the
definition, makes TLC report that property, so no property holds vacuously.

## Runs

| Run | Instance | Shows |
|---|---|---|
| `reference_graph` | 3 entities, all graphs (cycles, dangling), 175,831 states | orders of the hash sets never matter: nothing dangles at any step (`NoSurvivorRefersToDeleted`, `SweepLeavesNoDangling`), exactly the detached set goes (`ImplementsStore`), every collection ends (`CollectionTerminates`) |
| `interning` | all sections of 5 values with at most one reference, and of 4 with none or two beside a fifth; 3 supports, 3 users, 3 frames | deep and wide sharing (`MaximalSharing`), no wrong merge (`MergesOnlyEqualValues`), redirects resolve and cached hashes are current; supports keep geometry, duplicates are collected exactly and a second run merges nothing |
| `editors` | 3 rows, 2 bodies, 4 to 6 sites, one lattice; rows of 4 or 5 items, counts to 6, two lists | an accepted count edit is the edit asked for, on what was edited (`SameGrammarRecovered`, `ParametersStayApart`, `EditIsAnchored`); an edited row is the lattice asked for, listed in order, with nothing left over |
| `periodic_edits` | chains of 6 to 8 sites of every design beside a second chain; bodies of 4 to 6 sites, two edits | an accepted edit leaves exactly the solid asked for (`EditsAreAsAsked`), closed and with its styles (`ShellsAreClean`), and a regular solid is never refused (`RegularSolidsAreEdited`) |
| `cleaning` | 1,950 files of bodies, 408 of values, 769 of solids, 46 of features; 44,957 states | shells stay closed, bounds and skin are kept; no value moves (`ValuesKeepTheirMeaning`); scenes are kept for every reader; nothing dangles, nothing is left over (`FilesAreWhole`), no assignment or support is lost (`ItemsStayAssigned`); a second cleanup or run changes nothing |
| `recovery` | 22 files, with and without a kernel, 2,488 states | every kept model builds its body, and at every round what is left with the replay so far does (`BodiesAreRebuilt`); tools overlap what they join and stick out of what they cut (`ToolsReachThrough`); provenance names entities of the file (`ProvenanceIsOfTheSource`); planned patches fit the kernel's topology (`PatchesFit`) |
| `unscrew_app` | 2 files, 3 overlapping runs, 2 edits | rows and bytes agree, the button comes back |
| `pattern_resize_completed` | `MCEditorsCompleted.cfg`: the rows of `editors` that the source completes, counts to 8 | two instances in one place, after an edit that left the source at the end of its row (a finding) |
| `count_edit_two_axes` | `MCEditors` without row edits: 3 rows, 3 bodies, two lattices | the verification can be satisfied by another parameter (a finding) |
| `body_merge_round` | stacked cylinders; half disks | edges that differ are united (a finding) |
| `clean_pipeline_surfaces` | values with surface replicas | a second cleanup still changes the file (a finding) |
| `instancing_auxiliary` | solids with an auxiliary representation | the assembly conversion leaves a dangling reference (a finding) |

Why the bounds are enough.  *Reference graph:* a wrong collection needs a root, a
shared child and another parent; with three entities every graph on them is an
initial state and every rewiring a step.  *Interning:* a stale hash needs a
redirect of a redirect, seen by a parent visited in another round; five chained or
four branching values contain it in every arrangement; for supports a first, an unsafe
duplicate and a third.
*Patterns:* 4 is the smallest row the code detects; 4 to 6 sites with both
parities cover reuse, creation and removal at either end, and the positions cover
the source before, inside and after the row.  *Counts:* two parameters that can
merge and a row without a body.  *Chains:* six sites are the fewest the grammar takes; two
more or two less need every anchor and parity; the second chain is what a wrong match by
counts finds.  *Bodies:* a chain of three has a middle body both of whose seams are welded; all
orders of ids and all directions of the curves are taken, because the canonical edge
is the smallest id.  Closed rims and facing half disks are only in
`body_merge_round`; a second representation lists all solids or is absent.  *Values:*
three of a kind give a source and two targets with equal or different offsets.
*Instances:* a family of two or three beside a residual solid and a second family;
brackets and hooks have one position in four turns, plates two, cubes four.  *Features:*
bosses in every quarter, in two looks, nested, with pits and holes through.
*Recovery:* towers and spires need two or three rounds, `MaxRounds` is 3 where the code has 32, so
that the cap is met; `MaxFlat` is 2 where the code has 16, so that three cores make a tree;
`Margin` is the code's overlap in units of the grid.  *Page:* a third run adds nothing a second did
not show, but the model has it.

`CHECK_DEADLOCK FALSE` stands where the system really stops: a file without a
parameter cannot be edited (`MCEditors`, `MCPeriodicEdits`), a pass or a recovery ends
(`MCInterning`, `MCCleaning`, `MCRecovery`).

Fairness.  `ReferenceGraph`: weak fairness of the collector, which is a loop of
one thread that nothing else interrupts.  `UnscrewApp`: the browser settles the
promise of the module, of the file and of the frame, either way; the user owes
nothing.

## Findings

Five runs expect a violation, each of something the repository says of itself:

* `pattern_resize_completed`: the comment at `patterns.rs:43` speaks of a site that the source
  occupies rather than a mapped item, and an edit of such a row refuses to drop that site
  (line 729).  It may become the *last* site, though, and there it is not recognised any more
  (line 547): -4, -2, (0), 2, 4 is taken to seven sites from the start and to five from the
  end, which gives (0), 2, 4, 6, 8, and the next centred edit to six puts a mapped item on the
  source.  The run starts only with rows whose lattice has the source as a site.  One that is
  listed beside a row, off its lattice, can be met by a single centred edit of half a pitch;
  no comment speaks of it.
* `count_edit_two_axes`: verification compares numbers, not members, axis or pitch
  (`lib.rs:1236`); `README.md:39-41` promises the same grammar.
* `clean_pipeline_surfaces`: the condition for interning again at the end of a
  cleanup leaves surface replicas out (`clean_pipeline.rs:293`), against the comment
  above it (lines 290-292); the placements a replica creates stay unmerged until the
  next cleanup.
* `body_merge_round`: `partition_recovery.rs:328` promises to unite only equivalent
  topology.  The sense of a welded edge is found from its ends (line 399), which says
  nothing of a closed rim; and the key of an arc (line 724) is the same
  for both halves of a circle.
* `instancing_auxiliary`: every `*SHAPE_REPRESENTATION` is retargeted to mapped items, but
  the assembly conversion counts their owners among the B-rep ones only
  (`instances.rs:652`) and deletes them all (line 1135); an auxiliary representation keeps
  references to nothing, although the comment at lines 325-327 expects such files.

Observed while modelling, without a run of their own:

* A blind recess is never recovered: the cap of a tool is turned only for additive
  families (`planar_features.rs:819`), so the tool of a pocket has a floor and a cap that
  both look outwards, and `cap_faces_bound_material_interval` (`solid_extrusions.rs:597`)
  refuses it, while `planar_features.rs:656` promises a closed tool per family.  The file
  `Pit` of `MCRecovery` shows it; holes through work.
* `remove_edge_treatment` never succeeds for a straight chamfer of a closed solid: the
  faces at its ends keep its edges, and the copy is not closed (`reduced_brep.rs:275`).
* The patches of coplanar faces and of treatments do not apply a bound's orientation
  and a face's sense as the peel's does (`kernel_topology.rs:441`,
  `inverse_edge_treatment.rs:233`, against 385); `PatchesFit` asks of them only where both agree.
* The local reductions fail after the last of their rounds even when it was the one that
  reached the fixed point (`complete_ir.rs:1159`).
* Where both directions of a box boss would do, the axis that is preferred can be one its tool
  cannot be lengthened along; the solid then stays unrecovered (`complete_ir.rs:1652`).
* A solid that two representations list gives two contexts whose families claim the
  same faces; the peel is refused and with it the whole report (`planar_features.rs:1007`).
* In files that mark no outer bounds the outer walls of a plate with one hole are peeled as a
  feature; the model that results is right all the same.

## Proofs

TLC checks an instance; the theorems hold for all values of the constants that
satisfy the assumptions named in the modules.

* `GraphProofs`, about the reference graph.  The inductive invariant adds to the type invariant
  *Worklist* (what is reached is closed, except through the stack) and *Fixpoint*
  (a pass that has changed nothing so far has looked at everything outside `todo`;
  whatever is in `delete` is in every set closed under detachment).  From it:
  no survivor refers to the deleted set (`SurvivorsClean`), no sweep dangles
  (`NoDangling`), and `Refinement`: the sweep is the abstract `Collect`, every other
  step of the collector a stutter.
* `InternProofs`.  Redirects lead backwards, two always reach a survivor
  (`RedirectsAlwaysResolve`); merged entities have equal keys under the redirects
  (`MergingIsSound`), for which the keys must be shown to survive compression; what
  is not dirty has a current hash (`HashesStayCurrent`), because a key changes only
  if a direct reference resolves differently and then `ValueParents` names it; with
  both, a round without a duplicate, or one that leaves nothing dirty, ends with all
  keys different (`SharingIsMaximal`).  The first duplicate of a value is a least
  element (`HasFirst`).
* `InternProofs`, about the geometric pass, assuming that supports, frames and users are
  different entities.  The module extends `MCInterning`, where a behaviour is one of the two
  passes; the theorems are about the instance `Geo` of `GeometricIntern` in it.
  The scan remembers why each duplicate may go (*Merges*): its first has its key, every user
  trims it, every edge of a line is near.  The rewriting happens once (*Rewritten*), so
  what a user sees is what it had or the first of that (`GeometryKept`).  *Collection*
  is the fixed point again, for the loop this pass has of its own; it adds that the
  candidates are supports and frames only, so a user is never deleted, nor a
  support it holds (`ParametersKept`, `CollectsDetached`).  For `SecondRunFindsNothing` the scan
  also remembers why a support is *not* a duplicate (`Scanned`): each that stays is the first
  of its key or failed a guard, and both survive the rewriting, because no key and no
  guard reads the supports that go.  `SupportsKept` and `SupportsMerged` are the
  conjunctions the run checks, `BothTypesCorrect` its `Types`.
* `CountEditProofs`, under `OneLattice` where it is about groups.  What has been visited
  has the new number of sites, the rest is the file's; a recovered group with that number
  then contains what was edited, and two finite sets of one size, one inside the other, are
  equal (`SameGrammarIsRecovered`, `ParametersNeverMerge`).  For the anchor (`EditsAreAnchored`)
  the invariant says of each member which of the two passes has reached it and how
  far its first site has moved since the request; the halves of a centred edit add up.
  Without `OneLattice` the statements are false: see the findings.  The module extends
  `MCEditors`, where a behaviour is a count edit or a row edit, and carries the theorems of
  `PatternResizeProofs` over to it (`BothEditorsTyped`, `RowsStayListed`,
  `RowEditsMakeTheLattice`).
* `PatternResizeProofs`, assuming *BoundAssumption* and *RowsAssumption* (the rows of the
  file are detectable ones, anywhere on the line).  The inductive invariant is
  `TypeOK /\ Shown /\ OnTheGrid`: the section shows the row that was read last, and all its
  places are on one lattice.  One edit is then a fact about operators: the row that is
  detected is replaced and nothing else (`RowIsReplaced`), its places are the sites that were
  asked for (`PlacesAreTheSites`), and these fill the lattice without a gap
  (`RowFillsItsLattice`).  Lists stay in step because items are spliced where the old ones were
  (`ListsKeepFollowing`), and what is collected is what is no longer shown
  (`NothingIsLostOrLeft`).
* `BodyMergeProofs`, assuming *InputsAssumption*: the files are whole sections (finite, each
  entity of its kind, references to what is there).  A pass is a function of the section it
  began with, so the inductive invariant `BodyInv` says which: while the partition runs, the
  section is the original, welded, or welded and rebuilt, with the plans of the original
  (*Phases*).  The rest are lemmas about operators.  The union-find, which is a fold over
  edges, finds an equivalence and unites only edges of one key and vertices at one point
  (`ConnectedAlike`, `RootsAreAlike`); welding, rebuilding, rolling back, coalescing and collecting
  each leave a whole section whole, for every choice of the orders (`BodiesAreWhole`).
  That an edge's use leads, after its replacement, where it led before (`TripReplaced`), and so
  a face keeps its path (`WeldedPaths`, `RebuiltPaths`, `SweptPaths`), needs the key to tell
  edges apart: *Told* says that edges of one key run along the same and are open, and that
  no edge has two vertices in one place.
  The code does not ensure it (the finding `body_merge_round`: closed rims and half
  disks), so it is a hypothesis, in two forms.  `ToldBoundsAreKept` needs it only of the seam edges of
  the section at hand; `BoundsOfToldFilesAreKept` needs it of all the edges of the file that was
  read, shows that every pass keeps it, and concludes the property the run checks.  972 of the 975 files of bodies of the run
  satisfy it, and none of the eight of `body_merge_round`.
  That nothing is left over (`BodiesLeaveNoOrphans`) goes down from the entities that count:
  references lead from a kind to a lower one (`RefsLeadDown`), so the collection's bounded
  loops reach their fixed points, and whoever is not among its candidates keeps a user
  (`WeldedSpares`, `CoalesceSpares`).  `InUse` says of a section that each entity counts or is used, which for references
  that lead down is the same as no orphans (`NoOrphans`).
  Functions defined by recursion in a LET are choices to the prover; `Recursion` gives
  their existence, `StepByStep` the induction over their steps, by sets of numbers.
* `InstancingProofs`, assuming *InstancingAssumption* (whole files without an assembly,
  every style listed) and, for the assembly pass, *NoAuxiliary* (no shape representation of
  solids; with one the statement is false, see the finding `instancing_auxiliary`).  The
  inductive invariant `SolidInv` says what a section is like at each step.  *Emitting*: the
  file with families emitted, where only what is to be collected and the new styles lack a
  user, and the lists are untouched.  *Relisted*: the lists have the new styles, nobody the
  old ones.  *Converting*: maps lead to sources of one solid each.  *Building*: the
  representations still to convert have their mapped items, the others a root, a product and
  occurrences.  It is needed because the properties only speak of the end, where
  all of these meet: the collection goes down from duplicates and old styles to a fixed point
  and takes nobody whom somebody that stays refers to (`DeletedIsClosed`), the assembly deletes mapped
  items of representations that are all converted.  *Settled*, that a representation has no family left,
  grows with the steps, and makes the second run a stutter (`MappedOutputsAreFixedPoints`).
  `MCCleaning` instantiates this module, so the theorems hold of its solids:
  `FilesStayWhole` of `BodyMergeProofs` puts them together with the bodies' to the property
  `FilesAreWhole` of the run.  Its hypotheses on the files (no orphans, `NoAuxiliary`) hold of
  the samples, which TLC evaluates (`SamplesAssumption`).
* `CleanPipelineProofs`, assuming that the files are whole (`SectionsAssumption`), with any
  options.  The invariant `ValueInv` is that the section *Keeps* what the file had: it is
  whole, and its topology means the same shapes in the same order.  Each pass
  keeps it, so every sequence of passes and both cleanups do (`ValuesAreWhole`,
  `ValuesMeanTheSame`).  Minifying, interning and renumbering carry each entity to one of its
  kind whose references are carried along, and what is carried has its shape
  (`CarriedMeaning`); interning carries to the first entity of the same term, and terms are the
  recursion unrolled three times, as deep as shapes go (`TermsAreUnrolled`).  A merged
  presentation refers to more topology (`GrownKeeps`).  Both replica passes are one
  kind of step (`FactoredKeeps`): targets become replicas of a source, translated to where
  they were, aliases become their source, and nothing that stays uses what is
  collected (`SweptWithUsers`).  `Whole` also asks that a curve with a replica is alone of its
  shape.  Otherwise the pass could turn that curve into a replica, and there would be a replica of a
  replica, which the shapes of the model do not follow.  Files without replicas satisfy it, and
  so does what the pass itself writes; what the program does to a file that brings
  such curves along is not covered.
* `GraphProofs`, about the operators of `CadGraph`, for any models: `AddedIsValid`, and `AppendedIsValid`,
  for which `shifted` must move every child of every operation by the same offset
  (`ShiftedChildren`).  Whether a model denotes the body is checked by `BodiesAreRebuilt`.
* `UnscrewAppProofs`.  A held button has a handler in one of the three waits; rows
  are of the bytes; and rows are only shown once the module is there.

Only model-checked: liveness (`CollectionTerminates`, `ButtonComesBack`; liveness and
ENABLED are beyond the prover); that shells stay closed and skins are kept, which compare
sums and geometry over all faces of a solid; what scenes show, which is computed from the
cells inside solids; the feature and cap passes of `MCCleaning`, and with them its `Types` (of which
`BodiesAreWhole`, `ValuesAreWhole` and `SectionsStayWhole` are three parts of four);
that assignments are kept (`ItemsStayAssigned`); `OutputsAreFixedPoints`, but for the mapped items
(a second run of the assembly pass after a rollback makes the families again before it
rolls back); the periodic editors, whose specification is the solid
`Ideal`, itself built by an induction over the sites; and the recovery, whose definitions
recurse over models and rounds.

## Not modelled

Three hazards of `PROJECT.json` have no property: what sixteen rounds of interning leave
unmerged (`MaximalSharing` speaks of passes the cap did not stop), the index of a parameter
that the page applies to bytes cleaned again (there is no detection in the cleaning modules),
and the shell of a solid that a second reader keeps after its partition was welded.

Floating-point geometry (tolerances, quantisation, fits) is represented only by what
it decides.  Reading and writing text is a conversion the parser crate does.  Line, Bezier
and surface recovery, revolutions, sweeps and formed sheets are pure and numeric; they would only
add candidates to the recovery.  Two-dimensional patterns are read only.  The geometry kernel is a
library.  Harnesses, tools and experiments are not part of the program.  `PROJECT.json` gives the
reason for each component.

## Plan

1. Done: the modules of the table above.
2. Open in the model: presentation lists that share the styles of a row (`patterns.rs:1078`); the
   recovery passes inside `CleanPipeline` with the gates of each output profile; round edges
   in `EdgeTreatments`; revolutions as a second recogniser.
3. Open in the proofs: the feature and cap passes, so that `MCCleaning`'s `Types` is whole;
   the assignments and orphans of the value passes; that shells stay closed under welding;
   types and provenance of `CompleteIr`; that the scene of `Instancing` is kept by one family;
   the invariants of the chain edit.
