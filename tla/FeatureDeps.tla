----------------------------- MODULE FeatureDeps -----------------------------
(***************************************************************************)
(* The two collectors of feature gates in crates/test-common/src/lib.rs:   *)
(* collect_feature_deps (the SIMD and its transitive dependencies, enabled *)
(* for the activated pass) and collect_dependency_features (the            *)
(* dependencies alone, enabled for the deactivated pass, for which the     *)
(* SIMD's own gate is disabled).                                           *)
(*                                                                         *)
(* Both walk the depends_on graph of the manifest depth first.  The open   *)
(* calls of the recursion are one sequence: the ids their loops have still *)
(* to visit, those of the innermost call first.  The manifest is read from *)
(* a file: depends_on may name ids it does not have, repeat ids, form      *)
(* cycles, and two SIMDs may share a gate (simd_0173 and simd_0174 do).    *)
(***************************************************************************)
EXTENDS Integers, Sequences, Functions

CONSTANTS
    Ids,        \* the SIMD ids the manifest mentions
    Keys,       \* the feature gate addresses
    Manifests   \* the manifests to consider

ASSUME ManifestsAssumption ==
    Manifests \subseteq [simds : SUBSET Ids, dependsOn : [Ids -> Seq(Ids)],
                         address : [Ids -> Keys]]

VARIABLES
    manifest,   \* the manifest
    simdId,     \* the SIMD the runner asks for
    own,        \* collect_feature_deps: the SIMD's own gate is collected too
    work,       \* the ids still to be visited, innermost call first
    visited,    \* the ids visited
    pubkeys     \* the gates collected

vars == <<manifest, simdId, own, work, visited, pubkeys>>

-----------------------------------------------------------------------------
(* The dependency graph.                                                   *)

Deps(m, id) == IF id \in m.simds THEN Range(m.dependsOn[id]) ELSE {}

Closed(m, S) == \A id \in S : Deps(m, id) \subseteq S

\* The ids that `id` depends on, itself included: the least closed set.
Reach(m, id) == {x \in Ids : \A S \in SUBSET Ids : id \in S /\ Closed(m, S) => x \in S}

\* The gates of the known ids of S.
Gates(m, S) == {m.address[id] : id \in S \cap m.simds}

\* The ids whose gates a finished collector returns.
Wanted(m, id) == IF own THEN Reach(m, id) ELSE Reach(m, id) \ {id}

-----------------------------------------------------------------------------
\* Slip: the SIMD is not marked as visited before its dependencies are walked.
Init_Unmarked ==
    /\ manifest \in Manifests
    /\ simdId \in manifest.simds
    /\ own \in BOOLEAN
    /\ work = IF own THEN <<simdId>> ELSE manifest.dependsOn[simdId]
    /\ visited = {}
    /\ pubkeys = <<>>

\* The runner asks only for ids of the manifest (main.rs:192).  The
\* collector of the dependencies has visited the SIMD before it starts.
Init ==
    /\ manifest \in Manifests
    /\ simdId \in manifest.simds
    /\ own \in BOOLEAN
    /\ work = IF own THEN <<simdId>> ELSE manifest.dependsOn[simdId]
    /\ visited = IF own THEN {} ELSE {simdId}
    /\ pubkeys = <<>>

\* Slips: an id seen before ends the whole walk; it is looked at but not taken
\* from the list.
Seen_EndsWalk ==
    /\ work # <<>> /\ Head(work) \in visited
    /\ work' = <<>>
    /\ UNCHANGED <<manifest, simdId, own, visited, pubkeys>>
Seen_Peeks ==
    /\ work # <<>> /\ Head(work) \in visited
    /\ UNCHANGED vars

\* collect_feature_deps_inner returns at once on an id it has seen.
Seen ==
    /\ work # <<>> /\ Head(work) \in visited
    /\ work' = Tail(work)
    /\ UNCHANGED <<manifest, simdId, own, visited, pubkeys>>

\* Slip: the list is pushed as one element.
Visit_PushesList ==
    /\ work # <<>> /\ Head(work) \notin visited
    /\ visited' = visited \cup {Head(work)}
    /\ pubkeys' = Append(pubkeys, manifest.address[Head(work)])
    /\ work' = <<manifest.dependsOn[Head(work)]>> \o Tail(work)
    /\ UNCHANGED <<manifest, simdId, own>>

\* It marks a new id, and collects the gate and walks the dependencies of
\* one the manifest knows.
Visit ==
    /\ work # <<>> /\ Head(work) \notin visited
    /\ visited' = visited \cup {Head(work)}
    /\ IF Head(work) \in manifest.simds
       THEN /\ pubkeys' = Append(pubkeys, manifest.address[Head(work)])
            /\ work' = manifest.dependsOn[Head(work)] \o Tail(work)
       ELSE /\ work' = Tail(work)
            /\ UNCHANGED pubkeys
    /\ UNCHANGED <<manifest, simdId, own>>

Next == Seen \/ Visit

Spec == Init /\ [][Next]_vars /\ WF_vars(Next)

-----------------------------------------------------------------------------
(* Properties.                                                             *)

\* The variables keep their types.
TypeOK ==
    /\ manifest \in Manifests
    /\ simdId \in manifest.simds
    /\ own \in BOOLEAN
    /\ work \in Seq(Ids)
    /\ visited \subseteq Ids
    /\ pubkeys \in Seq(Keys)

Finished == work = <<>>

\* Nothing is lost to the `visited` check: an id that was visited has each of
\* its dependencies visited or still ahead of it, and so has the SIMD itself.
NoDependencyForgotten ==
    /\ simdId \in visited \cup Range(work)
    /\ \A id \in visited : Deps(manifest, id) \subseteq visited \cup Range(work)

\* The surfnet is never given a gate the SIMD does not depend on, at any step.
OnlyDependencies ==
    /\ visited \cup Range(work) \subseteq Reach(manifest, simdId)
    /\ Range(pubkeys) \subseteq Gates(manifest, Wanted(manifest, simdId))

OwnGate == manifest.address[simdId]

\* When the collector returns, the gates are those of the transitive
\* dependencies and of the SIMD itself.  Of the SIMD's own gate this says
\* nothing for the deactivated pass: that is OwnGateExcluded.
CollectsExactlyDependencies ==
    Finished =>
        LET leftOut == IF own THEN {} ELSE {OwnGate}
        IN  Range(pubkeys) \ leftOut = Gates(manifest, Reach(manifest, simdId)) \ leftOut

\* Unless a dependency shares its gate, the SIMD's own gate is not among the
\* gates enabled for the deactivated pass, which disables it (main.rs:215),
\* even if the dependencies lead back to the SIMD.  If one does, it is
\* collected, against lib.rs:34-35 ("excluding `simd_id`'s own feature pubkey"):
\* what is marked as visited is the id, not the gate.
OwnGateExcluded ==
    /\ ~own
    /\ \A id \in Reach(manifest, simdId) \cap manifest.simds :
          manifest.address[id] = OwnGate => id = simdId
    => OwnGate \notin Range(pubkeys)

\* The recursion ends, also on cyclic dependencies.
Termination == <>Finished

=============================================================================
