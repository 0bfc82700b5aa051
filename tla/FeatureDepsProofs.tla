-------------------------- MODULE FeatureDepsProofs --------------------------
(* What the collectors of feature gates compute, for every manifest.       *)
EXTENDS FeatureDeps, SequenceTheorems, FiniteSetTheorems, TLAPS

-----------------------------------------------------------------------------
(* Lemmas on sequences.                                                    *)

\* A non-empty sequence holds its head and what its tail holds.
LEMMA RangeHeadTail ==
    ASSUME NEW S, NEW s \in Seq(S), s # <<>>
    PROVE  Range(s) = {Head(s)} \cup Range(Tail(s))
<1>1. /\ Tail(s) \in Seq(S)
      /\ Len(Tail(s)) = Len(s) - 1
      /\ \A i \in 1..Len(Tail(s)) : Tail(s)[i] = s[i + 1]
  BY HeadTailProperties
<1>2. /\ Range(s) = {s[i] : i \in 1..Len(s)}
      /\ Range(Tail(s)) = {Tail(s)[i] : i \in 1..Len(Tail(s))}
  BY <1>1, RangeEquality
<1>3. Len(s) \in Nat \ {0} /\ Head(s) = s[1]
  BY EmptySeq
<1>4. ASSUME NEW x \in Range(s) PROVE x \in {Head(s)} \cup Range(Tail(s))
  <2>1. PICK i \in 1..Len(s) : x = s[i]
    BY <1>2
  <2>2. CASE i = 1
    BY <2>1, <2>2, <1>3
  <2>3. CASE i # 1
    <3>1. i - 1 \in 1..Len(Tail(s))
      BY <2>3, <1>1, <1>3
    <3>2. Tail(s)[i - 1] = x
      BY <3>1, <1>1, <1>3, <2>1
    <3> QED BY <3>1, <3>2, <1>2
  <2> QED BY <2>2, <2>3
<1>5. Range(Tail(s)) \subseteq Range(s)
  <2> SUFFICES ASSUME NEW i \in 1..Len(Tail(s)) PROVE Tail(s)[i] \in Range(s)
    BY <1>2
  <2>1. i + 1 \in 1..Len(s)
    BY <1>1, <1>3
  <2> QED BY <2>1, <1>1, <1>2
<1>6. Head(s) \in Range(s)
  BY <1>2, <1>3
<1> QED BY <1>4, <1>5, <1>6

\* Append adds its element to the range.
LEMMA RangeAppend ==
    ASSUME NEW S, NEW s \in Seq(S), NEW e \in S
    PROVE  Range(Append(s, e)) = Range(s) \cup {e}
<1>1. Append(s, e) = s \o <<e>> /\ <<e>> \in Seq(S)
  BY AppendIsConcat
<1>2. Range(<<e>>) = {e}
  BY DEF Range
<1>3. Range(s \o <<e>>) = Range(s) \cup Range(<<e>>)
  <2>1. <<e>> \in Seq(S)
    BY <1>1
  <2> QED BY <2>1, RangeConcatenation
<1> QED BY <1>1, <1>2, <1>3

\* The empty sequence holds nothing.
LEMMA RangeEmpty == Range(<<>>) = {}
BY DEF Range

-----------------------------------------------------------------------------
(* Lemmas on the dependency graph.                                         *)

\* The manifest in use has the fields the code reads.
LEMMA ManifestType ==
    ASSUME NEW m \in Manifests
    PROVE  /\ m.simds \subseteq Ids
           /\ m.dependsOn \in [Ids -> Seq(Ids)]
           /\ m.address \in [Ids -> Keys]
BY ManifestsAssumption

\* The dependencies of an id are ids.
LEMMA DepsType ==
    ASSUME NEW m \in Manifests, NEW id \in Ids
    PROVE  Deps(m, id) \subseteq Ids
<1>1. m.dependsOn[id] \in Seq(Ids)
  BY ManifestType
<1> QED BY <1>1, RangeOfSeq DEF Deps

\* The reachable ids hold the id itself and are closed under dependencies.
LEMMA ReachClosed ==
    ASSUME NEW m \in Manifests, NEW id \in Ids
    PROVE  /\ id \in Reach(m, id)
           /\ Closed(m, Reach(m, id))
<1>1. id \in Reach(m, id)
  BY DEF Reach
<1>2. ASSUME NEW x \in Reach(m, id), NEW y \in Deps(m, x)
      PROVE  y \in Reach(m, id)
  <2>1. x \in Ids /\ y \in Ids
    BY DepsType DEF Reach
  <2>2. ASSUME NEW S \in SUBSET Ids, id \in S, Closed(m, S)
        PROVE  y \in S
    <3>1. x \in S
      BY <2>2 DEF Reach
    <3> QED BY <3>1, <2>2 DEF Closed
  <2> QED BY <2>1, <2>2 DEF Reach
<1> QED BY <1>1, <1>2 DEF Closed

\* They are the least such set.
LEMMA ReachLeast ==
    ASSUME NEW m \in Manifests, NEW id \in Ids,
           NEW S \in SUBSET Ids, id \in S, Closed(m, S)
    PROVE  Reach(m, id) \subseteq S
BY DEF Reach

-----------------------------------------------------------------------------
\* The variables keep their types.
THEOREM TypeCorrect == Spec => []TypeOK
<1>1. Init => TypeOK
  <2> SUFFICES ASSUME Init PROVE TypeOK
    OBVIOUS
  <2>1. simdId \in Ids /\ manifest.dependsOn[simdId] \in Seq(Ids)
    BY ManifestType DEF Init
  <2>2. work \in Seq(Ids) /\ visited \subseteq Ids
    BY <2>1 DEF Init
  <2> QED BY <2>2 DEF Init, TypeOK
<1>2. TypeOK /\ [Next]_vars => TypeOK'
  <2> SUFFICES ASSUME TypeOK, [Next]_vars PROVE TypeOK'
    OBVIOUS
  <2>1. CASE Seen
    <3>1. Tail(work) \in Seq(Ids)
      BY <2>1, HeadTailProperties DEF Seen, TypeOK
    <3> QED BY <2>1, <3>1 DEF Seen, TypeOK
  <2>2. CASE Visit
    <3>1. Head(work) \in Ids /\ Tail(work) \in Seq(Ids)
      BY <2>2, HeadTailProperties DEF Visit, TypeOK
    <3>2. /\ manifest.dependsOn[Head(work)] \in Seq(Ids)
          /\ manifest.address[Head(work)] \in Keys
      BY <3>1, ManifestType DEF TypeOK
    <3>3. work' \in Seq(Ids)
      <4>1. CASE Head(work) \in manifest.simds
        <5>1. work' = manifest.dependsOn[Head(work)] \o Tail(work)
          BY <2>2, <4>1 DEF Visit
        <5> QED BY <3>1, <3>2, <5>1, ConcatProperties
      <4>2. CASE Head(work) \notin manifest.simds
        BY <2>2, <3>1, <4>2 DEF Visit
      <4> QED BY <4>1, <4>2
    <3>4. pubkeys' \in Seq(Keys)
      <4>1. CASE Head(work) \in manifest.simds
        <5>1. pubkeys' = Append(pubkeys, manifest.address[Head(work)])
          BY <2>2, <4>1 DEF Visit
        <5> QED BY <3>2, <5>1, AppendProperties DEF TypeOK
      <4>2. CASE Head(work) \notin manifest.simds
        BY <2>2, <4>2 DEF Visit, TypeOK
      <4> QED BY <4>1, <4>2
    <3> QED BY <2>2, <3>1, <3>3, <3>4 DEF Visit, TypeOK
  <2>3. CASE UNCHANGED vars
    BY <2>3 DEF vars, TypeOK
  <2> QED BY <2>1, <2>2, <2>3 DEF Next
<1> QED BY <1>1, <1>2, PTL DEF Spec
-----------------------------------------------------------------------------
(* The inductive invariant: the walk has reached only what the SIMD depends *)
(* on, it still has ahead of it every dependency it has not visited, and it *)
(* has collected the gates of exactly the ids it visited.                  *)

Collecting == visited \ (IF own THEN {} ELSE {simdId})

IInv ==
    /\ TypeOK
    /\ NoDependencyForgotten
    /\ visited \cup Range(work) \subseteq Reach(manifest, simdId)
    /\ ~own => simdId \in visited
    /\ Range(pubkeys) = Gates(manifest, Collecting)

LEMMA IInvInit == Init => IInv
<1> SUFFICES ASSUME Init PROVE IInv
  OBVIOUS
<1>1. TypeOK
  <2>1. simdId \in Ids /\ manifest.dependsOn[simdId] \in Seq(Ids)
    BY ManifestType DEF Init
  <2>2. work \in Seq(Ids) /\ visited \subseteq Ids
    BY <2>1 DEF Init
  <2> QED BY <2>2 DEF Init, TypeOK
<1>2. /\ simdId \in Ids /\ simdId \in manifest.simds /\ manifest \in Manifests
      /\ simdId \in Reach(manifest, simdId)
      /\ Closed(manifest, Reach(manifest, simdId))
  BY ManifestType, ReachClosed DEF Init
<1>3. Range(pubkeys) = {}
  BY RangeEmpty DEF Init
<1>4. CASE own
  <2>1. work = <<simdId>> /\ visited = {}
    BY <1>4 DEF Init
  <2>2. Range(work) = {simdId}
    BY <2>1 DEF Range
  <2>3. Gates(manifest, Collecting) = {}
    BY <2>1 DEF Gates, Collecting
  <2> QED BY <1>1, <1>2, <1>3, <1>4, <2>1, <2>2, <2>3
        DEF IInv, NoDependencyForgotten
<1>5. CASE ~own
  <2>1. work = manifest.dependsOn[simdId] /\ visited = {simdId}
    BY <1>5 DEF Init
  <2>2. Deps(manifest, simdId) = Range(work)
    BY <1>2, <2>1 DEF Deps
  <2>3. Range(work) \subseteq Reach(manifest, simdId)
    BY <1>2, <2>2 DEF Closed
  <2>4. Gates(manifest, Collecting) = {}
    BY <1>5, <2>1 DEF Gates, Collecting
  <2> QED BY <1>1, <1>2, <1>3, <1>5, <2>1, <2>2, <2>3, <2>4
        DEF IInv, NoDependencyForgotten
<1> QED BY <1>4, <1>5

LEMMA IInvNext == IInv /\ TypeOK' /\ [Next]_vars => IInv'
<1> SUFFICES ASSUME IInv, TypeOK', [Next]_vars PROVE IInv'
  OBVIOUS
<1>1. CASE Seen
  <2>1. /\ Head(work) \in visited
        /\ Range(work) = {Head(work)} \cup Range(work')
    BY <1>1, RangeHeadTail DEF Seen, IInv, TypeOK
  <2>2. visited \cup Range(work) = visited \cup Range(work')
    BY <2>1
  <2>3. UNCHANGED <<manifest, simdId, own, visited, pubkeys>>
    BY <1>1 DEF Seen
  <2> QED BY <2>2, <2>3 DEF IInv, NoDependencyForgotten, Collecting
<1>2. CASE Visit
  <2> DEFINE h == Head(work)
  <2>1. /\ h \in Ids /\ h \notin visited /\ Tail(work) \in Seq(Ids)
        /\ Range(work) = {h} \cup Range(Tail(work))
        /\ manifest \in Manifests /\ simdId \in Ids
    BY <1>2, RangeHeadTail, HeadTailProperties, ManifestType
       DEF Visit, IInv, TypeOK
  <2>2. /\ visited' = visited \cup {h}
        /\ UNCHANGED <<manifest, simdId, own>>
    BY <1>2 DEF Visit
  <2>3. Range(work') = Deps(manifest, h) \cup Range(Tail(work))
    <3>1. CASE h \in manifest.simds
      <4>1. work' = manifest.dependsOn[h] \o Tail(work)
        BY <1>2, <3>1 DEF Visit
      <4>2. manifest.dependsOn[h] \in Seq(Ids)
        BY <2>1, ManifestType
      <4>3. Range(work') = Range(manifest.dependsOn[h]) \cup Range(Tail(work))
        <5>1. \A s, t \in Seq(Ids) : Range(s \o t) = Range(s) \cup Range(t)
          BY RangeConcatenation
        <5>2. Range(manifest.dependsOn[h] \o Tail(work))
                = Range(manifest.dependsOn[h]) \cup Range(Tail(work))
          BY <2>1, <4>2, <5>1
        <5> QED BY <4>1, <5>2
      <4> QED BY <3>1, <4>3 DEF Deps
    <3>2. CASE h \notin manifest.simds
      <4>1. work' = Tail(work)
        BY <1>2, <3>2 DEF Visit
      <4> QED BY <3>2, <4>1 DEF Deps
    <3> QED BY <3>1, <3>2
  <2>4. visited' \cup Range(work') = visited \cup Range(work) \cup Deps(manifest, h)
    BY <2>1, <2>2, <2>3
  <2>5. NoDependencyForgotten'
    <3>1. simdId' \in visited' \cup Range(work')
      BY <2>2, <2>4 DEF IInv, NoDependencyForgotten
    <3>2. ASSUME NEW id \in visited'
          PROVE  Deps(manifest', id) \subseteq visited' \cup Range(work')
      <4>1. CASE id = h
        BY <2>2, <2>4, <4>1
      <4>2. CASE id \in visited
        <5>1. Deps(manifest, id) \subseteq visited \cup Range(work)
          BY <4>2 DEF IInv, NoDependencyForgotten
        <5> QED BY <2>2, <2>4, <5>1
      <4> QED BY <2>2, <4>1, <4>2
    <3> QED BY <3>1, <3>2 DEF NoDependencyForgotten
  <2>6. (visited \cup Range(work) \subseteq Reach(manifest, simdId))'
    <3>1. h \in Reach(manifest, simdId)
      BY <2>1 DEF IInv
    <3>2. Deps(manifest, h) \subseteq Reach(manifest, simdId)
      BY <2>1, <3>1, ReachClosed DEF Closed
    <3>3. visited' \cup Range(work') \subseteq Reach(manifest, simdId)
      BY <2>4, <3>2 DEF IInv
    <3> QED BY <2>2, <3>3
  <2>7. (~own => simdId \in visited)'
    BY <2>2 DEF IInv
  <2>8. (Range(pubkeys) = Gates(manifest, Collecting))'
    <3>1. ~own => h # simdId
      BY <2>1 DEF IInv
    <3>2. Collecting' = Collecting \cup {h}
      BY <2>2, <3>1 DEF Collecting
    <3>3. CASE h \in manifest.simds
      <4>1. pubkeys' = Append(pubkeys, manifest.address[h])
        BY <1>2, <3>3 DEF Visit
      <4>2. manifest.address[h] \in Keys
        BY <2>1, ManifestType
      <4>3. Range(pubkeys') = Range(pubkeys) \cup {manifest.address[h]}
        BY <4>1, <4>2, RangeAppend DEF IInv, TypeOK
      <4>4. Gates(manifest, Collecting') = Gates(manifest, Collecting) \cup {manifest.address[h]}
        BY <3>2, <3>3 DEF Gates
      <4> QED BY <2>2, <4>3, <4>4 DEF IInv, Gates
    <3>4. CASE h \notin manifest.simds
      <4>1. pubkeys' = pubkeys
        BY <1>2, <3>4 DEF Visit
      <4>2. Gates(manifest, Collecting') = Gates(manifest, Collecting)
        BY <3>2, <3>4 DEF Gates
      <4> QED BY <2>2, <4>1, <4>2 DEF IInv, Gates
    <3> QED BY <3>3, <3>4
  <2> QED BY <2>5, <2>6, <2>7, <2>8 DEF IInv
<1>3. CASE UNCHANGED vars
  BY <1>3 DEF vars, IInv, NoDependencyForgotten, Collecting
<1> QED BY <1>1, <1>2, <1>3 DEF Next

\* The invariant holds of every state of a collector.
LEMMA Invariance == Spec => []IInv
<1>1. Spec => []TypeOK
  BY TypeCorrect
<1> QED BY <1>1, IInvInit, IInvNext, PTL DEF Spec

-----------------------------------------------------------------------------
\* No dependency of the SIMD is lost to the check for ids seen before.
THEOREM NothingForgotten == Spec => []NoDependencyForgotten
<1>1. IInv => NoDependencyForgotten
  BY DEF IInv
<1> QED BY <1>1, Invariance, PTL

\* What is collected is never more than the gates of the dependencies.
LEMMA CollectingWanted == IInv => Collecting \subseteq Wanted(manifest, simdId)
BY DEF IInv, Collecting, Wanted

THEOREM Soundness == Spec => []OnlyDependencies
<1>1. IInv => OnlyDependencies
  BY CollectingWanted DEF IInv, OnlyDependencies, Gates
<1> QED BY <1>1, Invariance, PTL

\* A finished walk has visited everything the SIMD depends on, on every
\* manifest: cyclic, with dangling ids, with shared gates.
THEOREM Exactness == Spec => []CollectsExactlyDependencies
<1>1. IInv => CollectsExactlyDependencies
  <2> SUFFICES ASSUME IInv, Finished PROVE CollectsExactlyDependencies
    BY DEF CollectsExactlyDependencies
  <2>1. Range(work) = {}
    BY RangeEmpty DEF Finished
  <2>2. simdId \in visited /\ Closed(manifest, visited)
    BY <2>1 DEF IInv, NoDependencyForgotten, Closed
  <2>3. manifest \in Manifests /\ simdId \in Ids /\ visited \in SUBSET Ids
    BY ManifestType DEF IInv, TypeOK
  <2>4. visited = Reach(manifest, simdId)
    BY <2>2, <2>3, ReachLeast DEF IInv
  <2>5. Range(pubkeys) = Gates(manifest, Collecting)
    BY DEF IInv
  <2>6. CASE own
    BY <2>4, <2>5, <2>6 DEF Collecting, CollectsExactlyDependencies
  <2>7. CASE ~own
    <3>1. Gates(manifest, Collecting) \ {OwnGate}
            = Gates(manifest, Reach(manifest, simdId)) \ {OwnGate}
      BY <2>4, <2>7 DEF Collecting, Gates, OwnGate
    <3> QED BY <2>5, <2>7, <3>1 DEF CollectsExactlyDependencies
  <2> QED BY <2>6, <2>7
<1> QED BY <1>1, Invariance, PTL

\* The deactivated pass never enables the gate it disables, unless a
\* dependency shares it.
THEOREM OwnGateStaysOff == Spec => []OwnGateExcluded
<1>1. IInv => OwnGateExcluded
  <2> SUFFICES ASSUME IInv, ~own,
                      \A id \in Reach(manifest, simdId) \cap manifest.simds :
                         manifest.address[id] = OwnGate => id = simdId
               PROVE  OwnGate \notin Range(pubkeys)
    BY DEF OwnGateExcluded
  <2>1. Collecting \subseteq Reach(manifest, simdId) \ {simdId}
    BY DEF IInv, Collecting
  <2> QED BY <2>1 DEF IInv, Gates, OwnGate
<1> QED BY <1>1, Invariance, PTL

-----------------------------------------------------------------------------
(* The length of the walk.                                                 *)

\* What a step does to the ids collected: nothing, or it adds a new one.
LEMMA CollectingStep ==
    ASSUME IInv, [Next]_vars
    PROVE  \/ UNCHANGED <<manifest, own, simdId, pubkeys>> /\ Collecting' = Collecting
           \/ /\ UNCHANGED <<manifest, own, simdId>>
              /\ \E id \in Ids \ Collecting :
                    /\ Collecting' = Collecting \cup {id}
                    /\ IF id \in manifest.simds
                       THEN pubkeys' = Append(pubkeys, manifest.address[id])
                       ELSE pubkeys' = pubkeys
<1>1. CASE Seen
  BY <1>1 DEF Seen, Collecting
<1>2. CASE Visit
  <2>1. Head(work) \in Ids
    BY <1>2, HeadTailProperties DEF Visit, IInv, TypeOK
  <2>2. Head(work) \notin visited /\ visited' = visited \cup {Head(work)}
    BY <1>2 DEF Visit
  <2>3. Head(work) \notin Collecting /\ (~own => Head(work) # simdId)
    BY <2>2 DEF Collecting, IInv
  <2>4. UNCHANGED <<manifest, own, simdId>>
    BY <1>2 DEF Visit
  <2>5. Collecting' = Collecting \cup {Head(work)}
    BY <2>2, <2>3, <2>4 DEF Collecting
  <2> QED BY <1>2, <2>1, <2>3, <2>4, <2>5 DEF Visit
<1>3. CASE UNCHANGED vars
  BY <1>3 DEF vars, Collecting
<1> QED BY <1>1, <1>2, <1>3 DEF Next

\* An id is collected once: a list has as many gates as there are ids of the
\* manifest among those visited, however often depends_on names one, and
\* whichever paths or cycles lead to it (`!visited.insert(..)`, lib.rs:55).
OncePerId ==
    /\ IsFiniteSet(Collecting \cap manifest.simds)
    /\ Len(pubkeys) = Cardinality(Collecting \cap manifest.simds)

\* No id puts its gate on the list twice.
THEOREM CollectedOnce == Spec => []OncePerId
<1>1. Init => OncePerId
  <2> SUFFICES ASSUME Init PROVE OncePerId
    OBVIOUS
  <2>1. Collecting = {} /\ Len(pubkeys) = 0
    BY EmptySeq DEF Init, Collecting
  <2> QED BY <2>1, FS_EmptySet DEF OncePerId
<1>2. IInv /\ OncePerId /\ [Next]_vars => OncePerId'
  <2> SUFFICES ASSUME IInv, OncePerId, [Next]_vars PROVE OncePerId'
    OBVIOUS
  <2>1. CASE UNCHANGED <<manifest, own, simdId, pubkeys>> /\ Collecting' = Collecting
    BY <2>1 DEF OncePerId
  <2>2. ASSUME NEW id \in Ids \ Collecting, UNCHANGED <<manifest, own, simdId>>,
               Collecting' = Collecting \cup {id},
               IF id \in manifest.simds
               THEN pubkeys' = Append(pubkeys, manifest.address[id])
               ELSE pubkeys' = pubkeys
        PROVE  OncePerId'
    <3>1. CASE id \in manifest.simds
      <4>1. Collecting' \cap manifest'.simds = (Collecting \cap manifest.simds) \cup {id}
        BY <2>2, <3>1
      <4>2. id \notin Collecting \cap manifest.simds
        BY <2>2
      <4>3. manifest.address[id] \in Keys
        BY <2>2, ManifestType DEF IInv, TypeOK
      <4>4. Len(pubkeys') = Len(pubkeys) + 1
        BY <2>2, <3>1, <4>3, AppendProperties DEF IInv, TypeOK
      <4> QED BY <4>1, <4>2, <4>4, FS_AddElement DEF OncePerId
    <3>2. CASE id \notin manifest.simds
      <4>1. Collecting' \cap manifest'.simds = Collecting \cap manifest.simds
        BY <2>2, <3>2
      <4> QED BY <2>2, <3>2, <4>1 DEF OncePerId
    <3> QED BY <3>1, <3>2
  <2> QED BY <2>1, <2>2, CollectingStep
<1> QED BY <1>1, <1>2, Invariance, PTL DEF Spec

\* A step visits one more of the ids the SIMD depends on, or takes an id off the
\* open calls.
Walks ==
    \/ /\ visited \subseteq visited' /\ visited' # visited
       /\ visited' \subseteq Reach(manifest, simdId)
    \/ /\ visited' = visited
       /\ Len(work') < Len(work)

\* The safety half of Termination: the recursion cannot run in circles on cyclic
\* dependencies.  Every call marks one more of the ids the SIMD depends on, or
\* returns at once and leaves fewer calls to make; so with finitely many of them
\* it returns, if it is not stopped.
THEOREM WalkAdvances == Spec => [][Walks]_vars
<1>1. IInv /\ IInv' /\ [Next]_vars => [Walks]_vars
  <2> SUFFICES ASSUME IInv, IInv', Next PROVE Walks
    BY DEF vars
  <2>1. CASE Seen
    <3>1. visited' = visited /\ work' = Tail(work) /\ work # <<>> /\ work \in Seq(Ids)
      BY <2>1 DEF Seen, IInv, TypeOK
    <3>2. Len(work') = Len(work) - 1 /\ Len(work) \in Nat
      BY <3>1, HeadTailProperties, LenProperties
    <3> QED BY <3>1, <3>2 DEF Walks
  <2>2. CASE Visit
    <3>1. /\ visited' = visited \cup {Head(work)} /\ Head(work) \notin visited
          /\ UNCHANGED <<manifest, simdId>>
      BY <2>2 DEF Visit
    <3>2. visited' \subseteq Reach(manifest, simdId)
      BY <3>1 DEF IInv
    <3> QED BY <3>1, <3>2 DEF Walks
  <2> QED BY <2>1, <2>2 DEF Next
<1> QED BY <1>1, Invariance, PTL DEF Spec
=============================================================================
