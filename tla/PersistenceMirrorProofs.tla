---------------------- MODULE PersistenceMirrorProofs ----------------------
(***************************************************************************)
(* Theorems about PersistenceMirror, for every number of documents,        *)
(* contents, starts and upserts: outside the exposed documents the last    *)
(* write is the one that is read, whatever place it is read from, and the  *)
(* mirror differs from it only while an upsert is on its way.              *)
(***************************************************************************)
EXTENDS PersistenceMirror, TLAPS

-----------------------------------------------------------------------------
\* The inductive invariant

\* An upsert nobody follows any more exposed its document when it was orphaned.
OrphansExposed == \A p \in orphans : p.doc \in exposed

\* Wherever a document may be read from after a restart, the last answered
\* write is there: the file, every upsert of it, and the mirror unless an upsert
\* will still change the row.  The cache has what this process wrote.
Holds(d) ==
    /\ file[d] = answered[d]
    /\ cache[d] # Cold => cache[d] = written[d]
    /\ cache[d] = Cold \/ phase # "serving" => written[d] = answered[d]
    /\ \A p \in queries : p.doc = d => p.content = answered[d]
    /\ mirror[d] # Missing /\ ~outstanding(d) => mirror[d] = answered[d]

Kept == \A d \in Docs \ exposed : Holds(d)

\* Hydrating puts every document it has passed into the cache.
Warm ==
    connected =>
        /\ phase = "hydrating" => \A d \in Docs \ todo : cache[d] # Cold
        /\ phase = "serving" => \A d \in Docs : cache[d] # Cold

IInv == MirrorTypeOK /\ OrphansExposed /\ Kept /\ Warm

-----------------------------------------------------------------------------
\* Types

LEMMA TypeInit == PersistenceAssumption /\ Init => MirrorTypeOK
<1> SUFFICES ASSUME PersistenceAssumption, Init
             PROVE  MirrorTypeOK
    OBVIOUS
<1>1. Empty \in Contents
    BY DEF PersistenceAssumption
<1>2. starts \in 0..MaxStarts
    BY DEF Init, PersistenceAssumption
<1>3. /\ cache \in [Docs -> {Cold} \cup Contents] /\ file \in [Docs -> Contents]
      /\ mirror \in [Docs -> {Missing} \cup Contents]
      /\ answered \in [Docs -> Contents] /\ written \in [Docs -> Contents]
    BY <1>1 DEF Init
<1> QED
    BY <1>2, <1>3 DEF Init, MirrorTypeOK

LEMMA AdvancesTyped ==
    ASSUME MirrorTypeOK, PersistenceAssumption, NEW d \in todo,
           NEW next, NEW left, advances(d, next, left),
           \/ phase = "seeding" /\ next = "hydrating" /\ left = Docs
           \/ phase = "hydrating" /\ next = "serving" /\ left = {}
    PROVE  /\ phase' \in {"seeding", "hydrating", "serving"}
           /\ todo' \subseteq Docs
           /\ todo' # {} <=> phase' \in {"seeding", "hydrating"}
BY DEF MirrorTypeOK, PersistenceAssumption, advances

LEMMA TypeStep ==
    ASSUME PersistenceAssumption, MirrorTypeOK, [Next]_mirrorVars
    PROVE  MirrorTypeOK'
<1> USE DEF MirrorTypeOK
<1>1. CASE initializePersistence
    <2>1. starts' \in 0..MaxStarts
        BY <1>1 DEF initializePersistence, PersistenceAssumption
    <2>2. todo' \subseteq Docs /\ (todo' # {} <=> phase' \in {"seeding", "hydrating"})
        BY <1>1 DEF initializePersistence, PersistenceAssumption
    <2>3. queries' = {}
        BY <1>1 DEF initializePersistence
    <2> QED
        BY <1>1, <2>1, <2>2, <2>3 DEF initializePersistence, historyVars
<1>2. ASSUME NEW d \in Docs, seedPersistenceFromFilesIfMissing(d)
      PROVE  MirrorTypeOK'
    <2>1. phase = "seeding" /\ d \in todo /\ advances(d, "hydrating", Docs)
        BY <1>2 DEF seedPersistenceFromFilesIfMissing
    <2>2. /\ phase' \in {"seeding", "hydrating", "serving"}
          /\ todo' \subseteq Docs
          /\ todo' # {} <=> phase' \in {"seeding", "hydrating"}
        BY <2>1, AdvancesTyped
    <2>3. mirror' \in [Docs -> {Missing} \cup Contents] /\ connected' \in BOOLEAN
        BY <1>2 DEF seedPersistenceFromFilesIfMissing, seeded
    <2>4. starts' = starts
        BY <2>1 DEF advances
    <2>5. queries' = {}
        BY <1>2, <2>1 DEF seedPersistenceFromFilesIfMissing
    <2> QED
        BY <1>2, <2>2, <2>3, <2>4, <2>5 DEF seedPersistenceFromFilesIfMissing, historyVars
<1>3. ASSUME NEW d \in Docs, hydratePersistenceCachesFromDatabase(d)
      PROVE  MirrorTypeOK'
    <2>1. phase = "hydrating" /\ d \in todo /\ advances(d, "serving", {})
        BY <1>3 DEF hydratePersistenceCachesFromDatabase
    <2>2. /\ phase' \in {"seeding", "hydrating", "serving"}
          /\ todo' \subseteq Docs
          /\ todo' # {} <=> phase' \in {"seeding", "hydrating"}
        BY <2>1, AdvancesTyped
    <2>3. /\ cache' \in [Docs -> {Cold} \cup Contents] /\ file' \in [Docs -> Contents]
          /\ connected' \in BOOLEAN
        BY <1>3 DEF hydratePersistenceCachesFromDatabase
    <2>4. starts' = starts
        BY <2>1 DEF advances
    <2>5. queries' = {}
        BY <1>3, <2>1 DEF hydratePersistenceCachesFromDatabase
    <2> QED
        BY <1>3, <2>2, <2>3, <2>4, <2>5 DEF hydratePersistenceCachesFromDatabase, historyVars
<1>4. ASSUME NEW d \in Docs, readJsonArray(d)
      PROVE  MirrorTypeOK'
    BY <1>4 DEF readJsonArray, queuePersistWrite, startVars, historyVars, Query
<1>5. ASSUME NEW d \in Docs, NEW rows \in Contents, writeJsonArray(d, rows)
      PROVE  MirrorTypeOK'
    <2>1. answered' \in [Docs -> Contents] /\ written' \in [Docs -> Contents]
        BY <1>5 DEF writeJsonArray
    <2>2. cache' \in [Docs -> {Cold} \cup Contents] /\ file' \in [Docs -> Contents]
        BY <1>5 DEF writeJsonArray
    <2>3. [doc |-> d, content |-> rows] \in Query
        BY DEF Query
    <2>4. queries' \subseteq Query
        BY <1>5, <2>3 DEF writeJsonArray, queuePersistWrite
    <2>5. exposed' \subseteq Docs
        BY <1>5 DEF writeJsonArray
    <2> QED
        BY <1>5, <2>1, <2>2, <2>4, <2>5 DEF writeJsonArray, startVars
<1>6. ASSUME NEW d \in Docs, NEW rows \in Contents, fileWriteFails(d, rows)
      PROVE  MirrorTypeOK'
    BY <1>6 DEF fileWriteFails, startVars, PersistenceAssumption
<1>7. ASSUME NEW p \in queries, upsertApplied(p) \/ upsertFails(p)
      PROVE  MirrorTypeOK'
    <2>1. p.doc \in Docs /\ p.content \in Contents
        BY DEF Query
    <2>2. applied(p) \in [Docs -> {Missing} \cup Contents]
        BY <2>1 DEF applied
    <2> QED
        BY <1>7, <2>1, <2>2 DEF upsertApplied, upsertFails, startVars, historyVars
<1>8. ASSUME NEW p \in orphans, orphanEnds(p)
      PROVE  MirrorTypeOK'
    <2>1. p.doc \in Docs /\ p.content \in Contents
        BY DEF Query
    <2>2. applied(p) \in [Docs -> {Missing} \cup Contents]
        BY <2>1 DEF applied
    <2> QED
        BY <1>8, <2>2 DEF orphanEnds, startVars, historyVars
<1>9. ASSUME NEW torn \in SUBSET Docs, stop(torn)
      PROVE  MirrorTypeOK'
    <2>1. {p.doc : p \in queries} \subseteq Docs
        BY DEF Query
    <2>2. Empty \in Contents
        BY DEF PersistenceAssumption
    <2>3. exposed' \subseteq Docs
        BY <1>9, <2>1 DEF stop
    <2>4. /\ cache' \in [Docs -> {Cold} \cup Contents] /\ file' \in [Docs -> Contents]
          /\ written' \in [Docs -> Contents]
        BY <1>9, <2>2 DEF stop
    <2>5. /\ phase' = "down" /\ todo' = {} /\ connected' = FALSE /\ queries' = {}
          /\ orphans' \subseteq Query
        BY <1>9 DEF stop
    <2> QED
        BY <1>9, <2>3, <2>4, <2>5 DEF stop
<1>10. CASE UNCHANGED mirrorVars
    BY <1>10 DEF mirrorVars, startVars, historyVars
<1> QED
    BY <1>1, <1>2, <1>3, <1>4, <1>5, <1>6, <1>7, <1>8, <1>9, <1>10 DEF Next

-----------------------------------------------------------------------------
\* The last write

\* A document whose upserts are all queries of this process has none while
\* requests are not served.
LEMMA NoneOutstanding ==
    ASSUME MirrorTypeOK, OrphansExposed, phase # "serving", NEW d \in Docs \ exposed
    PROVE  ~outstanding(d)
BY DEF MirrorTypeOK, OrphansExposed, outstanding

LEMMA OrphansStep ==
    ASSUME MirrorTypeOK, OrphansExposed, [Next]_mirrorVars
    PROVE  OrphansExposed'
<1> USE DEF OrphansExposed
<1>1. exposed \subseteq exposed'
    BY DEF Next, initializePersistence, seedPersistenceFromFilesIfMissing,
           hydratePersistenceCachesFromDatabase, readJsonArray, writeJsonArray, fileWriteFails,
           upsertApplied, upsertFails, orphanEnds, stop, mirrorVars, historyVars
<1>2. ASSUME NEW torn \in SUBSET Docs, stop(torn)
      PROVE  OrphansExposed'
    BY <1>2 DEF stop
<1>3. CASE ~\E torn \in SUBSET Docs : stop(torn)
    <2>1. orphans' \subseteq orphans
        BY <1>3 DEF Next, initializePersistence, seedPersistenceFromFilesIfMissing,
               hydratePersistenceCachesFromDatabase, readJsonArray, writeJsonArray,
               fileWriteFails, upsertApplied, upsertFails, orphanEnds, mirrorVars
    <2> QED
        BY <1>1, <2>1
<1> QED
    BY <1>2, <1>3

LEMMA KeptStep ==
    ASSUME PersistenceAssumption, IInv, [Next]_mirrorVars
    PROVE  Kept'
<1> USE DEF IInv
<1> SUFFICES ASSUME NEW e \in Docs, e \notin exposed'
             PROVE  Holds(e)'
    BY DEF Kept
<1>0. e \notin exposed => Holds(e)
    BY DEF Kept
<1>1. CASE initializePersistence
    <2>1. Holds(e) /\ phase # "serving"
        BY <1>0, <1>1 DEF initializePersistence, historyVars
    <2> QED
        BY <1>1, <2>1 DEF initializePersistence, historyVars, Holds, outstanding
<1>2. ASSUME NEW d \in Docs, seedPersistenceFromFilesIfMissing(d)
      PROVE  Holds(e)'
    <2>1. Holds(e) /\ ~outstanding(e)
        BY <1>0, <1>2, NoneOutstanding DEF seedPersistenceFromFilesIfMissing, historyVars
    <2>2. mirror'[e] \in {mirror[e], file[e]}
        BY <1>2 DEF seedPersistenceFromFilesIfMissing, seeded, MirrorTypeOK
    <2>3. mirror'[e] = mirror[e] \/ mirror'[e] = file[e]
        BY <2>2
    <2>4. phase # "serving"
        BY <1>2 DEF seedPersistenceFromFilesIfMissing
    <2> QED
        BY <1>2, <2>1, <2>3, <2>4
           DEF seedPersistenceFromFilesIfMissing, historyVars, Holds, outstanding
<1>3. ASSUME NEW d \in Docs, hydratePersistenceCachesFromDatabase(d)
      PROVE  Holds(e)'
    <2>1. Holds(e) /\ ~outstanding(e)
        BY <1>0, <1>3, NoneOutstanding DEF hydratePersistenceCachesFromDatabase, historyVars
    <2>2. (mirror[e] # Missing => mirror[e] = answered[e]) /\ written[e] = answered[e]
        BY <1>3, <2>1 DEF Holds, hydratePersistenceCachesFromDatabase
    <2>3. \/ cache'[e] = cache[e] /\ file'[e] = file[e]
          \/ mirror[e] # Missing /\ cache'[e] = mirror[e] /\ file'[e] = mirror[e]
        BY <1>3 DEF hydratePersistenceCachesFromDatabase, MirrorTypeOK
    <2> QED
        BY <1>3, <2>1, <2>2, <2>3
           DEF hydratePersistenceCachesFromDatabase, historyVars, Holds, outstanding
<1>4. ASSUME NEW d \in Docs, readJsonArray(d)
      PROVE  Holds(e)'
    <2>1. Holds(e)
        BY <1>0, <1>4 DEF readJsonArray, historyVars
    <2>2. cache'[e] = cache[e] \/ (cache[e] = Cold /\ cache'[e] = file[e])
        BY <1>4 DEF readJsonArray, MirrorTypeOK
    <2>3. \A p \in queries' : p.doc = e => p.content = answered[e]
        BY <1>4, <2>1 DEF readJsonArray, queuePersistWrite, Holds
    <2>4. queries \subseteq queries'
        BY <1>4 DEF readJsonArray, queuePersistWrite
    <2>5. /\ UNCHANGED <<answered, written>> /\ file' = file /\ mirror' = mirror
          /\ orphans' = orphans /\ phase' = phase
        BY <1>4 DEF readJsonArray, historyVars, startVars
    <2> QED
        BY <2>1, <2>2, <2>3, <2>4, <2>5 DEF Holds, outstanding
<1>5. ASSUME NEW d \in Docs, NEW rows \in Contents, writeJsonArray(d, rows)
      PROVE  Holds(e)'
    <2>1. Holds(e)
        BY <1>0, <1>5 DEF writeJsonArray
    <2>2. CASE e = d
        <3>1. answered'[e] = rows /\ written'[e] = rows
            BY <1>5, <2>2 DEF writeJsonArray, MirrorTypeOK
        <3>2. cache'[e] = rows /\ file'[e] = rows
            BY <1>5, <2>2 DEF writeJsonArray, MirrorTypeOK
        <3>3. ~outstanding(e) /\ (connected \/ mirror[e] = Missing)
            BY <1>5, <2>2 DEF writeJsonArray
        <3>4. queries' = IF connected THEN queries \cup {[doc |-> d, content |-> rows]} ELSE queries
            BY <1>5 DEF writeJsonArray, queuePersistWrite
        <3>5. \A p \in queries' : p.doc = e => p.content = rows
            BY <2>2, <3>3, <3>4 DEF outstanding
        <3>6. connected => outstanding(e)'
            <4>1. [doc |-> d, content |-> rows].doc = d
                OBVIOUS
            <4>2. connected => [doc |-> d, content |-> rows] \in queries'
                BY <3>4
            <4> QED
                BY <2>2, <4>1, <4>2 DEF outstanding
        <3>7. mirror' = mirror
            BY <1>5 DEF writeJsonArray
        <3> QED
            BY <3>1, <3>2, <3>3, <3>5, <3>6, <3>7 DEF Holds
    <2>3. CASE e # d
        <3>1. /\ cache'[e] = cache[e] /\ file'[e] = file[e] /\ mirror' = mirror
              /\ answered'[e] = answered[e] /\ written'[e] = written[e] /\ phase' = phase
            BY <1>5, <2>3 DEF writeJsonArray, MirrorTypeOK, startVars
        <3>2. {p \in queries' : p.doc = e} = {p \in queries : p.doc = e} /\ orphans' = orphans
            BY <1>5, <2>3 DEF writeJsonArray, queuePersistWrite
        <3>3. outstanding(e)' <=> outstanding(e)
            BY <3>2 DEF outstanding
        <3> QED
            BY <2>1, <3>1, <3>2, <3>3 DEF Holds
    <2> QED
        BY <2>2, <2>3
<1>6. ASSUME NEW d \in Docs, NEW rows \in Contents, fileWriteFails(d, rows)
      PROVE  Holds(e)'
    <2>1. Holds(e) /\ phase = "serving" /\ phase' = phase
        BY <1>0, <1>6 DEF fileWriteFails, startVars
    <2>2. \/ cache'[e] = cache[e] /\ written'[e] = written[e]
          \/ cache'[e] = rows /\ written'[e] = rows /\ rows # Cold
        BY <1>6 DEF fileWriteFails, MirrorTypeOK, PersistenceAssumption
    <2>3. file'[e] = file[e]
        BY <1>6 DEF fileWriteFails, MirrorTypeOK
    <2> QED
        BY <1>6, <2>1, <2>2, <2>3 DEF fileWriteFails, Holds, outstanding
<1>7. ASSUME NEW p \in queries, upsertApplied(p)
      PROVE  Holds(e)'
    <2>1. Holds(e) /\ p.doc \in Docs
        BY <1>0, <1>7 DEF upsertApplied, historyVars, MirrorTypeOK, Query
    <2>2. CASE p.doc = e
        <3>1. mirror'[e] = p.content /\ p.content = answered[e]
            BY <1>7, <2>1, <2>2 DEF upsertApplied, applied, MirrorTypeOK, Holds
        <3> QED
            BY <1>7, <2>1, <3>1 DEF upsertApplied, historyVars, startVars, Holds
    <2>3. CASE p.doc # e
        <3>1. mirror'[e] = mirror[e]
            BY <1>7, <2>3 DEF upsertApplied, applied, MirrorTypeOK
        <3>2. outstanding(e)' <=> outstanding(e)
            BY <1>7, <2>3 DEF upsertApplied, outstanding
        <3> QED
            BY <1>7, <2>1, <3>1, <3>2 DEF upsertApplied, historyVars, startVars, Holds
    <2> QED
        BY <2>2, <2>3
<1>8. ASSUME NEW p \in queries, upsertFails(p)
      PROVE  Holds(e)'
    <2>1. Holds(e) /\ p.doc # e
        BY <1>0, <1>8 DEF upsertFails
    <2>2. mirror'[e] = mirror[e]
        BY <1>8, <2>1 DEF upsertFails, applied, MirrorTypeOK
    <2>3. outstanding(e)' <=> outstanding(e)
        BY <1>8, <2>1 DEF upsertFails, outstanding
    <2> QED
        BY <1>8, <2>1, <2>2, <2>3 DEF upsertFails, startVars, Holds
<1>9. ASSUME NEW p \in orphans, orphanEnds(p)
      PROVE  Holds(e)'
    <2>1. Holds(e) /\ p.doc # e
        BY <1>0, <1>9 DEF orphanEnds, historyVars, OrphansExposed
    <2>2. mirror'[e] = mirror[e]
        BY <1>9, <2>1 DEF orphanEnds, applied, MirrorTypeOK
    <2>3. outstanding(e)' <=> outstanding(e)
        BY <1>9, <2>1 DEF orphanEnds, outstanding
    <2> QED
        BY <1>9, <2>1, <2>2, <2>3 DEF orphanEnds, historyVars, startVars, Holds
<1>10. ASSUME NEW torn \in SUBSET Docs, stop(torn)
       PROVE  Holds(e)'
    <2>1. Holds(e) /\ e \notin torn /\ \A p \in queries : p.doc # e
        BY <1>0, <1>10 DEF stop
    <2>2. cache'[e] = Cold /\ file'[e] = file[e] /\ written'[e] = answered'[e]
        BY <1>10, <2>1 DEF stop
    <2>3. outstanding(e)' <=> outstanding(e)
        BY <1>10 DEF stop, outstanding
    <2> QED
        BY <1>10, <2>1, <2>2, <2>3 DEF stop, Holds
<1>11. CASE UNCHANGED mirrorVars
    BY <1>0, <1>11 DEF mirrorVars, historyVars, startVars, Holds, outstanding
<1> QED
    BY <1>1, <1>2, <1>3, <1>4, <1>5, <1>6, <1>7, <1>8, <1>9, <1>10, <1>11 DEF Next

-----------------------------------------------------------------------------
\* The cache after a start

LEMMA WarmStep ==
    ASSUME PersistenceAssumption, MirrorTypeOK, Warm, [Next]_mirrorVars
    PROVE  Warm'
<1> USE DEF Warm, MirrorTypeOK
<1>1. \A content \in Contents : content # Cold
    BY DEF PersistenceAssumption
<1>2. CASE initializePersistence
    BY <1>2 DEF initializePersistence
<1>3. ASSUME NEW d \in Docs, seedPersistenceFromFilesIfMissing(d)
      PROVE  Warm'
    BY <1>3 DEF seedPersistenceFromFilesIfMissing, advances
<1>4. ASSUME NEW d \in Docs, hydratePersistenceCachesFromDatabase(d)
      PROVE  Warm'
    <2>1. CASE connected'
        <3>1. connected /\ mirror[d] \in Contents /\ cache' = [cache EXCEPT ![d] = mirror[d]]
            BY <1>4, <2>1 DEF hydratePersistenceCachesFromDatabase
        <3>2. \A e \in Docs \ (todo \ {d}) : cache'[e] # Cold
            BY <1>1, <1>4, <3>1 DEF hydratePersistenceCachesFromDatabase
        <3> QED
            BY <1>4, <3>2 DEF hydratePersistenceCachesFromDatabase, advances
    <2> QED
        BY <2>1
<1>5. ASSUME NEW d \in Docs, readJsonArray(d)
      PROVE  Warm'
    BY <1>1, <1>5 DEF readJsonArray, startVars
<1>6. ASSUME NEW d \in Docs, NEW rows \in Contents, writeJsonArray(d, rows) \/ fileWriteFails(d, rows)
      PROVE  Warm'
    <2>1. cache' = [cache EXCEPT ![d] = rows] /\ UNCHANGED <<phase, connected, todo>>
        BY <1>6 DEF writeJsonArray, fileWriteFails, startVars
    <2> QED
        BY <1>1, <2>1
<1>7. ASSUME NEW p \in queries, upsertApplied(p) \/ upsertFails(p)
      PROVE  Warm'
    BY <1>7 DEF upsertApplied, upsertFails, startVars
<1>8. ASSUME NEW p \in orphans, orphanEnds(p)
      PROVE  Warm'
    BY <1>8 DEF orphanEnds, startVars
<1>9. ASSUME NEW torn \in SUBSET Docs, stop(torn)
      PROVE  Warm'
    BY <1>9 DEF stop
<1>10. CASE UNCHANGED mirrorVars
    BY <1>10 DEF mirrorVars, startVars
<1> QED
    BY <1>2, <1>3, <1>4, <1>5, <1>6, <1>7, <1>8, <1>9, <1>10 DEF Next

-----------------------------------------------------------------------------
\* The invariant and what follows from it

LEMMA MirrorInvariant == PersistenceAssumption => (Spec => []IInv)
<1> SUFFICES ASSUME PersistenceAssumption
             PROVE  Spec => []IInv
    OBVIOUS
<1>1. Init => IInv
    <2> SUFFICES ASSUME Init
                 PROVE  OrphansExposed /\ Kept /\ Warm
        BY TypeInit DEF IInv
    <2> QED
        BY DEF Init, OrphansExposed, Kept, Holds, Warm, outstanding
<1>2. IInv /\ [Next]_mirrorVars => IInv'
    BY TypeStep, OrphansStep, KeptStep, WarmStep DEF IInv
<1> QED
    BY <1>1, <1>2, PTL DEF Spec

\* No state of the documents is ill formed, however many there are.
THEOREM MirrorTyped == PersistenceAssumption => (Spec => []MirrorTypeOK)
<1>1. IInv => MirrorTypeOK
    BY DEF IInv
<1> QED
    BY <1>1, MirrorInvariant, PTL

\* readJsonArray: outside the exposed documents the last write is what is read.
THEOREM LastWriteServed == PersistenceAssumption => (Spec => []LatestServed)
<1>1. IInv => LatestServed
    BY DEF IInv, Kept, Holds, LatestServed, contents
<1> QED
    BY <1>1, MirrorInvariant, PTL

\* queuePersistWrite: with its upserts answered, a row is the last answered write.
THEOREM MirrorComplete == PersistenceAssumption => (Spec => []MirrorCatchesUp)
<1>1. IInv => MirrorCatchesUp
    BY DEF IInv, Kept, Holds, MirrorCatchesUp
<1> QED
    BY <1>1, MirrorInvariant, PTL

\* initializePersistence: a mirror that is on has filled every cache.
THEOREM MirroredWarm == PersistenceAssumption => (Spec => []ColdOnlyUnmirrored)
<1>1. IInv => ColdOnlyUnmirrored
    BY DEF IInv, Warm, ColdOnlyUnmirrored
<1> QED
    BY <1>1, MirrorInvariant, PTL
=============================================================================
