------------------------- MODULE PersistenceMirror -------------------------
(***************************************************************************)
(* The documents the server keeps: a cache in the process, a JSON file per *)
(* document, and a row per document in PostgreSQL when that is enabled.    *)
(*                                                                         *)
(* A write updates the cache and the file at once and queues an upsert of  *)
(* the whole document that nobody waits for.  One failed query turns the   *)
(* mirror off until the next start.  A start copies files into missing     *)
(* rows, and then every row over its file.                                 *)
(*                                                                         *)
(* Callers read a document, change their copy, and pass the whole copy to  *)
(* a write, which replaces the document by it, however old the copy is:    *)
(* what two callers do to each other is up to them, and a write is the     *)
(* content a caller passes.  A file that was truncated by an interrupted   *)
(* write reads as an empty document.                                       *)
(***************************************************************************)
EXTENDS Naturals, FiniteSets

CONSTANTS
    Docs,       \* documents
    Contents,   \* what a document may contain
    Empty,      \* the content without a row
    Cold,       \* a document that is not in the cache
    Missing,    \* a document without a row
    MaxStarts,  \* bound on starts of the process
    MaxUpserts  \* bound on upserts that have not been answered

ASSUME PersistenceAssumption ==
    /\ Docs # {}
    /\ Empty \in Contents /\ Cold \notin Contents /\ Missing \notin Contents
    /\ MaxStarts \in Nat /\ MaxUpserts \in Nat

VARIABLES
    phase,          \* what the process is doing: "down", starting up, or "serving"
    todo,           \* documents left to seed or to hydrate
    connected,      \* persistenceStore.isConnected()
    cache, file,    \* documents in the process and on the disk
    mirror,         \* documents in PostgreSQL
    queries,        \* upserts of this process that have not been answered
    orphans,        \* upserts of earlier processes that may still take effect
    starts,
    answered,   \* history: the last write of each document that was answered
    written,    \* history: the last write of this process, answered or not
    exposed     \* history: documents something happened to that may cost writes

startVars == <<phase, todo, starts>>
historyVars == <<answered, written, exposed>>
mirrorVars == <<startVars, connected, cache, file, mirror, queries, orphans, historyVars>>

Query == [doc : Docs, content : Contents]

\* Every variable keeps to its type; documents are left to do exactly during
\* start-up, and upserts are unanswered only while requests are served.
MirrorTypeOK ==
    /\ phase \in {"down", "seeding", "hydrating", "serving"}
    /\ todo \subseteq Docs
    /\ connected \in BOOLEAN
    /\ cache \in [Docs -> {Cold} \cup Contents]
    /\ file \in [Docs -> Contents]
    /\ mirror \in [Docs -> {Missing} \cup Contents]
    /\ queries \subseteq Query
    /\ orphans \subseteq Query
    /\ starts \in 0..MaxStarts
    /\ todo # {} <=> phase \in {"seeding", "hydrating"}
    /\ queries # {} => phase = "serving"
    /\ answered \in [Docs -> Contents] /\ written \in [Docs -> Contents]
    /\ exposed \subseteq Docs

Init ==
    /\ phase = "down" /\ todo = {} /\ starts = 0
    /\ connected = FALSE
    /\ cache = [d \in Docs |-> Cold]
    /\ file = [d \in Docs |-> Empty]
    /\ mirror = [d \in Docs |-> Missing]
    /\ queries = {} /\ orphans = {}
    /\ answered = file /\ written = file /\ exposed = {}

-----------------------------------------------------------------------------
\* Start-up: requests are served only after it

\* Without a database, or with one that does not answer, files are used alone.
initializePersistence ==
    /\ phase = "down" /\ starts < MaxStarts
    /\ starts' = starts + 1
    /\ \/ connected' = TRUE /\ phase' = "seeding" /\ todo' = Docs
       \/ connected' = FALSE /\ phase' = "serving" /\ todo' = {}
    /\ UNCHANGED <<cache, file, mirror, queries, orphans, historyVars>>

\* The names with a slip_ prefix are broken variants of the definition that
\* follows them, kept to show that the properties notice.  Here the second
\* phase takes over the empty list of the first.
slip_advances(d, next, left) ==
    /\ todo' = todo \ {d}
    /\ phase' = IF todo = {d} THEN next ELSE phase
    /\ UNCHANGED starts

\* After the last document of a phase the next one begins.
advances(d, next, left) ==
    /\ IF todo = {d} THEN phase' = next /\ todo' = left
       ELSE todo' = todo \ {d} /\ UNCHANGED phase
    /\ UNCHANGED starts

seeded(d) == [mirror EXCEPT ![d] = IF @ = Missing THEN file[d] ELSE @]

\* A query that fails turns the mirror off; the rest of the phase does nothing.
seedPersistenceFromFilesIfMissing(d) ==
    /\ phase = "seeding" /\ d \in todo
    /\ \/ connected /\ mirror' = seeded(d) /\ UNCHANGED connected
       \/ connected' = FALSE /\ mirror' \in {mirror, IF connected THEN seeded(d) ELSE mirror}
    /\ advances(d, "hydrating", Docs)
    /\ UNCHANGED <<cache, file, queries, orphans, historyVars>>

\* Slip: only the file is filled.
slip_hydratePersistenceCachesFromDatabase(d) ==
    /\ phase = "hydrating" /\ d \in todo
    /\ \/ /\ connected /\ mirror[d] # Missing
          /\ file' = [file EXCEPT ![d] = mirror[d]]
          /\ UNCHANGED connected
       \/ connected' = FALSE /\ UNCHANGED file
    /\ advances(d, "serving", {})
    /\ UNCHANGED <<cache, mirror, queries, orphans, historyVars>>

hydratePersistenceCachesFromDatabase(d) ==
    /\ phase = "hydrating" /\ d \in todo
    /\ \/ /\ connected /\ mirror[d] # Missing
          /\ cache' = [cache EXCEPT ![d] = mirror[d]]
          /\ file' = [file EXCEPT ![d] = mirror[d]]
          /\ UNCHANGED connected
       \/ connected' = FALSE /\ UNCHANGED <<cache, file>>
    /\ advances(d, "serving", {})
    /\ UNCHANGED <<mirror, queries, orphans, historyVars>>

-----------------------------------------------------------------------------
\* Serving

\* What a caller gets to read.
contents(d) == IF cache[d] = Cold THEN file[d] ELSE cache[d]

outstanding(d) == \E p \in queries \cup orphans : p.doc = d

\* Slip: the document as it was before the write is sent.
slip_queuePersistWrite(d, content) ==
    /\ connected => Cardinality(queries \cup orphans) < MaxUpserts
    /\ queries' = IF connected THEN queries \cup {[doc |-> d, content |-> contents(d)]} ELSE queries

queuePersistWrite(d, content) ==
    /\ connected => Cardinality(queries \cup orphans) < MaxUpserts
    /\ queries' = IF connected THEN queries \cup {[doc |-> d, content |-> content]} ELSE queries

\* A document enters the cache from its file, and is mirrored on the occasion.
readJsonArray(d) ==
    /\ phase = "serving" /\ cache[d] = Cold
    /\ cache' = [cache EXCEPT ![d] = file[d]]
    /\ queuePersistWrite(d, file[d])
    /\ UNCHANGED <<startVars, connected, file, mirror, orphans, historyVars>>

\* Slip: the file is left for a later write.
slip_writeJsonArray(d, rows) ==
    /\ phase = "serving"
    /\ cache' = [cache EXCEPT ![d] = rows]
    /\ queuePersistWrite(d, rows)
    /\ answered' = [answered EXCEPT ![d] = rows] /\ written' = [written EXCEPT ![d] = rows]
    /\ exposed' = IF outstanding(d) \/ (~connected /\ mirror[d] # Missing)
                    THEN exposed \cup {d} ELSE exposed
    /\ UNCHANGED <<startVars, connected, file, mirror, orphans>>

\* The document becomes what the caller passes.  That exposes it when the mirror
\* holds it and is off, and when another upsert of it is on its way: the two
\* may take effect in any order.
writeJsonArray(d, rows) ==
    /\ phase = "serving"
    /\ cache' = [cache EXCEPT ![d] = rows]
    /\ file' = [file EXCEPT ![d] = rows]
    /\ queuePersistWrite(d, rows)
    /\ answered' = [answered EXCEPT ![d] = rows] /\ written' = [written EXCEPT ![d] = rows]
    /\ exposed' = IF outstanding(d) \/ (~connected /\ mirror[d] # Missing)
                    THEN exposed \cup {d} ELSE exposed
    /\ UNCHANGED <<startVars, connected, mirror, orphans>>

\* The disk refuses: the caller gets an error, the cache has the write, the
\* file is untouched or truncated, and the mirror is not told.
fileWriteFails(d, rows) ==
    /\ phase = "serving"
    /\ cache' = [cache EXCEPT ![d] = rows]
    /\ written' = [written EXCEPT ![d] = rows]
    /\ \/ UNCHANGED <<file, exposed>>
       \/ file' = [file EXCEPT ![d] = Empty] /\ exposed' = exposed \cup {d}
    /\ UNCHANGED <<startVars, connected, mirror, queries, orphans, answered>>

-----------------------------------------------------------------------------
\* The database

applied(p) == [mirror EXCEPT ![p.doc] = p.content]

\* The pool has several connections: queries take effect in any order.
upsertApplied(p) ==
    /\ p \in queries
    /\ mirror' = applied(p)
    /\ queries' = queries \ {p}
    /\ UNCHANGED <<startVars, connected, cache, file, orphans, historyVars>>

\* A query that failed took effect or did not.
upsertFails(p) ==
    /\ p \in queries
    /\ connected' = FALSE
    /\ mirror' \in {mirror, applied(p)}
    /\ queries' = queries \ {p}
    /\ exposed' = exposed \cup {p.doc}
    /\ UNCHANGED <<startVars, cache, file, orphans, answered, written>>

\* A query of a process that has ended takes effect late, or never.
orphanEnds(p) ==
    /\ p \in orphans
    /\ mirror' \in {mirror, applied(p)}
    /\ orphans' = orphans \ {p}
    /\ UNCHANGED <<startVars, connected, cache, file, queries, historyVars>>

\* The process ends, between two writes or in the middle of one to a file: a
\* write that was not answered, or the copy of a row when the caches are filled.
stop(torn) ==
    /\ phase # "down"
    /\ torn \subseteq (CASE phase = "serving" -> Docs [] phase = "hydrating" -> todo
                         [] OTHER -> {})
    /\ Cardinality(torn) <= 1
    /\ phase' = "down" /\ todo' = {} /\ connected' = FALSE
    /\ cache' = [d \in Docs |-> Cold]
    /\ file' = [d \in Docs |-> IF d \in torn THEN Empty ELSE file[d]]
    /\ written' = answered
    /\ queries' = {} /\ orphans' = orphans \cup queries
    /\ exposed' = exposed \cup torn \cup {p.doc : p \in queries}
    /\ UNCHANGED <<starts, mirror, answered>>

Next ==
    \/ initializePersistence
    \/ \E d \in Docs : \/ seedPersistenceFromFilesIfMissing(d)
                       \/ hydratePersistenceCachesFromDatabase(d)
                       \/ readJsonArray(d)
                       \/ \E rows \in Contents : writeJsonArray(d, rows) \/ fileWriteFails(d, rows)
    \/ \E p \in queries : upsertApplied(p) \/ upsertFails(p)
    \/ \E p \in orphans : orphanEnds(p)
    \/ \E torn \in SUBSET Docs : stop(torn)

Spec == Init /\ [][Next]_mirrorVars

-----------------------------------------------------------------------------
\* Properties

\* A document reads as it was last written: by this process, or before it as it
\* was last written with an answer, across restarts, with and without the
\* database, unless one of five things happened to it: an upsert of it failed;
\* it was written while the mirror was off and held it, or while another upsert
\* of it was on its way; the process ended with an upsert of it unanswered; or a
\* write to its file was cut short.  Nothing is promised of a change that a
\* later write, made from an older copy, did not contain.
LatestServed ==
    phase = "serving" => \A d \in Docs \ exposed : contents(d) = written[d]

\* Under the same conditions the mirror holds the last answered write once the
\* upserts have been answered: a start may safely copy it over the file.
MirrorCatchesUp ==
    \A d \in Docs \ exposed :
        mirror[d] # Missing /\ ~outstanding(d) => mirror[d] = answered[d]

\* While the mirror is on, every document is in the cache when requests are
\* served: the upsert that comes with the first read of a file never meets a
\* mirror that is ahead of the file.
ColdOnlyUnmirrored ==
    phase = "serving" /\ connected => \A d \in Docs : cache[d] # Cold
=============================================================================
