------------------------------- MODULE Memory -------------------------------
(* The database file of goldclaw as its processes share it: the gateway's    *)
(* memory store (goldclaw-memory) and session store (goldclaw-store), the    *)
(* commands that open the session store before anything else, and            *)
(* `goldclaw memory reembed`. What the sessions' tables hold is Runtime's    *)
(* matter; here it is the schema, the memories and their two indexes.        *)
EXTENDS Integers, Sequences, FiniteSets

CONSTANTS
  Chunks,      \* memories, each written at most once (its id is a new UUID)
  Procs,       \* processes of the program
  RecallLimit, \* memories that a recall returns at most
  MaxCrashes,  \* bound: processes killed
  MaxEdits,    \* bound: changes of the configuration
  MaxBackups   \* bound: backup files

ASSUME RecallsSome == RecallLimit \in Nat \ {0}

ASSUME BoundsAreNaturals == {MaxCrashes, MaxEdits, MaxBackups} \subseteq Nat

VARIABLES
  config,      \* the configuration file, and whether sqlite-vec can be loaded
  db,          \* the database: all that is committed, in the file or its WAL
  file,        \* the main file without the WAL: is it empty, whose rows does it hold
  backups,     \* the backup files, oldest first: whose rows they hold
  proc,        \* the processes
  lost,        \* ghost: the memories that were not stored, and by which gateway
  applied,     \* ghost: how often each migration was committed
  upgraded,    \* ghost: whose rows a database held before a migration
  reembedded,  \* ghost: re-embedded since the vector index was last filled
  crashes, edits

ghosts == <<lost, applied, upgraded, reembedded>>
vars == <<config, db, file, backups, proc, ghosts, crashes, edits>>

Target == 5          \* current_schema_version
MemoryVersion == 4   \* the migration that creates memory_chunks and memory_fts
VecDimensions == 1024

Absent == -1         \* no row
NoEmbedding == 0     \* a NULL embedding; as a table's dimensions: no such table

\* Dimensions of an embedding provider's vectors.
Dimensions(embedder) ==
  CASE embedder = "none" -> NoEmbedding
    [] embedder = "qwen" -> 1024
    [] embedder = "glm"  -> 2048

Embedders == {"none", "qwen", "glm"}

\* rows: the dimensions of each memory's embedding; vec: those of the vector
\* table; fts and index: the memories in memory_fts and memory_vec_chunks.
Databases ==
  [exists : BOOLEAN, wal : BOOLEAN, version : 0..Target, vec : {0, 1024, 2048},
   rows : [Chunks -> {Absent, 0, 1024, 2048}],
   fts : SUBSET Chunks, index : SUBSET Chunks]

NoDatabase ==
  [exists |-> FALSE, wal |-> FALSE, version |-> 0, vec |-> 0,
   rows |-> [c \in Chunks |-> Absent], fts |-> {}, index |-> {}]

\* The databases an older program left: one without memories, or one whose
\* memories were embedded by GLM, or not at all, before sqlite-vec came in or after.
Inherited ==
  {[NoDatabase EXCEPT !.exists = TRUE, !.version = 3]} \cup
  {[NoDatabase EXCEPT !.exists = TRUE, !.wal = TRUE, !.version = 4, !.vec = v,
                      !.rows[c] = d, !.fts = {c},
                      !.index = IF d # NoEmbedding /\ v = d THEN {c} ELSE {}] :
     v \in {0, 2048}, c \in Chunks, d \in {NoEmbedding, 2048}}

Stored(d) == {c \in Chunks : d.rows[c] # Absent}

\* The main file once all of the WAL has been moved into it.
Whole(d) == [contents |-> d.wal \/ d.version > 0, rows |-> Stored(d)]

Off ==
  [pc |-> "off", kind |-> "gateway", via |-> "foreground", embedder |-> "none",
   memory |-> FALSE, existed |-> FALSE, seen |-> 0, todo |-> {}]

Init ==
  /\ config \in [embedder : Embedders, extension : BOOLEAN]
  /\ db \in Inherited \cup {NoDatabase}
  /\ file \in {Whole(db)} \cup
       IF db.wal THEN {[contents |-> TRUE, rows |-> {}]} ELSE {}  \* the older program was killed
  /\ backups = <<>>
  /\ proc = [p \in Procs |-> Off]
  /\ lost = {} /\ upgraded = {} /\ reembedded = {}
  /\ applied = [v \in 1..Target |-> IF v <= db.version THEN 1 ELSE 0]
  /\ crashes = 0 /\ edits = 0

-----------------------------------------------------------------------------

\* A transaction reaches the main file at once unless the database is in WAL mode.
Commit(d) ==
  /\ db' = d
  /\ file' = IF d.wal THEN file ELSE Whole(d)

\* SQLite moves the WAL into the main file: when it has grown, or when the last
\* connection is closed.
Checkpoint ==
  /\ file # Whole(db)
  /\ file' = Whole(db)
  /\ UNCHANGED <<config, db, backups, proc, ghosts, crashes, edits>>

Serving(p) == proc[p].kind = "gateway" /\ proc[p].pc = "serve"

Go(p, pc) == proc' = [proc EXCEPT ![p].pc = pc]

End(p) == proc' = [proc EXCEPT ![p] = Off]

\* The commands that touch the database, each with the first thing it does.
Entry(kind) ==
  CASE kind = "gateway" -> "memory"
    [] kind = "reembed" -> "list"
    [] kind = "start"   -> "version"

Launched(kind, via) ==
  [Off EXCEPT !.pc = Entry(kind), !.kind = kind, !.via = via, !.embedder = config.embedder]

\* A command is run by hand; re-embedding needs an embedding provider.
Launch(p, kind) ==
  /\ proc[p].pc = "off"
  /\ kind = "reembed" => config.embedder # "none"
  /\ proc' = [proc EXCEPT ![p] = Launched(kind, "foreground")]
  /\ UNCHANGED <<config, db, file, backups, ghosts, crashes, edits>>

-----------------------------------------------------------------------------
(* Opening the memory store, before the session store (build_runtime) *)

\* The connection turns on the WAL, and makes the vector table if there is none.
OpenMemory(p) ==
  /\ proc[p].pc = "memory"
  /\ db' = [db EXCEPT !.exists = TRUE, !.wal = TRUE,
                      !.vec = IF config.extension /\ @ = 0 THEN VecDimensions ELSE @]
  /\ file' = [file EXCEPT !.contents = TRUE]
  /\ proc' = [proc EXCEPT ![p].pc = IF config.extension THEN "backfill" ELSE "version",
                          ![p].memory = ~config.extension]
  /\ UNCHANGED <<config, backups, ghosts, crashes, edits>>

\* Memories whose embedding fits the index and that it does not hold.
Missing == {c \in Chunks : db.rows[c] = VecDimensions} \ db.index

\* Mutant: the table is made and never filled.
Backfill_Skipped(p) ==
  /\ proc[p].pc = "backfill"
  /\ proc' = [proc EXCEPT ![p].pc = "version", ![p].memory = db.version >= MemoryVersion]
  /\ reembedded' = {}
  /\ UNCHANGED <<config, db, file, backups, lost, applied, upgraded, crashes, edits>>

\* The index is filled. Without the memories' table, or when what is missing does
\* not fit the vector table, the store does not open, and the gateway goes on without memory.
Backfill(p) ==
  /\ proc[p].pc = "backfill"
  /\ LET opens == /\ db.version >= MemoryVersion
                  /\ db.vec # 0
                  /\ Missing # {} => db.vec = VecDimensions
     IN /\ proc' = [proc EXCEPT ![p].pc = "version", ![p].memory = opens]
        /\ IF opens
           THEN Commit([db EXCEPT !.index = @ \cup Missing]) /\ reembedded' = {}
           ELSE UNCHANGED <<db, file, reembedded>>
  /\ UNCHANGED <<config, backups, lost, applied, upgraded, crashes, edits>>

-----------------------------------------------------------------------------
(* Opening the session store (SqliteStore::open) *)

\* The connection creates the file if there is none, and the schema's version is read.
ReadVersion(p) ==
  /\ proc[p].pc = "version"
  /\ Commit([db EXCEPT !.exists = TRUE])
  /\ proc' = [proc EXCEPT ![p].existed = db.exists, ![p].seen = db.version,
                          ![p].pc = "initialize"]
  /\ UNCHANGED <<config, backups, ghosts, crashes, edits>>

\* An existing database of an older version is copied first, to a file named
\* after the second it is made in: a second copy in that second replaces it.
Backup(p) ==
  /\ proc[p].pc = "initialize"
  /\ proc[p].existed /\ proc[p].seen < Target /\ file.contents
  /\ \/ /\ Len(backups) < MaxBackups
        /\ backups' = Append(backups, file.rows)
     \/ /\ backups # <<>>
        /\ backups' = [backups EXCEPT ![Len(backups)] = file.rows]
  /\ Go(p, "migrate")
  /\ UNCHANGED <<config, db, file, ghosts, crashes, edits>>

NoBackup(p) ==
  /\ proc[p].pc = "initialize"
  /\ ~proc[p].existed \/ proc[p].seen = Target \/ ~file.contents
  /\ Go(p, "migrate")
  /\ UNCHANGED <<config, db, file, backups, ghosts, crashes, edits>>

\* What a process does with an open session store.
Opened(kind) ==
  CASE kind = "gateway" -> "listen"
    [] kind = "start"   -> "spawn"

\* All migrations: the last one drops the vector table.
Migrated == [db EXCEPT !.version = Target, !.vec = 0, !.index = {}]

MigrationCommitted(p) ==
  /\ Commit(Migrated)
  /\ applied' = [v \in 1..Target |-> IF v > proc[p].seen THEN applied[v] + 1 ELSE applied[v]]
  /\ upgraded' = IF db.version > 0 THEN upgraded \cup {Stored(db)} ELSE upgraded
  /\ Go(p, Opened(proc[p].kind))

\* Mutant: a row of schema_migrations may be inserted twice.
Migrate_Again(p) ==
  /\ proc[p].pc = "migrate"
  /\ IF proc[p].seen = Target
     THEN Go(p, Opened(proc[p].kind)) /\ UNCHANGED <<db, file, applied, upgraded>>
     ELSE MigrationCommitted(p)
  /\ UNCHANGED <<config, backups, lost, reembedded, crashes, edits>>

\* The migrations after the version that was read run in one transaction. When
\* another process has run them since, the key of schema_migrations refuses them
\* and the command fails.
Migrate(p) ==
  /\ proc[p].pc = "migrate"
  /\ CASE proc[p].seen = Target ->
            Go(p, Opened(proc[p].kind)) /\ UNCHANGED <<db, file, applied, upgraded>>
       [] proc[p].seen < Target /\ db.version = proc[p].seen ->
            MigrationCommitted(p)
       [] proc[p].seen < Target /\ db.version # proc[p].seen ->
            End(p) /\ UNCHANGED <<db, file, applied, upgraded>>
  /\ UNCHANGED <<config, backups, lost, reembedded, crashes, edits>>

-----------------------------------------------------------------------------
(* The gateway, and goldclaw start *)

\* Only one gateway can listen: another one ends.
Listen(p) ==
  /\ proc[p].pc = "listen"
  /\ IF \E q \in Procs : Serving(q) THEN End(p) ELSE Go(p, "serve")
  /\ UNCHANGED <<config, db, file, backups, ghosts, crashes, edits>>

\* Mutant: start runs the gateway without opening the session store first.
Spawn_Unmigrated(p, q) ==
  /\ proc[p].pc \in {"version", "spawn"} /\ proc[p].kind = "start"
  /\ proc[q].pc = "off"
  /\ ~\E g \in Procs : Serving(g)
  /\ proc' = [proc EXCEPT ![p] = Off, ![q] = Launched("gateway", "start")]
  /\ UNCHANGED <<config, db, file, backups, ghosts, crashes, edits>>

\* start runs the gateway once the session store has been opened.
Spawn(p, q) ==
  /\ proc[p].pc = "spawn"
  /\ proc[q].pc = "off"
  /\ ~\E g \in Procs : Serving(g)
  /\ proc' = [proc EXCEPT ![p] = Off, ![q] = Launched("gateway", "start")]
  /\ UNCHANGED <<config, db, file, backups, ghosts, crashes, edits>>

\* start finds a gateway running; init, which opens the session store the same way,
\* ends here in any case.
CommandDone(p) ==
  /\ proc[p].pc = "spawn"
  /\ End(p)
  /\ UNCHANGED <<config, db, file, backups, ghosts, crashes, edits>>

\* Mutant: the full text is written after the vector, outside the transaction.
WithChunk_NoText(c, e) ==
  [db EXCEPT !.rows[c] = e,
             !.index = IF config.extension /\ e # NoEmbedding THEN @ \cup {c} ELSE @]

\* The row, its full text and its vector, if sqlite-vec is there and e is not NULL.
WithChunk(c, e) ==
  [db EXCEPT !.rows[c] = e, !.fts = @ \cup {c},
             !.index = IF config.extension /\ e # NoEmbedding THEN @ \cup {c} ELSE @]

\* An exchange is remembered in one transaction, without an embedding if embedding it
\* fails. A vector that does not fit the table, or a table that is gone, rolls all of
\* it back: the turn goes on, and the memory is lost.
Save(p, c) ==
  /\ Serving(p)
  /\ db.rows[c] = Absent /\ \A l \in lost : l.chunk # c
  /\ \E e \in {NoEmbedding, Dimensions(proc[p].embedder)} :
       LET fits == config.extension /\ e # NoEmbedding => db.vec = e
       IN IF proc[p].memory /\ fits
          THEN Commit(WithChunk(c, e)) /\ UNCHANGED lost
          ELSE /\ lost' = lost \cup
                    {[chunk |-> c, via |-> proc[p].via, embedder |-> proc[p].embedder]}
               /\ UNCHANGED <<db, file>>
  /\ UNCHANGED <<config, backups, proc, applied, upgraded, reembedded, crashes, edits>>

\* What the nearest neighbours of an embedding are taken from; nothing when the
\* search fails.
VectorCandidates(e) ==
  IF config.extension /\ e = db.vec /\ e # NoEmbedding THEN db.index ELSE {}

\* What a query with embedding e, whose words occur in the memories `matches`, chooses
\* from: the full text, when the vectors have no hit.
Candidates(e, matches) ==
  IF VectorCandidates(e) # {} THEN VectorCandidates(e) ELSE db.fts \cap matches

\* The answers it may get: all candidates, or the RecallLimit that rank first.
Recalls(e, matches) ==
  {hits \in SUBSET Candidates(e, matches) :
     IF Cardinality(Candidates(e, matches)) <= RecallLimit
     THEN hits = Candidates(e, matches)
     ELSE Cardinality(hits) = RecallLimit}

-----------------------------------------------------------------------------
(* goldclaw memory reembed *)

\* It lists the memories without an embedding of the index's dimensions.
List(p) ==
  /\ proc[p].pc = "list"
  /\ Commit([db EXCEPT !.exists = TRUE])
  /\ LET todo == {c \in Chunks : db.rows[c] \notin {Absent, VecDimensions}}
     IN IF db.version < MemoryVersion \/ todo = {}
        THEN End(p)
        ELSE proc' = [proc EXCEPT ![p].pc = "embed", ![p].todo = todo]
  /\ UNCHANGED <<config, backups, ghosts, crashes, edits>>

Done(p, c) ==
  IF proc[p].todo = {c}
  THEN End(p)
  ELSE proc' = [proc EXCEPT ![p].todo = @ \ {c}]

\* One memory is embedded and its row written: the index is left to the next gateway.
Embed(p, c) ==
  /\ proc[p].pc = "embed" /\ c \in proc[p].todo
  /\ Commit([db EXCEPT !.rows[c] = Dimensions(proc[p].embedder)])
  /\ reembedded' = reembedded \cup {c}
  /\ Done(p, c)
  /\ UNCHANGED <<config, backups, lost, applied, upgraded, crashes, edits>>

EmbedFails(p, c) ==
  /\ proc[p].pc = "embed" /\ c \in proc[p].todo
  /\ Done(p, c)
  /\ UNCHANGED <<config, db, file, backups, ghosts, crashes, edits>>

-----------------------------------------------------------------------------

\* A process is stopped: kill does not let it close its connections.
Die(p) ==
  /\ proc[p].pc # "off" /\ crashes < MaxCrashes
  /\ crashes' = crashes + 1
  /\ End(p)
  /\ UNCHANGED <<config, db, file, backups, ghosts, edits>>

EditConfig(e) ==
  /\ edits < MaxEdits /\ e # config.embedder
  /\ config' = [config EXCEPT !.embedder = e]
  /\ edits' = edits + 1
  /\ UNCHANGED <<db, file, backups, proc, ghosts, crashes>>

Step(p) ==
  \/ OpenMemory(p) \/ Backfill(p)
  \/ ReadVersion(p) \/ Backup(p) \/ NoBackup(p) \/ Migrate(p)
  \/ Listen(p) \/ CommandDone(p) \/ List(p)
  \/ \E q \in Procs : Spawn(p, q)
  \/ \E c \in Chunks : Save(p, c) \/ Embed(p, c) \/ EmbedFails(p, c)

Next ==
  \/ \E p \in Procs :
       \/ \E kind \in {"gateway", "start", "reembed"} : Launch(p, kind)
       \/ Step(p)
       \/ Die(p)
  \/ \E e \in Embedders : EditConfig(e)
  \/ Checkpoint

Spec == Init /\ [][Next]_vars

-----------------------------------------------------------------------------
(* Properties *)

\* Types; no index holds what has no row, and the vector index only what fits it.
TypeOK ==
  /\ config \in [embedder : Embedders, extension : BOOLEAN]
  /\ db \in Databases
  /\ file \in [contents : BOOLEAN, rows : SUBSET Stored(db)]
  /\ backups \in Seq(SUBSET Stored(db))
  /\ db.fts = Stored(db)
  /\ db.index \subseteq db.fts /\ (db.vec = 0 => db.index = {})

\* No migration is committed twice, and a gateway serves the schema it was built
\* for, although several commands may open an old database at once and each reads
\* its version before its transaction (initialize, apply_migrations).
MigratedOnce ==
  /\ \A v \in 1..Target : applied[v] <= 1
  /\ \A p \in Procs : Serving(p) => db.version = Target

\* A gateway that `goldclaw start` ran loses no memory, unless GLM embeds it: start
\* opens the session store first, so that the gateway's memory store finds its tables,
\* and no migration drops the index under it (start_gateway, build_runtime).
LossExplained == \A l \in lost : l.via = "foreground" \/ l.embedder = "glm"

\* A memory is found by its own words, whether or not they can be embedded, unless
\* RecallLimit other candidates rank before it, or the index answers and does not hold
\* it; and the index of a gateway that `goldclaw start` ran lacks no memory but those
\* without an embedding of its dimensions and those re-embedded since it was last
\* filled (recall's fallback and limit, ensure_vector_schema).
RecallReaches ==
  \A p \in Procs : Serving(p) =>
    \A c \in db.fts : \A e \in {NoEmbedding, Dimensions(proc[p].embedder)} :
      \A others \in SUBSET Chunks : \A hits \in Recalls(e, {c} \cup others) :
        c \notin hits =>
          \/ c \in Candidates(e, {c} \cup others) /\ Cardinality(hits) = RecallLimit
          \/ /\ hits # {}
             /\ e = VecDimensions
             /\ \/ db.rows[c] # VecDimensions
                \/ c \in reembedded
                \/ proc[p].via = "foreground"

\* Every exchange of a gateway that `goldclaw start` ran becomes a row of
\* memory_chunks (add-memory-system, episodic-memory: "Memory saved after
\* assistant reply").
MemoriesStored == \A l \in lost : l.via = "foreground"

\* Before an existing database is migrated, all that is in it is in a backup
\* (build-rust-personal-ai-assistant, design.md: backed up before an upgrade).
BackupComplete ==
  \A held \in upgraded : \E i \in DOMAIN backups : backups[i] = held

=============================================================================
