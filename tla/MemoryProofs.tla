---------------------------- MODULE MemoryProofs ----------------------------
(* Proofs about Memory: the database is well typed and its indexes sound, a     *)
(* memory is found, migrations are committed once, and a gateway that          *)
(* goldclaw start ran loses no memory but those embedded by GLM, for any       *)
(* number of processes, memories, deaths and changes of the configuration.     *)
EXTENDS Memory, FiniteSetTheorems, TLAPS

Process ==
  [pc : {"off", "memory", "backfill", "version", "initialize", "migrate", "listen",
         "serve", "spawn", "list", "embed"},
   kind : {"gateway", "start", "reembed"}, via : {"foreground", "start"},
   embedder : Embedders, memory : BOOLEAN, existed : BOOLEAN, seen : 0..Target,
   todo : SUBSET Chunks]

\* What is needed of the database's type.
Database ==
  /\ DOMAIN db = {"exists", "wal", "version", "vec", "rows", "fts", "index"}
  /\ db.exists \in BOOLEAN
  /\ db.version \in 0..Target /\ db.vec \in {0, 1024, 2048}

Types ==
  /\ config \in [embedder : Embedders, extension : BOOLEAN]
  /\ Database
  /\ proc \in [Procs -> Process]

\* A migration is committed exactly when the version says so, a process has read no
\* version that the database has not reached, and it goes on only with the last one.
SchemaInv ==
  /\ applied = [v \in 1..Target |-> IF v <= db.version THEN 1 ELSE 0]
  /\ \A p \in Procs :
       /\ proc[p].seen <= db.version
       /\ proc[p].pc \in {"listen", "serve", "spawn"} => db.version = Target
       /\ proc[p].pc = "backfill" => config.extension
       /\ proc[p].kind = "reembed" => proc[p].pc \in {"off", "list", "embed"}

\* start runs a gateway on a migrated database: the gateway then has the vector table of
\* this program, if any, and an open memory store.
StartedInv ==
  /\ db.version = Target => db.vec \in {0, VecDimensions}
  /\ \A p \in Procs : proc[p].via = "start" /\ proc[p].pc # "off" =>
       /\ db.version = Target
       /\ proc[p].pc # "memory" /\ config.extension => db.vec = VecDimensions
       /\ proc[p].pc \notin {"memory", "backfill"} => proc[p].memory

Inv == Types /\ SchemaInv /\ StartedInv /\ LossExplained

\* The initial states satisfy the invariant.
LEMMA InitInv == Init => Inv
<1> SUFFICES ASSUME Init PROVE Inv
  OBVIOUS
<1>1. Database /\ db.version \in {0, 3, 4}
  <2>1. CASE db = NoDatabase
    BY <2>1 DEF NoDatabase, Database, Target
  <2>2. CASE db = [NoDatabase EXCEPT !.exists = TRUE, !.version = 3]
    BY <2>2 DEF NoDatabase, Database, Target
  <2> DEFINE old(v, c, d) ==
               [NoDatabase EXCEPT !.exists = TRUE, !.wal = TRUE, !.version = 4,
                       !.vec = v, !.rows[c] = d, !.fts = {c},
                       !.index = IF d # NoEmbedding /\ v = d THEN {c} ELSE {}]
  <2>3. ASSUME NEW v \in {0, 2048}, NEW c \in Chunks, NEW d \in {NoEmbedding, 2048},
               db = old(v, c, d)
        PROVE  Database /\ db.version \in {0, 3, 4}
    <3>1. DOMAIN db = DOMAIN NoDatabase /\ db.version = 4 /\ db.vec = v /\ db.exists
      BY <2>3 DEF NoDatabase
    <3> QED
      BY <3>1 DEF NoDatabase, Database, Target
  <2>4. Inherited = {[NoDatabase EXCEPT !.exists = TRUE, !.version = 3]} \cup
          {old(v, c, d) : v \in {0, 2048}, c \in Chunks, d \in {NoEmbedding, 2048}}
    BY DEF Inherited
  <2> HIDE DEF old
  <2>5. CASE db \in Inherited
    BY <2>2, <2>3, <2>4, <2>5
  <2> QED
    BY <2>1, <2>5 DEF Init
<1>2. Off \in Process
  BY DEF Off, Process, Embedders, Target
<1>3. Types
  BY <1>1, <1>2 DEF Init, Types
<1>4. SchemaInv
  BY <1>1 DEF Init, SchemaInv, Off, Database, Target
<1>5. StartedInv
  BY <1>1 DEF Init, StartedInv, Off, Target
<1> QED
  BY <1>3, <1>4, <1>5 DEF Inv, LossExplained, Init

\* A transaction that keeps the version, with a step of one process.
LEMMA Writes ==
  ASSUME Inv, NEW p \in Procs, NEW r \in Process, proc' = [proc EXCEPT ![p] = r],
         UNCHANGED <<config, applied, lost>>,
         Database', db'.version = db.version,
         db.vec = VecDimensions => db'.vec = VecDimensions,
         db.version = Target => db'.vec \in {0, VecDimensions},
         r.seen <= db.version,
         r.pc \in {"listen", "serve", "spawn"} => db.version = Target,
         r.pc = "backfill" => config.extension,
         r.kind = "reembed" => r.pc \in {"off", "list", "embed"},
         r.via = "start" /\ r.pc # "off" =>
           /\ db.version = Target
           /\ r.pc # "memory" /\ config.extension => db'.vec = VecDimensions
           /\ r.pc \notin {"memory", "backfill"} => r.memory
  PROVE  Inv'
<1>1. Types'
  BY DEF Inv, Types
<1>2. \A q \in Procs : proc'[q] = IF q = p THEN r ELSE proc[q]
  BY DEF Inv, Types
<1>3. SchemaInv'
  BY <1>2 DEF Inv, SchemaInv
<1>4. StartedInv'
  BY <1>2 DEF Inv, StartedInv
<1> QED
  BY <1>1, <1>3, <1>4 DEF Inv, LossExplained

\* A command starts without having read anything.
LEMMA LaunchedType ==
  ASSUME Inv, NEW kind \in {"gateway", "start", "reembed"}, NEW via \in {"foreground", "start"}
  PROVE  LET r == Launched(kind, via) IN
         /\ r \in Process
         /\ r.seen = 0 /\ r.via = via /\ r.kind = kind
         /\ r.pc = Entry(kind) /\ r.pc \in {"memory", "version", "list"}
<1>1. Off \in Process /\ Off.seen = 0
  BY DEF Off, Process, Embedders, Target
<1>2. Entry(kind) \in {"memory", "version", "list"}
  BY DEF Entry
<1>3. config.embedder \in Embedders
  BY DEF Inv, Types
<1> QED
  BY <1>1, <1>2, <1>3 DEF Process, Launched

\* A process goes on, once it has opened the memory store or if it never does.
LEMMA GoStep ==
  ASSUME Inv, NEW p \in Procs, NEW r \in Process, proc' = [proc EXCEPT ![p] = r],
         r.kind = proc[p].kind, r.via = proc[p].via, r.memory = proc[p].memory,
         proc[p].pc \notin {"off", "memory", "backfill"},
         UNCHANGED <<config, applied, lost>>,
         Database', db'.version = db.version, db'.vec = db.vec,
         r.seen <= db.version,
         r.pc \in {"listen", "serve", "spawn"} => db.version = Target,
         r.pc # "backfill",
         r.kind = "reembed" => r.pc \in {"off", "list", "embed"}
  PROVE  Inv'
<1>1. db.version = Target => db.vec \in {0, VecDimensions}
  BY DEF Inv, StartedInv
<1>2. r.via = "start" =>
        /\ db.version = Target
        /\ config.extension => db.vec = VecDimensions
        /\ r.memory
  BY DEF Inv, StartedInv
<1> QED
  BY <1>1, <1>2, Writes

\* A migration: the process read the version that is still there.
LEMMA MigrationStep ==
  ASSUME Inv, NEW p \in Procs, MigrationCommitted(p), proc[p].pc = "migrate",
         db.version = proc[p].seen, proc[p].seen < Target, UNCHANGED <<config, lost>>
  PROVE  Inv'
<1> DEFINE r == [proc[p] EXCEPT !.pc = Opened(proc[p].kind)]
<1>1. proc[p] \in Process /\ proc[p].kind \in {"gateway", "start"}
  BY DEF Inv, Types, SchemaInv, Process
<1>2. r \in Process /\ r.pc \in {"listen", "spawn"} /\ r.seen = proc[p].seen
      /\ r.kind = proc[p].kind /\ r.via = proc[p].via
  BY <1>1 DEF Process, Opened
<1>3. proc' = [proc EXCEPT ![p] = r]
  BY DEF MigrationCommitted, Go
<1>4. \A q \in Procs : proc'[q] = IF q = p THEN r ELSE proc[q]
  BY <1>3 DEF Inv, Types
<1>5. Database' /\ db'.version = Target /\ db'.vec = 0
  BY DEF MigrationCommitted, Commit, Migrated, Inv, Types, Database, Target
<1>6. Types'
  BY <1>2, <1>3, <1>5 DEF Inv, Types
<1>7. applied' = [v \in 1..Target |-> 1]
  BY DEF MigrationCommitted, Inv, SchemaInv, Types, Database, Target
<1>8. SchemaInv'
  <2>1. \A q \in Procs : proc[q].seen <= Target
    BY DEF Inv, Types, Process, Target
  <2>2. applied' = [v \in 1..Target |-> IF v <= db'.version THEN 1 ELSE 0]
    BY <1>5, <1>7 DEF Target
  <2> QED
    BY ZenonT(40), <1>1, <1>2, <1>4, <1>5, <1>7, <2>1, <2>2 DEF Inv, SchemaInv
<1>9. StartedInv'
  <2>1. \A q \in Procs : ~(proc[q].via = "start" /\ proc[q].pc # "off")
    BY <1>1 DEF Inv, StartedInv, Process, Target
  <2> QED
    BY <1>1, <1>2, <1>4, <1>5, <2>1 DEF StartedInv
<1> QED
  BY <1>6, <1>8, <1>9 DEF Inv, LossExplained

\* A gateway that has no place for a memory was run by hand, or embeds with GLM.
LEMMA SaveStep ==
  ASSUME Inv, NEW p \in Procs, NEW c \in Chunks, Save(p, c)
  PROVE  Inv'
<1>1. PICK e \in {NoEmbedding, Dimensions(proc[p].embedder)} :
        IF proc[p].memory /\ (config.extension /\ e # NoEmbedding => db.vec = e)
        THEN Commit(WithChunk(c, e)) /\ UNCHANGED lost
        ELSE /\ lost' = lost \cup
                  {[chunk |-> c, via |-> proc[p].via, embedder |-> proc[p].embedder]}
             /\ UNCHANGED <<db, file>>
  BY DEF Save
<1>2. proc[p] \in Process /\ proc' = proc /\ UNCHANGED <<config, applied>>
  BY DEF Save, Inv, Types
<1>3. e \in {0, 1024, 2048}
  BY <1>2 DEF Process, Embedders, Dimensions, NoEmbedding
<1>4. CASE Commit(WithChunk(c, e)) /\ UNCHANGED lost
  <2>1. Database' /\ db'.version = db.version /\ db'.vec = db.vec
    BY <1>3, <1>4 DEF Commit, WithChunk, Inv, Types, Database
  <2>2. Types' /\ SchemaInv' /\ StartedInv'
    BY <1>2, <2>1 DEF Inv, Types, SchemaInv, StartedInv
  <2> QED
    BY <1>4, <2>2 DEF Inv, LossExplained
<1>5. CASE /\ lost' = lost \cup
                 {[chunk |-> c, via |-> proc[p].via, embedder |-> proc[p].embedder]}
           /\ UNCHANGED <<db, file>>
           /\ ~(proc[p].memory /\ (config.extension /\ e # NoEmbedding => db.vec = e))
  <2>1. proc[p].via = "start" => proc[p].memory /\ (config.extension => db.vec = VecDimensions)
    BY DEF Save, Serving, Inv, StartedInv
  <2>2. proc[p].via = "start" => proc[p].embedder = "glm"
    BY <1>2, <1>5, <2>1 DEF Process, Embedders, Dimensions, NoEmbedding, VecDimensions
  <2>3. LossExplained'
    BY <1>2, <1>5, <2>2 DEF Inv, LossExplained, Process
  <2>4. Types'
    BY <1>2, <1>5 DEF Inv, Types, Database
  <2>5. SchemaInv' /\ StartedInv'
    BY <1>2, <1>5 DEF Inv, SchemaInv, StartedInv
  <2> QED
    BY <2>3, <2>4, <2>5 DEF Inv
<1> QED
  BY <1>1, <1>4, <1>5

\* goldclaw start runs the gateway: the session store that it has opened is migrated.
LEMMA SpawnStep ==
  ASSUME Inv, NEW p \in Procs, NEW q \in Procs, Spawn(p, q)
  PROVE  Inv'
<1> DEFINE r == Launched("gateway", "start")
<1>1. proc' = [proc EXCEPT ![p] = Off, ![q] = r] /\ UNCHANGED <<config, db, applied, lost>>
  BY DEF Spawn, ghosts
<1>2. /\ r \in Process /\ r.seen = 0 /\ r.via = "start" /\ r.kind = "gateway"
      /\ r.pc = Entry("gateway")
  BY LaunchedType
<1>3. r.pc = "memory"
  BY <1>2 DEF Entry
<1>4. /\ Off \in Process /\ Off.seen = 0 /\ Off.pc = "off" /\ Off.via = "foreground"
      /\ Off.kind = "gateway"
  BY DEF Off, Process, Embedders, Target
<1>5. db.version = Target /\ 0 <= db.version
  BY DEF Spawn, Inv, SchemaInv, Target
<1> HIDE DEF r
<1>6. Types'
  BY <1>1, <1>2, <1>4 DEF Inv, Types, Database
<1>7. \A g \in Procs : proc'[g] \in {proc[g], Off, r}
  BY <1>1 DEF Inv, Types
<1>8. SchemaInv'
  BY ZenonT(40), <1>1, <1>2, <1>3, <1>4, <1>5, <1>7 DEF Inv, SchemaInv
<1>9. StartedInv'
  BY <1>1, <1>2, <1>3, <1>4, <1>5, <1>7 DEF Inv, StartedInv
<1> QED
  BY <1>1, <1>6, <1>8, <1>9 DEF Inv, LossExplained

\* Every step keeps the invariant.
LEMMA StepInv ==
  ASSUME Inv, [Next]_vars
  PROVE  Inv'
<1>1. ASSUME NEW p \in Procs PROVE proc[p] \in Process
  BY DEF Inv, Types
<1>3. ASSUME NEW p \in Procs, End(p), UNCHANGED <<config, applied, lost>>,
             Database', db'.version = db.version, db'.vec = db.vec
      PROVE  Inv'
  <2>1. Off \in Process /\ Off.seen = 0 /\ Off.pc = "off"
    BY DEF Off, Process, Embedders, Target
  <2>2. db.version >= 0 /\ (db.version = Target => db.vec \in {0, VecDimensions})
    BY DEF Inv, StartedInv, Types, Database, Target
  <2> QED
    BY <1>3, <2>1, <2>2, Writes DEF End
<1>4. ASSUME UNCHANGED <<db, proc, applied, lost, config>> PROVE Inv'
  <2>1. Types'
    BY <1>4 DEF Inv, Types, Database
  <2>2. SchemaInv' /\ StartedInv' /\ LossExplained'
    BY <1>4 DEF Inv, SchemaInv, StartedInv, LossExplained
  <2> QED
    BY <2>1, <2>2 DEF Inv
<1>5. /\ Database /\ db.version \in Nat
      /\ db.version = Target => db.vec \in {0, VecDimensions}
  BY DEF Inv, Types, Database, StartedInv, Target
<1>6. ASSUME NEW p \in Procs, NEW kind \in {"gateway", "start", "reembed"}, Launch(p, kind)
      PROVE  Inv'
  <2> DEFINE r == Launched(kind, "foreground")
  <2>1. UNCHANGED <<config, db, applied, lost>> /\ proc' = [proc EXCEPT ![p] = r]
    BY <1>6 DEF Launch, ghosts
  <2>2. /\ r \in Process /\ r.seen = 0 /\ r.via = "foreground" /\ r.kind = kind
        /\ r.pc = Entry(kind) /\ r.pc \in {"memory", "version", "list"}
    BY LaunchedType
  <2>3. kind = "reembed" => r.pc = "list"
    BY <2>2 DEF Entry
  <2>4. Database' /\ r.seen <= db.version
    BY <1>5, <2>1, <2>2 DEF Database
  <2> HIDE DEF r
  <2> QED
    BY <1>5, <2>1, <2>2, <2>3, <2>4, Writes
<1>a. ASSUME NEW p \in Procs
      PROVE  /\ proc[p] \in Process /\ proc[p].seen <= db.version
             /\ proc[p].kind = "reembed" => proc[p].pc \in {"off", "list", "embed"}
             /\ proc[p].pc = "backfill" => config.extension
  BY DEF Inv, Types, SchemaInv
<1>7. ASSUME NEW p \in Procs, OpenMemory(p) PROVE Inv'
  <2> DEFINE r == [proc[p] EXCEPT !.pc = IF config.extension THEN "backfill" ELSE "version",
                                  !.memory = ~config.extension]
  <2>1. r \in Process
    BY ZenonT(40), <1>a DEF Process
  <2>2. /\ r.seen = proc[p].seen /\ r.kind = proc[p].kind /\ r.via = proc[p].via
        /\ r.pc = IF config.extension THEN "backfill" ELSE "version"
        /\ r.memory <=> ~config.extension
    BY <1>a DEF Process
  <2>3. proc' = [proc EXCEPT ![p] = r] /\ UNCHANGED <<config, applied, lost>>
    BY <1>7 DEF OpenMemory, ghosts
  <2>4. /\ Database' /\ db'.version = db.version
        /\ db'.vec = IF config.extension /\ db.vec = 0 THEN VecDimensions ELSE db.vec
    BY <1>5, <1>7 DEF OpenMemory, Database, VecDimensions
  <2>5. r.via = "start" => db.version = Target
    BY <1>7, <2>2 DEF OpenMemory, Inv, StartedInv
  <2>6. /\ db.vec = VecDimensions => db'.vec = VecDimensions
        /\ db.version = Target => db'.vec \in {0, VecDimensions}
        /\ db.version = Target /\ config.extension => db'.vec = VecDimensions
    BY <1>5, <2>4 DEF VecDimensions
  <2>7. r.kind # "reembed"
    BY <1>7, <1>a, <2>2 DEF OpenMemory
  <2> HIDE DEF r
  <2>8. /\ r.pc \notin {"listen", "serve", "spawn", "memory"} /\ (r.pc = "backfill" => config.extension)
        /\ r.pc # "backfill" => r.memory
    <3>1. CASE config.extension
      BY <2>2, <3>1, Zenon
    <3>2. CASE ~config.extension
      BY <2>2, <3>2, Zenon
    <3> QED
      BY <3>1, <3>2
  <2> QED
    BY <1>a, <2>1, <2>2, <2>3, <2>4, <2>5, <2>6, <2>7, <2>8, Writes
<1>8. ASSUME NEW p \in Procs, Backfill(p) PROVE Inv'
  <2> DEFINE opens == /\ db.version >= MemoryVersion
                      /\ db.vec # 0
                      /\ Missing # {} => db.vec = VecDimensions
             r == [proc[p] EXCEPT !.pc = "version", !.memory = opens]
  <2>1. opens \in BOOLEAN
    OBVIOUS
  <2>2. r \in Process
    BY <1>a, <2>1 DEF Process
  <2>3. /\ r.seen = proc[p].seen /\ r.kind = proc[p].kind /\ r.via = proc[p].via
        /\ r.pc = "version" /\ (r.memory <=> opens)
    BY <1>a DEF Process
  <2>4. proc' = [proc EXCEPT ![p] = r] /\ UNCHANGED <<config, applied, lost>>
    BY <1>8 DEF Backfill
  <2>5. Database' /\ db'.version = db.version /\ db'.vec = db.vec
    BY <1>5, <1>8 DEF Backfill, Commit, Database
  <2>6. r.via = "start" =>
          /\ db.version = Target
          /\ config.extension => db.vec = VecDimensions
          /\ r.memory
    <3>1. proc[p].via = "start" => db.version = Target
      BY <1>8 DEF Backfill, Inv, StartedInv
    <3>2. config.extension
      BY <1>8, <1>a DEF Backfill
    <3>3. proc[p].via = "start" => db.vec = VecDimensions
      BY <1>8, <3>2 DEF Backfill, Inv, StartedInv
    <3>4. proc[p].via = "start" => opens
      BY <3>1, <3>3 DEF VecDimensions, MemoryVersion, Target
    <3> QED
      BY <2>3, <3>1, <3>3, <3>4
  <2>7. r.kind # "reembed"
    BY <1>8, <1>a, <2>3 DEF Backfill
  <2> HIDE DEF r, opens
  <2> QED
    BY <1>5, <1>a, <2>2, <2>3, <2>4, <2>5, <2>6, <2>7, Writes
<1>9. ASSUME NEW p \in Procs, ReadVersion(p) PROVE Inv'
  <2> DEFINE r == [proc[p] EXCEPT !.existed = db.exists, !.seen = db.version,
                                  !.pc = "initialize"]
  <2>0. db.exists \in BOOLEAN /\ db.version \in 0..Target
    BY <1>5 DEF Database
  <2>1. r \in Process
    BY <1>a, <2>0 DEF Process
  <2>2. /\ r.seen = db.version /\ r.kind = proc[p].kind /\ r.via = proc[p].via
        /\ r.pc = "initialize" /\ r.memory = proc[p].memory
    BY <1>a DEF Process
  <2>3. proc' = [proc EXCEPT ![p] = r] /\ UNCHANGED <<config, applied, lost>>
    BY <1>9 DEF ReadVersion, ghosts
  <2>4. Database' /\ db'.version = db.version /\ db'.vec = db.vec
    BY <1>5, <1>9 DEF ReadVersion, Commit, Database
  <2>5. proc[p].pc = "version" /\ r.kind # "reembed"
    BY <1>9, <1>a, <2>2 DEF ReadVersion
  <2>6. r.seen <= db.version
    BY <1>5, <2>2
  <2> HIDE DEF r
  <2> QED
    BY <2>6, <2>1, <2>2, <2>3, <2>4, <2>5, GoStep
<1>g. ASSUME NEW p \in Procs, NEW pc \in {"migrate", "listen", "serve", "spawn"},
             Go(p, pc), UNCHANGED <<config, db, applied, lost>>,
             proc[p].pc \in {"initialize", "migrate", "listen"},
             pc # "migrate" => db.version = Target
      PROVE  Inv'
  <2> DEFINE r == [proc[p] EXCEPT !.pc = pc]
  <2>1. r \in Process
    BY <1>a DEF Process
  <2>2. /\ r.seen = proc[p].seen /\ r.kind = proc[p].kind /\ r.via = proc[p].via
        /\ r.pc = pc /\ r.memory = proc[p].memory
    BY <1>a DEF Process
  <2>3. proc' = [proc EXCEPT ![p] = r] /\ Database'
    BY <1>5, <1>g DEF Go, Database
  <2> HIDE DEF r
  <2> QED
    BY <1>5, <1>a, <1>g, <2>1, <2>2, <2>3, GoStep
<1>10. ASSUME NEW p \in Procs, Backup(p) \/ NoBackup(p) PROVE Inv'
  BY <1>g, <1>10 DEF Backup, NoBackup, ghosts
<1>11. ASSUME NEW p \in Procs, Migrate(p) PROVE Inv'
  <2>0. /\ proc[p].pc = "migrate" /\ proc[p].kind \in {"gateway", "start"}
        /\ proc[p].seen \in 0..Target /\ db.version \in 0..Target
    BY <1>5, <1>11, <1>a DEF Migrate, Process, Database
  <2>1. CASE proc[p].seen = Target
    <3>1. db.version = Target
      BY <1>a, <2>0, <2>1 DEF Target
    <3>2. Go(p, Opened(proc[p].kind)) /\ UNCHANGED <<config, db, applied, lost>>
      BY <1>11, <2>1 DEF Migrate, Target
    <3>3. Opened(proc[p].kind) \in {"listen", "spawn"}
      BY <2>0 DEF Opened
    <3> QED
      BY <1>g, <2>0, <3>1, <3>2, <3>3
  <2>2. CASE proc[p].seen < Target /\ db.version = proc[p].seen
    BY <1>11, <2>0, <2>2, MigrationStep DEF Migrate, Target
  <2>3. CASE proc[p].seen < Target /\ db.version # proc[p].seen
    <3>0. proc[p].seen # Target
      BY <2>0, <2>3 DEF Target
    <3>1. End(p) /\ UNCHANGED <<config, db, applied, lost>>
      BY <1>11, <2>3, <3>0, Zenon DEF Migrate
    <3>2. Database'
      BY <1>5, <3>1 DEF Database
    <3> QED
      BY <1>3, <3>1, <3>2
  <2> QED
    BY <2>0, <2>1, <2>2, <2>3 DEF Target
<1>12. ASSUME NEW p \in Procs, Listen(p) PROVE Inv'
  <2>1. CASE End(p)
    BY <1>3, <1>5, <1>12, <2>1 DEF Listen, ghosts, Database
  <2>2. CASE Go(p, "serve")
    BY <1>g, <1>12, <2>2 DEF Listen, ghosts, Inv, SchemaInv
  <2> QED
    BY <1>12, <2>1, <2>2 DEF Listen
<1>13. ASSUME NEW p \in Procs, CommandDone(p) PROVE Inv'
  BY <1>3, <1>5, <1>13 DEF CommandDone, ghosts, Database
<1>14. ASSUME NEW p \in Procs, List(p) PROVE Inv'
  <2> DEFINE todo == {c \in Chunks : db.rows[c] \notin {Absent, VecDimensions}}
             r == [proc[p] EXCEPT !.pc = "embed", !.todo = todo]
  <2>1. r \in Process
    BY <1>a DEF Process
  <2>2. /\ r.seen = proc[p].seen /\ r.kind = proc[p].kind /\ r.via = proc[p].via
        /\ r.pc = "embed" /\ r.memory = proc[p].memory
    BY <1>a DEF Process
  <2>3. Database' /\ db'.version = db.version /\ db'.vec = db.vec
    BY <1>5, <1>14 DEF List, Commit, Database
  <2>4. proc[p].pc = "list" /\ UNCHANGED <<config, applied, lost>>
    BY <1>14 DEF List, ghosts
  <2>5. End(p) \/ proc' = [proc EXCEPT ![p] = r]
    BY <1>14 DEF List
  <2> HIDE DEF r, todo
  <2>6. CASE proc' = [proc EXCEPT ![p] = r]
    BY <1>a, <2>1, <2>2, <2>3, <2>4, <2>6, GoStep
  <2> QED
    BY <1>3, <2>3, <2>4, <2>5, <2>6
<1>15. ASSUME NEW p \in Procs, NEW q \in Procs, Spawn(p, q) PROVE Inv'
  BY <1>15, SpawnStep
<1>16. ASSUME NEW p \in Procs, NEW c \in Chunks, Embed(p, c) \/ EmbedFails(p, c) PROVE Inv'
  <2> DEFINE r == [proc[p] EXCEPT !.todo = @ \ {c}]
  <2>1. r \in Process
    BY <1>a DEF Process
  <2>2. /\ r.seen = proc[p].seen /\ r.kind = proc[p].kind /\ r.via = proc[p].via
        /\ r.pc = proc[p].pc /\ r.memory = proc[p].memory
    BY <1>a DEF Process
  <2>3. proc[p].pc = "embed" /\ Done(p, c) /\ UNCHANGED <<config, applied, lost>>
    BY <1>16 DEF Embed, EmbedFails, ghosts
  <2>4. Database' /\ db'.version = db.version /\ db'.vec = db.vec
    BY <1>5, <1>16 DEF Embed, EmbedFails, Commit, Database
  <2>6. End(p) \/ proc' = [proc EXCEPT ![p] = r]
    BY <2>3 DEF Done
  <2> HIDE DEF r
  <2>7. CASE proc' = [proc EXCEPT ![p] = r]
    BY <1>a, <2>1, <2>2, <2>3, <2>4, <2>7, GoStep
  <2> QED
    BY <1>3, <2>3, <2>4, <2>6, <2>7
<1>17. ASSUME NEW p \in Procs, Die(p) PROVE Inv'
  BY <1>3, <1>5, <1>17 DEF Die, ghosts, Database
<1>18. ASSUME NEW e \in Embedders, EditConfig(e) PROVE Inv'
  <2>1. Types'
    BY <1>18 DEF EditConfig, Inv, Types, Database
  <2>2. SchemaInv' /\ StartedInv' /\ LossExplained'
    BY <1>18 DEF EditConfig, ghosts, Inv, Types, SchemaInv, StartedInv, LossExplained
  <2> QED
    BY <2>1, <2>2 DEF Inv
<1>19. CASE Checkpoint
  BY <1>4, <1>19 DEF Checkpoint, ghosts
<1>20. CASE UNCHANGED vars
  BY <1>4, <1>20 DEF vars, ghosts
<1> QED
  BY SaveStep, <1>6, <1>7, <1>8, <1>9, <1>10, <1>11, <1>12, <1>13, <1>14, <1>15, <1>16,
     <1>17, <1>18, <1>19, <1>20
  DEF Next, Step

\* No migration is committed twice, and a gateway serves the schema it was built for
\* (initialize, apply_migrations), for any number of processes.
THEOREM MigrationsOnce == Spec => []MigratedOnce
<1>1. Inv => MigratedOnce
  BY DEF Inv, Types, Database, SchemaInv, MigratedOnce, Serving
<1> QED
  BY InitInv, StepInv, <1>1, PTL DEF Spec

\* A gateway that goldclaw start ran loses no memory, unless GLM embeds it
\* (start_gateway, build_runtime), for any number of processes and memories.
THEOREM NoMemoryLost == Spec => []LossExplained
<1>1. Inv => LossExplained
  BY DEF Inv
<1> QED
  BY InitInv, StepInv, <1>1, PTL DEF Spec

-----------------------------------------------------------------------------
(* What the database holds *)

\* No index of d holds what has no row, and the vector index only what fits it.
Sound(d) ==
  /\ d \in Databases
  /\ d.fts = Stored(d)
  /\ d.index \subseteq d.fts
  /\ d.vec = 0 => d.index = {}

\* Re-embedding changes rows that are there: memories are never deleted.
TodoInv == \A p \in Procs : proc[p].todo \subseteq Stored(db)

\* The vector index holds every memory that fits it, but what was re-embedded since.
Filled ==
  \A c \in Chunks : db.rows[c] = VecDimensions => c \in db.index \cup reembedded

\* Once a gateway that goldclaw start ran has filled the index, it stays filled.
Filling(p) ==
  /\ proc[p].via = "start" /\ proc[p].pc \notin {"off", "memory", "backfill"}
  /\ config.extension

IndexInv == \A p \in Procs : Filling(p) => Filled

\* A field of a database is set to a value of its type.
LEMMA SetExists == \A d \in Databases, b \in BOOLEAN : [d EXCEPT !.exists = b] \in Databases
BY DEF Databases

\* So is its vector index.
LEMMA SetIndex == \A d \in Databases, S \in SUBSET Chunks : [d EXCEPT !.index = S] \in Databases
BY DEF Databases

\* A longer database is as good a bound of what the files hold.
LEMMA LongerSeq ==
  ASSUME NEW S, NEW T, S \subseteq T, NEW q \in Seq(SUBSET S)
  PROVE  q \in Seq(SUBSET T)
<1>1. Len(q) \in Nat /\ q \in [1..Len(q) -> SUBSET S]
  OBVIOUS
<1>2. q \in [1..Len(q) -> SUBSET T]
  BY <1>1
<1> QED
  BY <1>1, <1>2

\* A step that loses no row.
LEMMA Grown ==
  ASSUME TypeOK, config' \in [embedder : Embedders, extension : BOOLEAN], Sound(db'),
         Stored(db) \subseteq Stored(db'), UNCHANGED backups,
         file' \in {file, Whole(db'), [file EXCEPT !.contents = TRUE]}
  PROVE  TypeOK'
<1>1. Stored(db)' = Stored(db')
  BY DEF Stored
<1>2. backups' \in Seq(SUBSET Stored(db'))
  BY LongerSeq DEF TypeOK
<1>3. file' \in [contents : BOOLEAN, rows : SUBSET Stored(db')]
  <2>1. Whole(db') \in [contents : BOOLEAN, rows : SUBSET Stored(db')]
    <3>1. db'.wal \in BOOLEAN
      BY DEF Sound, Databases
    <3>2. (db'.wal \/ db'.version > 0) \in BOOLEAN
      OBVIOUS
    <3> QED
      BY <3>2 DEF Whole
  <2>2. file \in [contents : BOOLEAN, rows : SUBSET Stored(db')]
    BY DEF TypeOK
  <2> QED
    BY <2>1, <2>2
<1> QED
  BY <1>1, <1>2, <1>3 DEF TypeOK, Sound

\* The databases there may be at first are sound.
LEMMA SoundInit ==
  ASSUME Init
  PROVE  Sound(db)
<1>0. /\ NoDatabase \in Databases /\ Stored(NoDatabase) = {}
      /\ NoDatabase.fts = {} /\ NoDatabase.index = {} /\ NoDatabase.vec = 0
      /\ NoDatabase.rows = [k \in Chunks |-> Absent]
  <2>1. [k \in Chunks |-> Absent] \in [Chunks -> {Absent, 0, 1024, 2048}] /\ 0 \in 0..Target
    BY DEF Target
  <2>2. NoDatabase \in Databases
    BY <2>1 DEF Databases, NoDatabase
  <2>3. /\ NoDatabase.fts = {} /\ NoDatabase.index = {} /\ NoDatabase.vec = 0
        /\ NoDatabase.rows = [k \in Chunks |-> Absent]
    BY DEF NoDatabase
  <2>4. Stored(NoDatabase) = {}
    BY <2>3 DEF Stored
  <2> QED
    BY <2>2, <2>3, <2>4
<1>1. Sound(NoDatabase) /\ Sound([NoDatabase EXCEPT !.exists = TRUE, !.version = 3])
  <2> DEFINE d == [NoDatabase EXCEPT !.exists = TRUE, !.version = 3]
  <2>1. 3 \in 0..Target
    BY DEF Target
  <2>2. d \in Databases
    <3> DEFINE d1 == [NoDatabase EXCEPT !.exists = TRUE]
               d2 == [d1 EXCEPT !.version = 3]
    <3>1. d1 \in Databases
      BY <1>0, SetExists
    <3>2. d2 \in Databases
      <4> HIDE DEF d1
      <4> QED BY <2>1, <3>1 DEF Databases
    <3>3. d = d2
      BY <1>0 DEF Databases
    <3> HIDE DEF d, d2
    <3> QED BY <3>2, <3>3
  <2>3. d.fts = {} /\ d.index = {} /\ d.rows = NoDatabase.rows
    BY <1>0 DEF Databases
  <2>4. Stored(d) = {}
    BY <1>0, <2>3 DEF Stored
  <2> QED
    BY <1>0, <2>2, <2>3, <2>4 DEF Sound
<1> DEFINE yes == TRUE
           old(v, c, d) ==
             [NoDatabase EXCEPT !.exists = yes, !.wal = yes, !.version = 4,
                     !.vec = v, !.rows[c] = d, !.fts = {c},
                     !.index = IF d # NoEmbedding /\ v = d THEN {c} ELSE {}]
<1>2. yes \in BOOLEAN
  OBVIOUS
<1>3. Inherited = {[NoDatabase EXCEPT !.exists = TRUE, !.version = 3]} \cup
        {old(v, c, d) : v \in {0, 2048}, c \in Chunks, d \in {NoEmbedding, 2048}}
  BY DEF Inherited
<1> HIDE DEF yes
<1>4. ASSUME NEW v \in {0, 2048}, NEW c \in Chunks, NEW d \in {NoEmbedding, 2048}
      PROVE  Sound(old(v, c, d))
  <2> DEFINE S == IF d # NoEmbedding /\ v = d THEN {c} ELSE {}
             d1 == [NoDatabase EXCEPT !.exists = yes]
             d2 == [d1 EXCEPT !.wal = yes]
             d3 == [d2 EXCEPT !.version = 4]
             d4 == [d3 EXCEPT !.vec = v]
             d5 == [d4 EXCEPT !.rows[c] = d]
             d6 == [d5 EXCEPT !.fts = {c}]
             d7 == [d6 EXCEPT !.index = S]
  <2>1. /\ 4 \in 0..Target /\ v \in {0, 1024, 2048} /\ d \in {0, 1024, 2048}
        /\ S \in SUBSET Chunks /\ {c} \in SUBSET Chunks
    BY DEF NoEmbedding, Target
  <2>2. /\ old(v, c, d).fts = {c} /\ old(v, c, d).vec = v
        /\ old(v, c, d).rows = [NoDatabase.rows EXCEPT ![c] = d]
        /\ old(v, c, d).index = S
    BY <1>0 DEF Databases
  <2>3. old(v, c, d) = d7
    BY <1>0 DEF Databases
  <2>4. /\ S \subseteq {c} /\ (v = 0 => S = {}) /\ d # Absent
    BY DEF Absent, NoEmbedding
  <2> HIDE DEF old, S
  <2>5. d1 \in Databases
    BY <1>0, <1>2 DEF Databases
  <2> HIDE DEF d1
  <2>6. d2 \in Databases
    BY <1>2, <2>5 DEF Databases
  <2> HIDE DEF d2
  <2>7. d3 \in Databases
    BY <2>1, <2>6 DEF Databases
  <2> HIDE DEF d3
  <2>8. d4 \in Databases
    BY <2>1, <2>7 DEF Databases
  <2> HIDE DEF d4
  <2>9. d5 \in Databases
    BY <2>1, <2>8 DEF Databases
  <2> HIDE DEF d5
  <2>10. d6 \in Databases
    BY <2>1, <2>9 DEF Databases
  <2> HIDE DEF d6
  <2>11. d7 \in Databases
    BY <2>1, <2>10 DEF Databases
  <2> HIDE DEF d7
  <2>12. /\ old(v, c, d).rows[c] = d
         /\ \A k \in Chunks \ {c} : old(v, c, d).rows[k] = Absent
    <3>1. NoDatabase.rows = [k \in Chunks |-> Absent]
      BY <1>0
    <3>2. old(v, c, d).rows = [[k \in Chunks |-> Absent] EXCEPT ![c] = d]
      BY <2>2, <3>1
    <3>3. old(v, c, d).rows[c] = d
      BY <3>2
    <3>4. ASSUME NEW k \in Chunks \ {c} PROVE old(v, c, d).rows[k] = Absent
      BY <3>2
    <3> QED BY <3>3, <3>4
  <2>13. Stored(old(v, c, d)) = {c}
    BY <2>4, <2>12 DEF Stored
  <2> QED
    BY <2>2, <2>3, <2>4, <2>11, <2>13 DEF Sound
<1> HIDE DEF old
<1>5. CASE db \in Inherited
  BY <1>1, <1>4, <1>3, <1>5
<1> QED
  BY <1>1, <1>5 DEF Init

\* At first all rows are indexed, and no gateway runs.
LEMMA ContentInit == Init => TypeOK /\ TodoInv /\ IndexInv
<1> SUFFICES ASSUME Init PROVE TypeOK /\ TodoInv /\ IndexInv
  OBVIOUS
<1>1. Sound(db)
  BY SoundInit
<1>2. file \in [contents : BOOLEAN, rows : SUBSET Stored(db)]
  <2>1. (db.wal \/ db.version > 0) \in BOOLEAN /\ {} \in SUBSET Stored(db)
    OBVIOUS
  <2>2. Whole(db) \in [contents : BOOLEAN, rows : SUBSET Stored(db)]
    BY <2>1 DEF Whole
  <2>3. [contents |-> TRUE, rows |-> {}] \in [contents : BOOLEAN, rows : SUBSET Stored(db)]
    BY <2>1
  <2>4. file \in {Whole(db), [contents |-> TRUE, rows |-> {}]}
    BY DEF Init
  <2> QED
    BY <2>2, <2>3, <2>4
<1>3. backups \in Seq(SUBSET Stored(db))
  BY DEF Init
<1>4. TypeOK
  BY <1>1, <1>2, <1>3 DEF Init, TypeOK, Sound
<1>5. TodoInv /\ IndexInv
  BY DEF Init, TodoInv, IndexInv, Filling, Off
<1> QED
  BY <1>4, <1>5

\* A step of one process that fills no index and loses no row.
LEMMA ProcessFrame ==
  ASSUME Types, TodoInv, IndexInv, NEW p \in Procs, NEW r, proc' = [proc EXCEPT ![p] = r],
         UNCHANGED config, Stored(db) \subseteq Stored(db'), r.todo \subseteq Stored(db'),
         r.via = "start" /\ r.pc \notin {"off", "memory", "backfill"} =>
           proc[p].via = "start" /\ proc[p].pc \notin {"off", "memory", "backfill"},
         Filled => Filled'
  PROVE  TodoInv' /\ IndexInv'
<1>1. \A q \in Procs : proc'[q] = IF q = p THEN r ELSE proc[q]
  BY DEF Types
<1>2. Stored(db)' = Stored(db')
  BY DEF Stored
<1>3. TodoInv'
  BY <1>1, <1>2 DEF TodoInv
<1>4. IndexInv'
  <2> SUFFICES ASSUME NEW q \in Procs, Filling(q)' PROVE Filled'
    BY DEF IndexInv
  <2>1. Filling(q)
    BY <1>1 DEF Filling
  <2> QED
    BY <2>1 DEF IndexInv
<1> QED
  BY <1>3, <1>4

\* A process that ends has nothing left to do.
LEMMA EndFrame ==
  ASSUME Types, TodoInv, IndexInv, NEW p \in Procs, End(p),
         UNCHANGED config, Stored(db) \subseteq Stored(db'), Filled => Filled'
  PROVE  TodoInv' /\ IndexInv'
<1>1. Off.todo = {} /\ Off.pc = "off" /\ proc' = [proc EXCEPT ![p] = Off]
  BY DEF Off, End
<1>2. Off.todo \subseteq Stored(db')
  BY <1>1
<1>3. Off.via = "start" /\ Off.pc \notin {"off", "memory", "backfill"} =>
           proc[p].via = "start" /\ proc[p].pc \notin {"off", "memory", "backfill"}
  BY <1>1
<1> HIDE DEF Off
<1> QED
  BY <1>1, <1>2, <1>3, ProcessFrame

\* A connection creates the file.
LEMMA SoundExists ==
  ASSUME Sound(db), db' = [db EXCEPT !.exists = TRUE]
  PROVE  /\ Sound(db') /\ Stored(db') = Stored(db)
         /\ db'.rows = db.rows /\ db'.index = db.index
<1>1. db' \in Databases
  BY SetExists DEF Sound
<1>2. /\ db'.rows = db.rows /\ db'.index = db.index /\ db'.fts = db.fts
      /\ db'.vec = db.vec
  BY DEF Sound, Databases
<1>3. Stored(db') = Stored(db)
  BY <1>2 DEF Stored
<1> QED
  BY <1>1, <1>2, <1>3 DEF Sound

\* Stored rows are put into the index.
LEMMA SoundIndex ==
  ASSUME Sound(db), NEW S \in SUBSET Stored(db), db.vec # 0,
         db' = [db EXCEPT !.index = @ \cup S]
  PROVE  /\ Sound(db') /\ Stored(db') = Stored(db)
         /\ db'.rows = db.rows /\ db'.index = db.index \cup S
<1>1. db.index \cup S \in SUBSET Chunks
  BY DEF Sound, Databases, Stored
<1>2. db' \in Databases
  BY <1>1, SetIndex DEF Sound
<1>3. /\ db'.rows = db.rows /\ db'.index = db.index \cup S /\ db'.fts = db.fts
      /\ db'.vec = db.vec
  BY DEF Sound, Databases
<1>4. Stored(db') = Stored(db)
  BY <1>3 DEF Stored
<1> QED
  BY <1>2, <1>3, <1>4 DEF Sound

\* The embedding of a row is written over.
LEMMA SoundRow ==
  ASSUME Sound(db), NEW c, NEW n, c \in Stored(db), n \in {0, 1024, 2048},
         db' = [db EXCEPT !.rows[c] = n]
  PROVE  /\ Sound(db') /\ Stored(db') = Stored(db) /\ db'.index = db.index
         /\ \A k \in Chunks \ {c} : db'.rows[k] = db.rows[k]
<1>1. c \in Chunks
  BY DEF Stored
<1>0. db \in Databases
  BY DEF Sound
<1>2. db' \in Databases
  BY <1>0, <1>1 DEF Databases
<1>3. /\ db'.rows = [db.rows EXCEPT ![c] = n] /\ db'.index = db.index /\ db'.fts = db.fts
      /\ db'.vec = db.vec /\ db.rows \in [Chunks -> {Absent, 0, 1024, 2048}]
  BY DEF Sound, Databases
<1>4. db'.rows[c] = n /\ n # Absent
  BY <1>1, <1>3 DEF Absent
<1>5. \A k \in Chunks \ {c} : db'.rows[k] = db.rows[k]
  BY <1>3
<1>6. Stored(db') = Stored(db)
  BY <1>1, <1>4, <1>5 DEF Stored
<1> QED
  BY <1>2, <1>3, <1>5, <1>6 DEF Sound

\* The memory store's connection turns on the WAL and makes the vector table.
LEMMA SoundOpen ==
  ASSUME Sound(db), NEW v \in {db.vec, VecDimensions}, db.vec # 0 => v = db.vec,
         db' = [db EXCEPT !.exists = TRUE, !.wal = TRUE, !.vec = v]
  PROVE  /\ Sound(db') /\ Stored(db') = Stored(db)
         /\ db'.rows = db.rows /\ db'.index = db.index
<1> DEFINE yes == TRUE
           d1 == [db EXCEPT !.exists = yes]
           d2 == [d1 EXCEPT !.wal = yes]
           d3 == [d2 EXCEPT !.vec = v]
<1>1. yes \in BOOLEAN /\ db \in Databases
  BY DEF Sound
<1>2. db' = [db EXCEPT !.exists = yes, !.wal = yes, !.vec = v]
  OBVIOUS
<1> HIDE DEF yes
<1>3. db' = d3
  BY <1>1, <1>2 DEF Databases
<1>4. v \in {0, 1024, 2048}
  BY <1>1 DEF Databases, VecDimensions
<1>5. d1 \in Databases
  BY <1>1 DEF Databases
<1> HIDE DEF d1
<1>6. d2 \in Databases
  BY <1>1, <1>5 DEF Databases
<1> HIDE DEF d2
<1>7. d3 \in Databases
  BY <1>4, <1>6 DEF Databases
<1>8. /\ db'.rows = db.rows /\ db'.index = db.index /\ db'.fts = db.fts /\ db'.vec = v
  BY <1>1, <1>2 DEF Databases
<1>9. Stored(db') = Stored(db)
  BY <1>8 DEF Stored
<1> HIDE DEF d3
<1> QED
  BY <1>3, <1>7, <1>8, <1>9 DEF Sound, VecDimensions

\* The last migration drops the vector table.
LEMMA SoundMigrated ==
  ASSUME Sound(db), db' = Migrated
  PROVE  Sound(db') /\ Stored(db') = Stored(db)
<1> DEFINE d1 == [db EXCEPT !.version = Target]
           d2 == [d1 EXCEPT !.vec = 0]
           d3 == [d2 EXCEPT !.index = {}]
<1>1. db \in Databases /\ Target \in 0..Target /\ {} \in SUBSET Chunks
  BY DEF Sound, Target
<1>2. db' = [db EXCEPT !.version = Target, !.vec = 0, !.index = {}]
  BY DEF Migrated
<1>3. db' = d3
  BY <1>1, <1>2 DEF Databases
<1>4. d1 \in Databases
  BY <1>1 DEF Databases
<1> HIDE DEF d1
<1>5. d2 \in Databases
  BY <1>4 DEF Databases
<1> HIDE DEF d2
<1>6. d3 \in Databases
  BY <1>1, <1>5 DEF Databases
<1>7. /\ db'.rows = db.rows /\ db'.index = {} /\ db'.fts = db.fts
  BY <1>1, <1>2 DEF Databases
<1>8. Stored(db') = Stored(db)
  BY <1>7 DEF Stored
<1> HIDE DEF d3
<1> QED
  BY <1>3, <1>6, <1>7, <1>8 DEF Sound

\* A memory is written, with its text and what fits of its vector.
LEMMA SoundChunk ==
  ASSUME Sound(db), NEW c \in Chunks, NEW e \in {0, 1024, 2048},
         config.extension /\ e # NoEmbedding => db.vec = e, db' = WithChunk(c, e)
  PROVE  /\ Sound(db') /\ Stored(db) \subseteq Stored(db')
         /\ \A k \in Chunks \ {c} : db'.rows[k] = db.rows[k]
         /\ db'.rows[c] = e /\ db.index \subseteq db'.index
         /\ config.extension /\ e # NoEmbedding => c \in db'.index
<1> DEFINE S == IF config.extension /\ e # NoEmbedding THEN db.index \cup {c} ELSE db.index
           F == db.fts \cup {c}
           d1 == [db EXCEPT !.rows[c] = e]
           d2 == [d1 EXCEPT !.fts = F]
           d3 == [d2 EXCEPT !.index = S]
<1>1. db \in Databases /\ S \in SUBSET Chunks /\ F \in SUBSET Chunks /\ S \subseteq F
  BY DEF Sound, Databases
<1>2. db' = [db EXCEPT !.rows[c] = e, !.fts = F, !.index = S]
  BY DEF WithChunk
<1>a. /\ (db.vec = 0 => S = {}) /\ db.index \subseteq S
      /\ config.extension /\ e # NoEmbedding => c \in S
  BY DEF Sound, NoEmbedding
<1>b. F = db.fts \cup {c}
  OBVIOUS
<1> HIDE DEF S, F
<1>3. db' = d3
  BY <1>1, <1>2 DEF Databases
<1>4. d1 \in Databases
  BY <1>1 DEF Databases
<1> HIDE DEF d1
<1>5. d2 \in Databases
  BY <1>1, <1>4 DEF Databases
<1> HIDE DEF d2
<1>6. d3 \in Databases
  BY <1>1, <1>5 DEF Databases
<1>7. /\ db'.rows = [db.rows EXCEPT ![c] = e] /\ db'.index = S /\ db'.fts = F
      /\ db'.vec = db.vec /\ db.rows \in [Chunks -> {Absent, 0, 1024, 2048}]
  BY <1>1, <1>2 DEF Databases
<1>8. db'.rows[c] = e /\ e # Absent /\ \A k \in Chunks \ {c} : db'.rows[k] = db.rows[k]
  BY <1>7 DEF Absent
<1>9. Stored(db') = Stored(db) \cup {c}
  BY <1>8 DEF Stored
<1> HIDE DEF d3
<1> QED
  BY <1>1, <1>a, <1>b, <1>3, <1>6, <1>7, <1>8, <1>9 DEF Sound

-----------------------------------------------------------------------------

\* What the database and its copies hold.
Content == Sound(db) /\ TypeOK /\ TodoInv /\ IndexInv

\* The indexes of the next state are those of db'.
LEMMA SoundTyped == Sound(db)' <=> Sound(db')
  BY DEF Sound, Databases, Stored

\* A step of one process that writes, and that does not get behind filling the index.
LEMMA WrittenContent ==
  ASSUME Inv, Content, Sound(db'), Stored(db) \subseteq Stored(db'), Filled => Filled',
         UNCHANGED <<config, backups>>,
         file' \in {file, Whole(db'), [file EXCEPT !.contents = TRUE]},
         \/ UNCHANGED proc
         \/ \E p \in Procs : End(p)
         \/ \E p \in Procs, r \in Process :
              /\ proc' = [proc EXCEPT ![p] = r]
              /\ r.todo \subseteq Stored(db')
              /\ r.via = "start" /\ r.pc \notin {"off", "memory", "backfill"} =>
                   proc[p].via = "start" /\ proc[p].pc \notin {"off", "memory", "backfill"}
  PROVE  Content'
<1>1. Types /\ config \in [embedder : Embedders, extension : BOOLEAN]
  BY DEF Inv, Types
<1>2. Stored(db)' = Stored(db')
  BY DEF Stored
<1>3. TypeOK'
  BY <1>1, Grown DEF Content
<1>4. CASE UNCHANGED proc
  <2>1. TodoInv'
    BY <1>2, <1>4 DEF Content, TodoInv
  <2>2. IndexInv'
    <3> SUFFICES ASSUME NEW q \in Procs, Filling(q)' PROVE Filled'
      BY DEF IndexInv
    <3>1. Filling(q)
      BY <1>4 DEF Filling
    <3> QED
      BY <3>1 DEF Content, IndexInv
  <2> QED
    BY <1>3, <2>1, <2>2, SoundTyped DEF Content
<1>5. ASSUME NEW p \in Procs, End(p) PROVE TodoInv' /\ IndexInv'
  BY <1>1, <1>5, EndFrame DEF Content
<1>6. ASSUME NEW p \in Procs, NEW r \in Process, proc' = [proc EXCEPT ![p] = r],
             r.todo \subseteq Stored(db'),
             r.via = "start" /\ r.pc \notin {"off", "memory", "backfill"} =>
               proc[p].via = "start" /\ proc[p].pc \notin {"off", "memory", "backfill"}
      PROVE  TodoInv' /\ IndexInv'
  BY <1>1, <1>6, ProcessFrame DEF Content
<1> QED
  BY <1>3, <1>4, <1>5, <1>6, SoundTyped DEF Content

\* A step that leaves the database alone.
LEMMA QuietContent ==
  ASSUME Inv, Content, UNCHANGED <<db, config, reembedded, backups>>,
         file' \in {file, Whole(db)},
         \/ UNCHANGED proc
         \/ \E p \in Procs : End(p)
         \/ \E p \in Procs, r \in Process :
              /\ proc' = [proc EXCEPT ![p] = r]
              /\ r.todo \subseteq Stored(db)
              /\ r.via = "start" /\ r.pc \notin {"off", "memory", "backfill"} =>
                   proc[p].via = "start" /\ proc[p].pc \notin {"off", "memory", "backfill"}
  PROVE  Content'
<1>1. Stored(db') = Stored(db) /\ Filled' = Filled /\ Sound(db') /\ Whole(db') = Whole(db)
  BY DEF Stored, Filled, Content, Whole
<1> QED
  BY <1>1, WrittenContent

\* A field of a process is set, and it has no more left to do.
LEMMA GoContent ==
  ASSUME Inv, Content, NEW p \in Procs, NEW pc \in {"migrate", "listen", "serve", "spawn"},
         Go(p, pc), proc[p].pc \in {"initialize", "migrate", "listen"}
  PROVE  \E r \in Process :
           /\ proc' = [proc EXCEPT ![p] = r]
           /\ r.todo \subseteq Stored(db)
           /\ r.via = "start" /\ r.pc \notin {"off", "memory", "backfill"} =>
                proc[p].via = "start" /\ proc[p].pc \notin {"off", "memory", "backfill"}
<1> DEFINE r == [proc[p] EXCEPT !.pc = pc]
<1>1. proc[p] \in Process
  BY DEF Inv, Types
<1>2. r \in Process
  BY <1>1 DEF Process
<1>3. proc' = [proc EXCEPT ![p] = r]
  BY DEF Go
<1>4. r.todo = proc[p].todo /\ r.via = proc[p].via
  BY <1>1 DEF Process
<1> HIDE DEF r
<1>5. r.todo \subseteq Stored(db)
  BY <1>4 DEF Content, TodoInv
<1> QED
  BY <1>2, <1>3, <1>4, <1>5

\* A command is launched, or the configuration edited.
LEMMA LaunchContent ==
  ASSUME Inv, Content, NEW p \in Procs, NEW kind \in {"gateway", "start", "reembed"},
         Launch(p, kind)
  PROVE  Content'
<1> DEFINE r == Launched(kind, "foreground")
<1>1. /\ UNCHANGED <<config, db, file, backups, reembedded>>
      /\ proc' = [proc EXCEPT ![p] = r]
  BY DEF Launch, ghosts
<1>2. r \in Process /\ r.via = "foreground"
  BY LaunchedType
<1>3. r.todo = {}
  BY DEF Launched, Off
<1> HIDE DEF r
<1>4. r.todo \subseteq Stored(db) /\ r.via # "start"
  BY <1>2, <1>3
<1> QED
  BY <1>1, <1>2, <1>4, QuietContent

\* The running gateways keep the provider they were launched with.
LEMMA EditContent ==
  ASSUME Inv, Content, NEW e \in Embedders, EditConfig(e)
  PROVE  Content'
<1>1. /\ config' \in [embedder : Embedders, extension : BOOLEAN]
      /\ config'.extension = config.extension
      /\ UNCHANGED <<db, file, backups, proc, reembedded>>
  BY DEF EditConfig, ghosts, Inv, Types
<1>2. Sound(db') /\ Stored(db') = Stored(db) /\ Filled' = Filled
  BY <1>1 DEF Content, Stored, Filled
<1>3. TypeOK'
  BY <1>1, <1>2, Grown DEF Content
<1>4. TodoInv' /\ IndexInv'
  BY <1>1, <1>2 DEF Content, TodoInv, IndexInv, Filling, Stored
<1> QED
  BY <1>2, <1>3, <1>4, SoundTyped DEF Content

\* goldclaw start hands over to the gateway, which has opened nothing yet.
LEMMA SpawnContent ==
  ASSUME Inv, Content, NEW p \in Procs, NEW q \in Procs, Spawn(p, q)
  PROVE  Content'
<1> DEFINE r == Launched("gateway", "start")
<1>1. /\ UNCHANGED <<config, db, file, backups, reembedded>>
      /\ proc' = [proc EXCEPT ![p] = Off, ![q] = r]
  BY DEF Spawn, ghosts
<1>2. r.pc = Entry("gateway")
  BY LaunchedType
<1>3. r.pc = "memory"
  BY <1>2 DEF Entry
<1>4. r.todo = {} /\ Off.todo = {} /\ Off.pc = "off"
  BY DEF Launched, Off
<1> HIDE DEF r, Off
<1>5. \A g \in Procs : proc'[g] \in {proc[g], Off, r}
  BY <1>1 DEF Inv, Types
<1>6. Stored(db') = Stored(db) /\ Filled' = Filled /\ Sound(db')
  BY <1>1 DEF Stored, Filled, Content
<1>7. TypeOK'
  <2>1. config \in [embedder : Embedders, extension : BOOLEAN]
    BY DEF Inv, Types
  <2> QED
    BY <1>1, <1>6, <2>1, Grown DEF Content
<1>8. TodoInv'
  BY <1>1, <1>4, <1>5 DEF Content, TodoInv, Stored
<1>9. IndexInv'
  <2> SUFFICES ASSUME NEW g \in Procs, Filling(g)' PROVE Filled'
    BY DEF IndexInv
  <2>1. proc'[g] # Off /\ proc'[g] # r
    BY <1>3, <1>4 DEF Filling
  <2>2. proc'[g] = proc[g]
    BY <1>5, <2>1
  <2>3. Filling(g)
    BY <1>1, <2>2 DEF Filling
  <2> QED
    BY <1>6, <2>3 DEF Content, IndexInv
<1> QED
  BY <1>6, <1>7, <1>8, <1>9, SoundTyped DEF Content

\* Opening the memory store: the index is still to be filled if there can be one.
LEMMA OpenContent ==
  ASSUME Inv, Content, NEW p \in Procs, OpenMemory(p)
  PROVE  Content'
<1> DEFINE v == IF config.extension /\ db.vec = 0 THEN VecDimensions ELSE db.vec
           r == [proc[p] EXCEPT !.pc = IF config.extension THEN "backfill" ELSE "version",
                                !.memory = ~config.extension]
<1>1. /\ db' = [db EXCEPT !.exists = TRUE, !.wal = TRUE, !.vec = v]
      /\ file' = [file EXCEPT !.contents = TRUE] /\ proc' = [proc EXCEPT ![p] = r]
      /\ UNCHANGED <<config, backups, reembedded>>
  BY DEF OpenMemory, ghosts
<1>2. v \in {db.vec, VecDimensions} /\ (db.vec # 0 => v = db.vec)
  OBVIOUS
<1> HIDE DEF v
<1>3. /\ Sound(db') /\ Stored(db') = Stored(db)
      /\ db'.rows = db.rows /\ db'.index = db.index
  BY <1>1, <1>2, SoundOpen DEF Content
<1>4. proc[p] \in Process
  BY DEF Inv, Types
<1>5. r \in Process
  BY ZenonT(40), <1>4 DEF Process
<1>6. /\ r.todo = proc[p].todo /\ r.via = proc[p].via
      /\ r.pc = IF config.extension THEN "backfill" ELSE "version"
  BY <1>4 DEF Process
<1> HIDE DEF r
<1>7. r.todo \subseteq Stored(db')
  BY <1>3, <1>6 DEF Content, TodoInv
<1>8. CASE config.extension
  <2>1. r.pc = "backfill"
    BY <1>6, <1>8, Zenon
  <2>2. Filled => Filled'
    BY <1>1, <1>3 DEF Filled
  <2> QED
    BY <1>1, <1>3, <1>5, <1>7, <2>1, <2>2, WrittenContent
<1>9. CASE ~config.extension
  <2>1. TypeOK'
    <3>1. config' \in [embedder : Embedders, extension : BOOLEAN]
      BY <1>1 DEF Inv, Types
    <3> QED
      BY <1>1, <1>3, <3>1, Grown DEF Content
  <2>2. IndexInv'
    BY <1>1, <1>9 DEF IndexInv, Filling
  <2>3. TodoInv'
    <3>1. \A q \in Procs : proc'[q] = IF q = p THEN r ELSE proc[q]
      BY <1>1 DEF Inv, Types
    <3>2. Stored(db)' = Stored(db)
      BY <1>3 DEF Stored
    <3> QED
      BY <1>3, <1>7, <3>1, <3>2 DEF Content, TodoInv
  <2> QED
    BY <1>3, <2>1, <2>2, <2>3, SoundTyped DEF Content
<1> QED
  BY <1>8, <1>9

\* The index is filled: this is when it holds all that fits it.
LEMMA BackfillContent ==
  ASSUME Inv, Inv', Content, NEW p \in Procs, Backfill(p)
  PROVE  Content'
<1> DEFINE opens == /\ db.version >= MemoryVersion
                    /\ db.vec # 0
                    /\ Missing # {} => db.vec = VecDimensions
           r == [proc[p] EXCEPT !.pc = "version", !.memory = opens]
<1>0. opens \in BOOLEAN
  OBVIOUS
<1>1. /\ proc[p].pc = "backfill" /\ proc' = [proc EXCEPT ![p] = r]
      /\ UNCHANGED <<config, backups>>
      /\ IF opens
         THEN Commit([db EXCEPT !.index = @ \cup Missing]) /\ reembedded' = {}
         ELSE UNCHANGED <<db, file, reembedded>>
  BY DEF Backfill
<1>2. opens => db.vec # 0
  OBVIOUS
<1>3. proc[p] \in Process
  BY DEF Inv, Types
<1>4. r \in Process
  BY <1>0, <1>3 DEF Process
<1>5. /\ r.todo = proc[p].todo /\ r.via = proc[p].via /\ r.pc = "version"
      /\ (r.memory <=> opens)
  BY <1>3 DEF Process
<1> HIDE DEF opens, r
<1>6. \A q \in Procs : proc'[q] = IF q = p THEN r ELSE proc[q]
  BY <1>1 DEF Inv, Types
<1>7. /\ Sound(db') /\ Stored(db') = Stored(db)
      /\ opens => Filled'
      /\ ~opens => (Filled' <=> Filled)
      /\ file' \in {file, Whole(db')}
  <2>1. CASE opens
    <3>1. Missing \in SUBSET Stored(db)
      BY DEF Missing, Stored, VecDimensions, Absent
    <3>2. db' = [db EXCEPT !.index = @ \cup Missing] /\ reembedded' = {}
          /\ file' \in {file, Whole(db')}
      BY <1>1, <2>1 DEF Commit
    <3>3. /\ Sound(db') /\ Stored(db') = Stored(db)
          /\ db'.rows = db.rows /\ db'.index = db.index \cup Missing
      BY <1>2, <2>1, <3>1, <3>2, SoundIndex DEF Content
    <3>4. Filled'
      BY <3>3 DEF Filled, Missing
    <3> QED
      BY <2>1, <3>2, <3>3, <3>4
  <2>2. CASE ~opens
    <3>1. UNCHANGED <<db, file, reembedded>>
      BY <1>1, <2>2
    <3>2. Filled' <=> Filled
      BY <3>1 DEF Filled
    <3> QED
      BY <2>2, <3>1, <3>2 DEF Content, Stored
  <2> QED
    BY <2>1, <2>2
<1>8. TypeOK'
  <2>1. config' \in [embedder : Embedders, extension : BOOLEAN]
    BY <1>1 DEF Inv, Types
  <2> QED
    BY <1>1, <1>7, <2>1, Grown DEF Content
<1>9. TodoInv'
  <2>1. Stored(db)' = Stored(db)
    BY <1>7 DEF Stored
  <2> QED
    BY <1>5, <1>6, <2>1 DEF Content, TodoInv
<1>10. IndexInv'
  <2> SUFFICES ASSUME NEW q \in Procs, Filling(q)' PROVE Filled'
    BY DEF IndexInv
  <2>1. CASE opens
    BY <1>7, <2>1
  <2>2. CASE ~opens
    <3>1. q # p
      <4>1. \A g \in Procs : proc'[g].via = "start" /\ proc'[g].pc = "version" => proc'[g].memory
        BY DEF Inv, StartedInv
      <4>2. CASE q = p
        BY <1>5, <1>6, <2>2, <4>1, <4>2 DEF Filling
      <4> QED
        BY <4>2
    <3>2. Filling(q)
      BY <1>1, <1>6, <3>1 DEF Filling
    <3> QED
      BY <1>7, <2>2, <3>2 DEF Content, IndexInv
  <2> QED
    BY <2>1, <2>2
<1> QED
  BY <1>7, <1>8, <1>9, <1>10, SoundTyped DEF Content

\* Opening the session store touches no memory.
LEMMA VersionContent ==
  ASSUME Inv, Content, NEW p \in Procs, ReadVersion(p)
  PROVE  Content'
<1> DEFINE r == [proc[p] EXCEPT !.existed = db.exists, !.seen = db.version,
                                !.pc = "initialize"]
<1>1. /\ db' = [db EXCEPT !.exists = TRUE] /\ file' \in {file, Whole(db')}
      /\ proc' = [proc EXCEPT ![p] = r] /\ proc[p].pc = "version"
      /\ UNCHANGED <<config, backups, reembedded>>
  BY DEF ReadVersion, Commit, ghosts
<1>2. /\ Sound(db') /\ Stored(db') = Stored(db)
      /\ db'.rows = db.rows /\ db'.index = db.index
  BY <1>1, SoundExists DEF Content
<1>3. /\ proc[p] \in Process /\ db.exists \in BOOLEAN /\ db.version \in 0..Target
  BY DEF Inv, Types, Database
<1>4. r \in Process
  BY <1>3 DEF Process
<1>5. r.todo = proc[p].todo /\ r.via = proc[p].via
  BY <1>3 DEF Process
<1> HIDE DEF r
<1>6. r.todo \subseteq Stored(db')
  BY <1>2, <1>5 DEF Content, TodoInv
<1>7. Filled => Filled'
  BY <1>1, <1>2 DEF Filled
<1> QED
  BY <1>1, <1>2, <1>4, <1>5, <1>6, <1>7, WrittenContent

\* A backup holds rows of the main file, which are rows of the database.
LEMMA BackupContent ==
  ASSUME Inv, Content, NEW p \in Procs, Backup(p)
  PROVE  Content'
<1>1. /\ proc[p].pc = "initialize" /\ Go(p, "migrate")
      /\ UNCHANGED <<config, db, file, reembedded>>
      /\ \/ backups' = Append(backups, file.rows)
         \/ backups # <<>> /\ backups' = [backups EXCEPT ![Len(backups)] = file.rows]
  BY DEF Backup, ghosts
<1>2. file.rows \in SUBSET Stored(db) /\ backups \in Seq(SUBSET Stored(db))
  BY DEF Content, TypeOK
<1>3. backups' \in Seq(SUBSET Stored(db))
  BY <1>1, <1>2
<1>4. PICK r \in Process :
        /\ proc' = [proc EXCEPT ![p] = r]
        /\ r.todo \subseteq Stored(db)
        /\ r.via = "start" /\ r.pc \notin {"off", "memory", "backfill"} =>
             proc[p].via = "start" /\ proc[p].pc \notin {"off", "memory", "backfill"}
  BY <1>1, GoContent
<1>5. Filled' = Filled /\ Stored(db)' = Stored(db) /\ Stored(db') = Stored(db) /\ Sound(db')
  BY <1>1 DEF Filled, Stored, Content
<1>6. TodoInv' /\ IndexInv'
  <2>1. Types
    BY DEF Inv
  <2> QED
    BY <1>1, <1>4, <1>5, <2>1, ProcessFrame DEF Content
<1>7. TypeOK'
  BY <1>1, <1>3, <1>5 DEF Content, TypeOK
<1> QED
  BY <1>5, <1>6, <1>7, SoundTyped DEF Content

\* A migration drops the vector table; no started gateway relies on it.
LEMMA MigrateContent ==
  ASSUME Inv, Content, NEW p \in Procs, Migrate(p)
  PROVE  Content'
<1>0. /\ proc[p] \in Process /\ proc[p].pc = "migrate" /\ proc[p].kind \in {"gateway", "start"}
      /\ proc[p].seen \in 0..Target
  BY DEF Migrate, Inv, Types, SchemaInv, Process
<1>a. Opened(proc[p].kind) \in {"listen", "spawn"}
  BY <1>0 DEF Opened
<1>1. CASE proc[p].seen = Target
  <2>1. Go(p, Opened(proc[p].kind)) /\ UNCHANGED <<config, db, file, backups, reembedded>>
    BY <1>1 DEF Migrate, Target
  <2> QED
    BY <1>0, <1>a, <2>1, GoContent, QuietContent
<1>2. CASE proc[p].seen < Target /\ db.version = proc[p].seen
  <2>1. MigrationCommitted(p) /\ UNCHANGED <<config, backups, reembedded>>
    BY <1>0, <1>2 DEF Migrate, Target
  <2>2. db' = Migrated /\ file' \in {file, Whole(db')} /\ Go(p, Opened(proc[p].kind))
    BY <2>1 DEF MigrationCommitted, Commit
  <2>3. Sound(db') /\ Stored(db') = Stored(db)
    BY <2>2, SoundMigrated DEF Content
  <2>4. TypeOK'
    <3>1. config' \in [embedder : Embedders, extension : BOOLEAN]
      BY <2>1 DEF Inv, Types
    <3> QED
      BY <2>1, <2>2, <2>3, <3>1, Grown DEF Content
  <2>5. PICK r \in Process :
          /\ proc' = [proc EXCEPT ![p] = r]
          /\ r.todo \subseteq Stored(db)
          /\ r.via = "start" /\ r.pc \notin {"off", "memory", "backfill"} =>
               proc[p].via = "start" /\ proc[p].pc \notin {"off", "memory", "backfill"}
    BY <1>0, <1>a, <2>2, GoContent
  <2>6. \A q \in Procs : proc'[q] = IF q = p THEN r ELSE proc[q]
    BY <2>5 DEF Inv, Types
  <2>7. TodoInv'
    <3>1. Stored(db)' = Stored(db)
      BY <2>3 DEF Stored
    <3> QED
      BY <2>5, <2>6, <3>1 DEF Content, TodoInv
  <2>8. IndexInv'
    <3>1. \A q \in Procs : ~(proc[q].via = "start" /\ proc[q].pc # "off")
      BY <1>0, <1>2 DEF Inv, StartedInv, Target
    <3>2. \A q \in Procs : ~Filling(q)'
      BY <2>5, <2>6, <3>1 DEF Filling
    <3> QED
      BY <3>2 DEF IndexInv
  <2> QED
    BY <2>3, <2>4, <2>7, <2>8, SoundTyped DEF Content
<1>3. CASE proc[p].seen < Target /\ db.version # proc[p].seen
  <2>0. proc[p].seen # Target
    BY <1>0, <1>3 DEF Target
  <2>1. End(p) /\ UNCHANGED <<config, db, file, backups, reembedded>>
    BY <1>3, <2>0, Zenon DEF Migrate
  <2> QED
    BY <2>1, QuietContent
<1> QED
  BY <1>0, <1>1, <1>2, <1>3 DEF Target

\* A memory goes into the index with its row, or there is no room for it.
LEMMA SaveContent ==
  ASSUME Inv, Content, NEW p \in Procs, NEW c \in Chunks, Save(p, c)
  PROVE  Content'
<1>1. PICK e \in {NoEmbedding, Dimensions(proc[p].embedder)} :
        IF proc[p].memory /\ (config.extension /\ e # NoEmbedding => db.vec = e)
        THEN Commit(WithChunk(c, e)) /\ UNCHANGED lost
        ELSE /\ lost' = lost \cup
                  {[chunk |-> c, via |-> proc[p].via, embedder |-> proc[p].embedder]}
             /\ UNCHANGED <<db, file>>
  BY DEF Save
<1>2. proc[p] \in Process /\ UNCHANGED <<config, backups, proc, reembedded>>
  BY DEF Save, Inv, Types
<1>3. e \in {0, 1024, 2048}
  BY <1>2 DEF Process, Embedders, Dimensions, NoEmbedding
<1>4. CASE UNCHANGED <<db, file>>
  BY <1>2, <1>4, QuietContent
<1>5. CASE Commit(WithChunk(c, e)) /\ (config.extension /\ e # NoEmbedding => db.vec = e)
  <2>1. db' = WithChunk(c, e) /\ file' \in {file, Whole(db')}
    BY <1>5 DEF Commit
  <2>2. /\ Sound(db') /\ Stored(db) \subseteq Stored(db')
        /\ \A k \in Chunks \ {c} : db'.rows[k] = db.rows[k]
        /\ db'.rows[c] = e /\ db.index \subseteq db'.index
        /\ config.extension /\ e # NoEmbedding => c \in db'.index
    BY <1>3, <1>5, <2>1, SoundChunk DEF Content
  <2>3. config.extension /\ Filled => Filled'
    BY <1>2, <2>2 DEF Filled, VecDimensions, NoEmbedding
  <2>4. TypeOK'
    <3>1. config' \in [embedder : Embedders, extension : BOOLEAN]
      BY <1>2 DEF Inv, Types
    <3> QED
      BY <1>2, <2>1, <2>2, <3>1, Grown DEF Content
  <2>5. TodoInv'
    <3>1. Stored(db)' = Stored(db')
      BY DEF Stored
    <3> QED
      BY <1>2, <2>2, <3>1 DEF Content, TodoInv
  <2>6. IndexInv'
    <3> SUFFICES ASSUME NEW q \in Procs, Filling(q)' PROVE Filled'
      BY DEF IndexInv
    <3>1. Filling(q) /\ config.extension
      BY <1>2 DEF Filling
    <3> QED
      BY <2>3, <3>1 DEF Content, IndexInv
  <2> QED
    BY <2>2, <2>4, <2>5, <2>6, SoundTyped DEF Content
<1> QED
  BY <1>1, <1>4, <1>5

\* Re-embedding looks for rows, and writes rows that are there.
LEMMA ListContent ==
  ASSUME Inv, Content, NEW p \in Procs, List(p)
  PROVE  Content'
<1> DEFINE todo == {c \in Chunks : db.rows[c] \notin {Absent, VecDimensions}}
           r == [proc[p] EXCEPT !.pc = "embed", !.todo = todo]
<1>1. /\ db' = [db EXCEPT !.exists = TRUE] /\ file' \in {file, Whole(db')}
      /\ proc[p].pc = "list" /\ UNCHANGED <<config, backups, reembedded>>
  BY DEF List, Commit, ghosts
<1>2. End(p) \/ proc' = [proc EXCEPT ![p] = r]
  BY DEF List
<1>3. /\ Sound(db') /\ Stored(db') = Stored(db)
      /\ db'.rows = db.rows /\ db'.index = db.index
  BY <1>1, SoundExists DEF Content
<1>4. Filled => Filled'
  BY <1>1, <1>3 DEF Filled
<1>5. proc[p] \in Process /\ todo \in SUBSET Chunks /\ todo \subseteq Stored(db)
  BY DEF Inv, Types, Stored
<1> HIDE DEF todo
<1>6. r \in Process
  BY <1>5 DEF Process
<1>7. r.todo = todo /\ r.via = proc[p].via
  BY <1>5 DEF Process
<1> HIDE DEF r
<1>8. CASE proc' = [proc EXCEPT ![p] = r]
  BY <1>1, <1>3, <1>4, <1>5, <1>6, <1>7, <1>8, WrittenContent
<1>9. CASE End(p)
  BY <1>1, <1>3, <1>4, <1>9, WrittenContent
<1> QED
  BY <1>2, <1>8, <1>9

\* A row that was listed is still there when its embedding is written.
LEMMA EmbedContent ==
  ASSUME Inv, Content, NEW p \in Procs, NEW c \in Chunks, Embed(p, c) \/ EmbedFails(p, c)
  PROVE  Content'
<1> DEFINE r == [proc[p] EXCEPT !.todo = @ \ {c}]
<1>1. proc[p] \in Process /\ proc[p].pc = "embed" /\ c \in proc[p].todo
  BY DEF Inv, Types, Embed, EmbedFails
<1>2. r \in Process
  BY <1>1 DEF Process
<1>3. r.todo = proc[p].todo \ {c} /\ r.via = proc[p].via
  BY <1>1 DEF Process
<1>4. End(p) \/ proc' = [proc EXCEPT ![p] = r]
  BY DEF Embed, EmbedFails, Done
<1> HIDE DEF r
<1>5. c \in Stored(db) /\ r.todo \subseteq Stored(db)
  BY <1>1, <1>3 DEF Content, TodoInv
<1>6. CASE EmbedFails(p, c)
  <2>1. UNCHANGED <<config, db, file, backups, reembedded>>
    BY <1>6 DEF EmbedFails, ghosts
  <2>2. CASE proc' = [proc EXCEPT ![p] = r]
    BY <1>1, <1>2, <1>3, <1>5, <2>1, <2>2, QuietContent
  <2>3. CASE End(p)
    BY <2>1, <2>3, QuietContent
  <2> QED
    BY <1>4, <2>2, <2>3
<1>7. CASE Embed(p, c)
  <2> DEFINE n == Dimensions(proc[p].embedder)
  <2>1. n \in {0, 1024, 2048}
    BY <1>1 DEF Process, Embedders, Dimensions, NoEmbedding
  <2> HIDE DEF n
  <2>2. /\ db' = [db EXCEPT !.rows[c] = n] /\ file' \in {file, Whole(db')}
        /\ UNCHANGED <<config, backups>> /\ reembedded' = reembedded \cup {c}
    BY <1>7 DEF Embed, Commit, n
  <2>3. /\ Sound(db') /\ Stored(db') = Stored(db) /\ db'.index = db.index
        /\ \A k \in Chunks \ {c} : db'.rows[k] = db.rows[k]
    <3>1. Sound(db) /\ c \in Stored(db) /\ db' = [db EXCEPT !.rows[c] = n]
      BY <1>5, <2>2 DEF Content
    <3> QED
      BY <2>1, <3>1, SoundRow
  <2>4. Filled => Filled'
    BY <2>2, <2>3 DEF Filled
  <2>5. CASE proc' = [proc EXCEPT ![p] = r]
    BY <1>1, <1>2, <1>3, <1>5, <2>2, <2>3, <2>4, <2>5, WrittenContent
  <2>6. CASE End(p)
    BY <2>2, <2>3, <2>4, <2>6, WrittenContent
  <2> QED
    BY <1>4, <2>5, <2>6
<1> QED
  BY <1>6, <1>7

\* Every step keeps what the database holds.
LEMMA ContentStep ==
  ASSUME Inv, Inv', Content, [Next]_vars
  PROVE  Content'
<1>1. ASSUME NEW p \in Procs, NoBackup(p) PROVE Content'
  <2>1. /\ proc[p].pc = "initialize" /\ Go(p, "migrate")
        /\ UNCHANGED <<config, db, file, backups, reembedded>>
    BY <1>1 DEF NoBackup, ghosts
  <2> QED
    BY <2>1, GoContent, QuietContent
<1>2. ASSUME NEW p \in Procs, Listen(p) PROVE Content'
  <2>1. proc[p].pc = "listen" /\ UNCHANGED <<config, db, file, backups, reembedded>>
    BY <1>2 DEF Listen, ghosts
  <2>2. CASE End(p)
    BY <2>1, <2>2, QuietContent
  <2>3. CASE Go(p, "serve")
    BY <2>1, <2>3, GoContent, QuietContent
  <2> QED
    BY <1>2, <2>2, <2>3 DEF Listen
<1>3. ASSUME NEW p \in Procs, CommandDone(p) \/ Die(p) PROVE Content'
  <2>1. End(p) /\ UNCHANGED <<config, db, file, backups, reembedded>>
    BY <1>3 DEF CommandDone, Die, ghosts
  <2> QED
    BY <2>1, QuietContent
<1>4. CASE Checkpoint
  BY <1>4, QuietContent DEF Checkpoint, ghosts
<1>5. CASE UNCHANGED vars
  BY <1>5, QuietContent DEF vars, ghosts
<1> QED
  BY LaunchContent, EditContent, SpawnContent, OpenContent, BackfillContent,
     VersionContent, BackupContent, MigrateContent, SaveContent, ListContent,
     EmbedContent, <1>1, <1>2, <1>3, <1>4, <1>5
  DEF Next, Step

-----------------------------------------------------------------------------

\* The database is well typed, its indexes hold nothing without a row, and no copy of it
\* holds a row that it lost (memory_chunks is never deleted from).
THEOREM TypeCorrect == Spec => []TypeOK
<1>1. Init => Inv /\ Content
  BY InitInv, SoundInit, ContentInit DEF Content
<1>2. (Inv /\ Content) /\ [Next]_vars => (Inv /\ Content)'
  BY StepInv, ContentStep
<1>3. Inv /\ Content => TypeOK
  BY DEF Content
<1> QED
  BY <1>1, <1>2, <1>3, PTL DEF Spec

\* A memory is found by its own words unless RecallLimit candidates rank before it or the
\* index answers instead; and the index of a started gateway lacks only what it cannot hold
\* and what was re-embedded since it was filled (recall, ensure_vector_schema).
THEOREM MemoriesReached == Spec => []RecallReaches
<1>1. Init => Inv /\ Content
  BY InitInv, SoundInit, ContentInit DEF Content
<1>2. (Inv /\ Content) /\ [Next]_vars => (Inv /\ Content)'
  BY StepInv, ContentStep
<1>3. ASSUME Inv, Content PROVE RecallReaches
  <2> SUFFICES ASSUME NEW p \in Procs, Serving(p), NEW c \in db.fts,
                      NEW e \in {NoEmbedding, Dimensions(proc[p].embedder)},
                      NEW others \in SUBSET Chunks,
                      NEW hits \in Recalls(e, {c} \cup others), c \notin hits
               PROVE  \/ /\ c \in Candidates(e, {c} \cup others)
                         /\ Cardinality(hits) = RecallLimit
                      \/ /\ hits # {}
                         /\ e = VecDimensions
                         /\ \/ db.rows[c] # VecDimensions
                            \/ c \in reembedded
                            \/ proc[p].via = "foreground"
    BY DEF RecallReaches
  <2>1. hits = Candidates(e, {c} \cup others) \/ Cardinality(hits) = RecallLimit
    BY DEF Recalls
  <2>2. CASE c \in Candidates(e, {c} \cup others)
    BY <2>1, <2>2
  <2>3. CASE c \notin Candidates(e, {c} \cup others)
    <3>1. /\ VectorCandidates(e) # {} /\ c \notin VectorCandidates(e)
          /\ Candidates(e, {c} \cup others) = VectorCandidates(e)
      BY <2>3 DEF Candidates
    <3>2. /\ config.extension /\ e = db.vec /\ e # NoEmbedding
          /\ VectorCandidates(e) = db.index
      BY <3>1 DEF VectorCandidates
    <3>3. db.vec \in {0, VecDimensions}
      BY <1>3 DEF Inv, SchemaInv, StartedInv, Serving
    <3>4. e = VecDimensions
      BY <3>2, <3>3 DEF NoEmbedding
    <3>5. hits # {}
      <4>1. Cardinality({}) # RecallLimit
        BY FS_EmptySet, RecallsSome
      <4> QED
        BY <2>1, <3>1, <4>1
    <3>6. c \in Chunks /\ proc[p].pc = "serve" /\ proc[p].via \in {"start", "foreground"}
      BY <1>3 DEF Content, Sound, Stored, Serving, Inv, Types, Process
    <3>7. CASE proc[p].via = "start"
      <4>1. Filled
        BY <1>3, <3>2, <3>6, <3>7 DEF Content, IndexInv, Filling
      <4> QED
        BY <3>1, <3>2, <3>4, <3>5, <3>6, <4>1 DEF Filled
    <3> QED
      BY <3>4, <3>5, <3>6, <3>7
  <2> QED
    BY <2>2, <2>3
<1> QED
  BY <1>1, <1>2, <1>3, PTL DEF Spec

=============================================================================
