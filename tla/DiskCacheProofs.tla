--------------------------- MODULE DiskCacheProofs ---------------------------
(***************************************************************************)
(* Whatever fails and wherever the process dies, what can be read back     *)
(* from disk is never older than its meta data say, and a persist that     *)
(* reports success has saved what it says: for any finite set of quads,    *)
(* any number of insertions and any combination of faults.                 *)
(***************************************************************************)
EXTENDS DiskCache, TLAPS

(* Nothing is from the future, so what is inserted next is the newest.     *)
NothingNewer ==
  \A q \in Quads : ram[q] <= clock /\ (meta # NoMeta => meta[q] <= clock)

(* What would overwrite a file is not older than the meta data on disk.    *)
MemoryNotOlder ==
  running # "down" /\ meta # NoMeta =>
    \A q \in In(ram) \cap In(meta) : ram[q] >= meta[q]

(* The file of a quad cannot be read or is of that version or a later one; *)
(* it can be read if no operation has failed.                              *)
FileHas(q, version) ==
  /\ files[q] \in {Absent, Torn} \/ files[q] >= version
  /\ ~flawed => files[q] >= version

(* Between two persists the files hold what the cache believes of them.    *)
DownInv == running = "down" => disk_cached = Nothing

IdleInv == running = "idle" => \A q \in In(disk_cached) : FileHas(q, disk_cached[q])

(* While one runs, files of other versions go first, and quads that it has *)
(* passed, or will skip, have their files.                                 *)
PersistInv ==
  running = "persisting" =>
    /\ saved = NoMeta
    /\ to_write \subseteq In(ram)
    /\ \A q \in Quads : disk_cached[q] = IF q \in to_write THEN Absent ELSE ram[q]
    /\ \A q \in to_remove : old[q] # ram[q]
    /\ to_remove # {} => to_write = In(ram)
    /\ \A q \in In(ram) : old[q] = ram[q] \/ q \notin to_write => FileHas(q, ram[q])

DiskInv ==
  /\ TypeOK
  /\ NothingNewer
  /\ NeverOlderThanMeta
  /\ MemoryNotOlder
  /\ DownInv
  /\ IdleInv
  /\ PersistInv
  /\ ReadableUnlessFlawed

-----------------------------------------------------------------------------
(* What the type says of the versions that are compared.                   *)
LEMMA Versions ==
  ASSUME TypeOK
  PROVE  /\ \A q \in Quads : ram[q] \in Nat /\ disk_cached[q] \in Nat /\ old[q] \in Nat
         /\ \A q \in Quads : files[q] \in Int
         /\ meta # NoMeta => \A q \in Quads : meta[q] \in Nat
         /\ saved # NoMeta => \A q \in Quads : saved[q] \in Nat
         /\ clock \in Nat /\ MaxClock \in Nat
BY DiskCacheType DEF TypeOK, Caches, Torn

LEMMA NothingType ==
  /\ Nothing \in Caches
  /\ Nothing \in [Quads -> Torn..MaxClock]
  /\ \A q \in Quads : Nothing[q] = Absent
  /\ In(Nothing) = {}
BY DiskCacheType DEF Nothing, Caches, Torn, Absent, In

(* Quads come and go in memory between two persists.                       *)
LEMMA InsertKeeps ==
  ASSUME DiskInv, NEW q \in Quads, Insert(q)
  PROVE  DiskInv'
<1>1. /\ running = "idle" /\ clock < MaxClock /\ clock' = clock + 1
      /\ ram' = [ram EXCEPT ![q] = clock + 1]
      /\ UNCHANGED <<disk_cached, old, to_remove, to_write, files, meta, running, saved, flawed>>
  BY DEF Insert, progress
<1>2. TypeOK
  BY DEF DiskInv
<1>3. clock \in Nat /\ MaxClock \in Nat /\ clock + 1 \in 0..MaxClock
  BY <1>1, <1>2, Versions
<1>4. ram \in Caches /\ ram'[q] = clock + 1 /\ \A p \in Quads \ {q} : ram'[p] = ram[p]
  BY <1>1, <1>2 DEF TypeOK, Caches
<1>5. ram' \in Caches
  BY <1>1, <1>3, <1>4 DEF Caches
<1>6. TypeOK'
  BY <1>1, <1>2, <1>3, <1>5 DEF TypeOK, Caches
<1>7. NothingNewer'
  <2> SUFFICES ASSUME NEW p \in Quads
               PROVE  ram'[p] <= clock' /\ (meta' # NoMeta => meta'[p] <= clock')
    BY DEF NothingNewer, NoMeta
  <2>1. ram[p] \in Nat /\ ram[p] <= clock /\ (meta # NoMeta => meta[p] \in Nat /\ meta[p] <= clock)
    BY <1>2, Versions DEF DiskInv, NothingNewer
  <2>2. QED BY <1>1, <1>3, <1>4, <2>1
<1>8. MemoryNotOlder'
  <2> SUFFICES ASSUME meta # NoMeta, NEW p \in Quads, ram'[p] # Absent, meta[p] # Absent
               PROVE  ram'[p] >= meta[p]
    BY <1>1 DEF MemoryNotOlder, In, NoMeta, Absent
  <2>1. meta[p] \in Nat /\ meta[p] <= clock
    BY <1>2, Versions DEF DiskInv, NothingNewer
  <2>2. CASE p = q
    BY <1>3, <1>4, <2>1, <2>2
  <2>3. CASE p # q
    BY <1>1, <1>4, <2>3 DEF DiskInv, MemoryNotOlder, In
  <2>4. QED BY <2>2, <2>3
<1>9. NeverOlderThanMeta' /\ ReadableUnlessFlawed'
  BY <1>1 DEF DiskInv, NeverOlderThanMeta, ReadableUnlessFlawed, PersistedIsReadable, In, NoMeta,
     Absent, Torn
<1>10. DownInv' /\ IdleInv' /\ PersistInv'
  BY <1>1 DEF DiskInv, DownInv, IdleInv, PersistInv, FileHas, In, Nothing, Absent, Torn
<1>11. QED
  BY <1>6, <1>7, <1>8, <1>9, <1>10 DEF DiskInv

LEMMA PurgeKeeps ==
  ASSUME DiskInv, NEW q \in Quads, Purge(q)
  PROVE  DiskInv'
<1>1. /\ running = "idle" /\ ram' = [ram EXCEPT ![q] = Absent]
      /\ UNCHANGED <<disk_cached, old, to_remove, to_write, files, meta, running, clock, saved, flawed>>
  BY DEF Purge, progress
<1>2. TypeOK
  BY DEF DiskInv
<1>3. ram \in Caches /\ ram'[q] = Absent /\ \A p \in Quads \ {q} : ram'[p] = ram[p]
  BY <1>1, <1>2 DEF TypeOK, Caches
<1>4. clock \in Nat /\ MaxClock \in Nat
  BY <1>2, Versions
<1>5. ram' \in Caches
  BY <1>1, <1>3, <1>4 DEF Caches, Absent
<1>6. TypeOK'
  BY <1>1, <1>2, <1>5 DEF TypeOK, Caches
<1>7. NothingNewer'
  BY <1>1, <1>3, <1>4 DEF DiskInv, NothingNewer, NoMeta, Absent
<1>8. MemoryNotOlder'
  BY <1>1, <1>3 DEF DiskInv, MemoryNotOlder, In, NoMeta, Absent
<1>9. NeverOlderThanMeta' /\ ReadableUnlessFlawed'
  BY <1>1 DEF DiskInv, NeverOlderThanMeta, ReadableUnlessFlawed, PersistedIsReadable, In, NoMeta,
     Absent, Torn
<1>10. DownInv' /\ IdleInv' /\ PersistInv'
  BY <1>1 DEF DiskInv, DownInv, IdleInv, PersistInv, FileHas, In, Nothing, Absent, Torn
<1>11. QED
  BY <1>6, <1>7, <1>8, <1>9, <1>10 DEF DiskInv

-----------------------------------------------------------------------------
(* A persist, step by step.                                                *)
LEMMA StartPersistKeeps ==
  ASSUME DiskInv, StartPersist
  PROVE  DiskInv'
<1>1. /\ running = "idle" /\ running' = "persisting"
      /\ old' = disk_cached /\ disk_cached' = Nothing
      /\ to_remove' = {q \in In(disk_cached) : ram[q] # disk_cached[q]}
      /\ to_write' = In(ram) /\ saved' = NoMeta
      /\ UNCHANGED <<ram, files, meta, clock, flawed>>
  BY DEF StartPersist
<1>2. TypeOK
  BY DEF DiskInv
<1>3. TypeOK'
  BY <1>1, <1>2, NothingType DEF TypeOK, Caches, In
<1>4. NothingNewer' /\ MemoryNotOlder' /\ NeverOlderThanMeta' /\ ReadableUnlessFlawed'
  BY <1>1 DEF DiskInv, NothingNewer, MemoryNotOlder, NeverOlderThanMeta, ReadableUnlessFlawed,
     PersistedIsReadable, In, NoMeta, Absent, Torn
<1>5. DownInv' /\ IdleInv'
  BY <1>1 DEF DownInv, IdleInv
<1>6. PersistInv'
  <2>1. \A q \in Quads : disk_cached'[q] = IF q \in to_write' THEN Absent ELSE ram[q]
    BY <1>1, NothingType DEF In
  <2>2. \A q \in to_remove' : old'[q] # ram[q]
    BY <1>1
  <2>3. \A q \in In(ram) : old'[q] = ram[q] => FileHas(q, ram[q])
    BY <1>1 DEF DiskInv, IdleInv, In
  <2>4. \A q \in In(ram) : q \in to_write'
    BY <1>1
  <2>5. QED
    BY <1>1, <2>1, <2>2, <2>3, <2>4 DEF PersistInv, FileHas, In, NoMeta, Absent, Torn
<1>7. QED BY <1>3, <1>4, <1>5, <1>6 DEF DiskInv

LEMMA RemoveFileKeeps ==
  ASSUME DiskInv, NEW q \in Quads, RemoveFile(q)
  PROVE  DiskInv'
<1>1. /\ running = "persisting" /\ q \in to_remove
      /\ to_remove' = to_remove \ {q}
      /\ files' = [files EXCEPT ![q] = Absent]
      /\ UNCHANGED <<ram, disk_cached, old, meta, running, to_write, clock, saved, flawed>>
  BY DEF RemoveFile
<1>2. TypeOK
  BY DEF DiskInv
<1>3. /\ files' \in [Quads -> Torn..MaxClock]
      /\ files'[q] = Absent /\ \A p \in Quads \ {q} : files'[p] = files[p]
  BY <1>1, <1>2, DiskCacheType DEF TypeOK, Absent, Torn
<1>4. TypeOK'
  BY <1>1, <1>2, <1>3 DEF TypeOK, Caches
<1>5. NothingNewer' /\ MemoryNotOlder' /\ DownInv' /\ IdleInv'
  BY <1>1 DEF DiskInv, NothingNewer, MemoryNotOlder, DownInv, IdleInv, In, NoMeta, Absent, Nothing
<1>6. /\ saved = NoMeta /\ to_write = In(ram)
      /\ \A p \in Quads : disk_cached[p] = IF p \in to_write THEN Absent ELSE ram[p]
      /\ \A p \in to_remove : old[p] # ram[p]
      /\ \A p \in In(ram) : old[p] = ram[p] \/ p \notin to_write => FileHas(p, ram[p])
  BY <1>1 DEF DiskInv, PersistInv
<1>7. NeverOlderThanMeta'
  BY <1>1, <1>3 DEF DiskInv, NeverOlderThanMeta, In, NoMeta, Absent, Torn
<1>8. ReadableUnlessFlawed'
  BY <1>1, <1>6 DEF ReadableUnlessFlawed, PersistedIsReadable, NoMeta, Absent
<1>9. \A p \in In(ram) : old[p] = ram[p] \/ p \notin to_write => FileHas(p, ram[p])'
  <2> SUFFICES ASSUME NEW p \in In(ram), old[p] = ram[p] \/ p \notin to_write
               PROVE  FileHas(p, ram[p])'
    OBVIOUS
  <2>1. p # q /\ p \in Quads
    BY <1>1, <1>6 DEF In
  <2>2. QED BY <1>1, <1>3, <1>6, <2>1 DEF FileHas, Absent, Torn
<1>10. PersistInv'
  BY <1>1, <1>6, <1>9 DEF PersistInv, In, NoMeta, Absent
<1>11. QED BY <1>4, <1>5, <1>7, <1>8, <1>10 DEF DiskInv

LEMMA WriteFileKeeps ==
  ASSUME DiskInv, NEW q \in Quads, WriteFile(q)
  PROVE  DiskInv'
<1>1. /\ running = "persisting" /\ to_remove = {} /\ q \in to_write
      /\ to_write' = to_write \ {q}
      /\ disk_cached' = [disk_cached EXCEPT ![q] = ram[q]]
      /\ UNCHANGED <<ram, old, meta, running, to_remove, clock, saved>>
  BY DEF WriteFile, Writing
<1>2. TypeOK
  BY DEF DiskInv
<1>3. /\ saved = NoMeta /\ to_write \subseteq In(ram)
      /\ \A p \in Quads : disk_cached[p] = IF p \in to_write THEN Absent ELSE ram[p]
      /\ \A p \in In(ram) : old[p] = ram[p] \/ p \notin to_write => FileHas(p, ram[p])
  BY <1>1 DEF DiskInv, PersistInv
<1>4. /\ ram[q] \in 0..MaxClock /\ ram[q] # Absent
      /\ disk_cached' \in Caches
      /\ disk_cached'[q] = ram[q] /\ \A p \in Quads \ {q} : disk_cached'[p] = disk_cached[p]
  BY <1>1, <1>2, <1>3 DEF TypeOK, Caches, In
<1>5. /\ files' \in [Quads -> Torn..MaxClock]
      /\ \A p \in Quads \ {q} : files'[p] = files[p]
      /\ flawed' \in BOOLEAN /\ (flawed => flawed')
      /\ files'[q] = ram[q] \/ (files'[q] = Torn /\ flawed') \/ (old[q] = ram[q] /\ files'[q] = files[q] /\ flawed' = flawed)
  <2>1. CASE old[q] = ram[q]
    BY <1>2, <2>1 DEF WriteFile, TypeOK
  <2>2. CASE old[q] # ram[q]
    <3>1. PICK content \in {ram[q], Torn} :
            files' = [files EXCEPT ![q] = content] /\ flawed' = (flawed \/ content = Torn)
      BY <2>2 DEF WriteFile
    <3>2. content \in Torn..MaxClock
      BY <1>4, <3>1, DiskCacheType DEF Torn
    <3>3. QED BY <1>2, <3>1, <3>2 DEF TypeOK
  <2>3. QED BY <2>1, <2>2
<1>6. FileHas(q, ram[q])'
  <2>1. ram[q] \in Int
    BY <1>4
  <2>2. CASE files'[q] = ram[q]
    BY <1>1, <2>1, <2>2 DEF FileHas
  <2>3. CASE files'[q] = Torn /\ flawed'
    BY <2>3 DEF FileHas, Torn, Absent
  <2>4. CASE old[q] = ram[q] /\ files'[q] = files[q] /\ flawed' = flawed
    BY <1>1, <1>3, <2>4 DEF FileHas, Torn, Absent
  <2>5. QED BY <1>5, <2>2, <2>3, <2>4
<1>7. TypeOK'
  BY <1>1, <1>2, <1>4, <1>5 DEF TypeOK, Caches
<1>8. NothingNewer' /\ MemoryNotOlder' /\ DownInv' /\ IdleInv'
  BY <1>1 DEF DiskInv, NothingNewer, MemoryNotOlder, DownInv, IdleInv, In, NoMeta, Absent
<1>9. NeverOlderThanMeta'
  <2> SUFFICES ASSUME meta # NoMeta, NEW p \in Quads, meta[p] # Absent
               PROVE  files'[p] \in {Absent, Torn} \/ files'[p] >= meta[p]
    BY <1>1 DEF NeverOlderThanMeta, In, NoMeta, Absent, Torn
  <2>1. CASE p # q
    BY <1>5, <2>1 DEF DiskInv, NeverOlderThanMeta, In
  <2>2. CASE p = q
    <3>1. ram[q] >= meta[q]
      BY <1>1, <1>4, <2>2 DEF DiskInv, MemoryNotOlder, In
    <3>2. QED BY <1>5, <2>2, <3>1 DEF DiskInv, NeverOlderThanMeta, In
  <2>3. QED BY <2>1, <2>2
<1>10. ReadableUnlessFlawed'
  BY <1>1, <1>3 DEF ReadableUnlessFlawed, PersistedIsReadable, NoMeta, Absent
<1>11. ASSUME NEW p \in In(ram), old[p] = ram[p] \/ p \notin to_write \ {q}
       PROVE  FileHas(p, ram[p])'
  <2>1. CASE p = q
    BY <1>6, <2>1
  <2>2. CASE p # q
    <3>1. files'[p] = files[p] /\ FileHas(p, ram[p])
      BY <1>3, <1>5, <1>11, <2>2 DEF In
    <3>2. QED BY <1>1, <1>5, <3>1 DEF FileHas, Absent, Torn
  <2>3. QED BY <2>1, <2>2
<1>12. PersistInv'
  BY <1>1, <1>3, <1>4, <1>11 DEF PersistInv, In, NoMeta, Absent
<1>13. QED BY <1>7, <1>8, <1>9, <1>10, <1>12 DEF DiskInv
LEMMA WriteMetaKeeps ==
  ASSUME DiskInv, WriteMeta
  PROVE  DiskInv'
<1>1. /\ running = "persisting" /\ to_remove = {} /\ to_write = {}
      /\ running' = "idle" /\ old' = Nothing /\ saved' = ram
      /\ meta' = disk_cached \/ meta' = NoMeta
      /\ flawed' = (flawed \/ meta' # disk_cached)
      /\ UNCHANGED <<ram, disk_cached, files, to_remove, to_write, clock>>
  BY DEF WriteMeta, Writing
<1>2. TypeOK
  BY DEF DiskInv
<1>3. /\ \A q \in Quads : disk_cached[q] = ram[q]
      /\ \A q \in In(ram) : FileHas(q, ram[q])
  BY <1>1 DEF DiskInv, PersistInv
<1>4. disk_cached = ram
  BY <1>2, <1>3 DEF TypeOK, Caches
<1>5. TypeOK'
  BY <1>1, <1>2, NothingType DEF TypeOK, Caches
<1>6. \A q \in Quads : ram[q] \in Nat /\ ram[q] <= clock
  BY <1>2, Versions DEF DiskInv, NothingNewer
<1>7. meta' # NoMeta => meta' = ram
  BY <1>1, <1>4
<1>8. NothingNewer' /\ MemoryNotOlder'
  BY <1>1, <1>6, <1>7 DEF NothingNewer, MemoryNotOlder, In, NoMeta, Absent
<1>9. \A q \in In(ram) : FileHas(q, ram[q])'
  BY <1>1, <1>3 DEF FileHas, Absent, Torn
<1>10. NeverOlderThanMeta'
  BY <1>1, <1>7, <1>9 DEF NeverOlderThanMeta, FileHas, In, NoMeta, Absent, Torn
<1>11. DownInv' /\ IdleInv' /\ PersistInv'
  BY <1>1, <1>4, <1>9 DEF DownInv, IdleInv, PersistInv, In, Absent
<1>12. ReadableUnlessFlawed'
  <2> SUFFICES ASSUME ~flawed' PROVE PersistedIsReadable'
    BY DEF ReadableUnlessFlawed
  <2>1. meta' = ram
    BY <1>1, <1>4
  <2>2. \A q \in In(ram) : files'[q] >= ram[q]
    BY <1>1, <1>9 DEF FileHas, In, Absent
  <2>3. QED BY <1>1, <2>1, <2>2 DEF PersistedIsReadable, In, NoMeta, Absent
<1>13. QED BY <1>5, <1>8, <1>10, <1>11, <1>12 DEF DiskInv

(* A persist that fails leaves nothing on disk.                            *)
LEMMA FailedKeeps ==
  ASSUME DiskInv, running = "persisting", to_remove = {}, Failed, disk_cached' \in Caches
  PROVE  DiskInv'
<1>1. /\ files' = Nothing /\ meta' = NoMeta
      /\ running' = "idle" /\ old' = Nothing /\ to_write' = {} /\ flawed' = TRUE
      /\ UNCHANGED <<ram, to_remove, clock, saved>>
  BY DEF Failed, RemoveAll
<1>2. TypeOK
  BY DEF DiskInv
<1>3. TypeOK'
  BY <1>1, <1>2, NothingType DEF TypeOK, Caches
<1>4. NothingNewer' /\ MemoryNotOlder' /\ NeverOlderThanMeta' /\ ReadableUnlessFlawed'
  BY <1>1 DEF DiskInv, NothingNewer, MemoryNotOlder, NeverOlderThanMeta, ReadableUnlessFlawed,
     NoMeta, Absent
<1>5. DownInv' /\ PersistInv'
  BY <1>1 DEF DownInv, PersistInv
<1>6. IdleInv'
  BY <1>1, NothingType DEF IdleInv, FileHas, In, Absent, Torn
<1>7. QED BY <1>3, <1>4, <1>5, <1>6 DEF DiskInv

LEMMA OpenFailsKeeps ==
  ASSUME DiskInv, NEW q \in Quads, OpenFails(q)
  PROVE  DiskInv'
<1>1. ram \in Caches /\ disk_cached \in Caches
  BY DEF DiskInv, TypeOK
<1>2. disk_cached' = [disk_cached EXCEPT ![q] = ram[q]]
  BY DEF OpenFails
<1>3. disk_cached' \in Caches
  BY <1>1, <1>2 DEF Caches
<1>4. QED BY <1>3, FailedKeeps DEF OpenFails, Writing

LEMMA OpenMetaFailsKeeps ==
  ASSUME DiskInv, OpenMetaFails
  PROVE  DiskInv'
BY FailedKeeps DEF OpenMetaFails, Writing, DiskInv, TypeOK

-----------------------------------------------------------------------------
(* The process ends and is started again.                                  *)
LEMMA CloseKeeps ==
  ASSUME DiskInv, Close
  PROVE  DiskInv'
<1>1. /\ running = "idle" /\ running' = "down" /\ ram' = Nothing /\ disk_cached' = Nothing
      /\ old' = Nothing /\ to_remove' = {} /\ to_write' = {}
      /\ UNCHANGED <<files, meta, clock, saved, flawed>>
  BY DEF Close, Gone
<1>2. TypeOK
  BY DEF DiskInv
<1>3. TypeOK'
  BY <1>1, <1>2, NothingType DEF TypeOK, Caches
<1>4. NothingNewer'
  BY <1>1, <1>2, NothingType, Versions DEF DiskInv, NothingNewer, NoMeta, Absent
<1>5. MemoryNotOlder' /\ DownInv' /\ IdleInv' /\ PersistInv'
  BY <1>1 DEF MemoryNotOlder, DownInv, IdleInv, PersistInv, Nothing, Absent
<1>6. NeverOlderThanMeta' /\ ReadableUnlessFlawed'
  BY <1>1 DEF DiskInv, NeverOlderThanMeta, ReadableUnlessFlawed, PersistedIsReadable, In, NoMeta,
     Absent, Torn
<1>7. QED BY <1>3, <1>4, <1>5, <1>6 DEF DiskInv

LEMMA CrashKeeps ==
  ASSUME DiskInv, Crash
  PROVE  DiskInv'
<1>1. /\ running = "persisting" /\ running' = "down" /\ ram' = Nothing /\ disk_cached' = Nothing
      /\ old' = Nothing /\ to_remove' = {} /\ to_write' = {}
      /\ UNCHANGED <<clock, saved, flawed>>
  BY DEF Crash, Gone
<1>2. /\ meta' = meta \/ meta' = NoMeta
      /\ files' = files \/ \E q \in to_write : files' = [files EXCEPT ![q] = Torn]
  BY DEF Crash
<1>3. TypeOK
  BY DEF DiskInv
<1>4. MaxClock \in Nat /\ Torn \in Torn..MaxClock
  BY DiskCacheType DEF Torn
<1>5. files' \in [Quads -> Torn..MaxClock] /\ \A q \in Quads : files'[q] = files[q] \/ files'[q] = Torn
  BY <1>2, <1>3, <1>4 DEF TypeOK
<1>6. TypeOK'
  BY <1>1, <1>2, <1>3, <1>5, NothingType DEF TypeOK, Caches
<1>7. NothingNewer'
  BY <1>1, <1>2, <1>3, NothingType, Versions DEF DiskInv, NothingNewer, NoMeta, Absent
<1>8. MemoryNotOlder' /\ DownInv' /\ IdleInv' /\ PersistInv'
  BY <1>1 DEF MemoryNotOlder, DownInv, IdleInv, PersistInv, Nothing, Absent
<1>9. NeverOlderThanMeta'
  BY <1>2, <1>5 DEF DiskInv, NeverOlderThanMeta, In, NoMeta, Absent, Torn
<1>10. ReadableUnlessFlawed'
  BY <1>1 DEF DiskInv, PersistInv, ReadableUnlessFlawed, PersistedIsReadable, NoMeta, Absent
<1>11. QED BY <1>6, <1>7, <1>8, <1>9, <1>10 DEF DiskInv

LEMMA ReadDiskCacheKeeps ==
  ASSUME DiskInv, ReadDiskCache
  PROVE  DiskInv'
<1>1. /\ running = "down" /\ running' = "idle" /\ saved' = NoMeta /\ flawed' = FALSE
      /\ UNCHANGED <<old, to_remove, to_write, clock>>
  BY DEF ReadDiskCache, progress
<1>2. TypeOK
  BY DEF DiskInv
<1>3. ReadableUnlessFlawed' /\ DownInv' /\ PersistInv'
  BY <1>1 DEF ReadableUnlessFlawed, PersistedIsReadable, DownInv, PersistInv, NoMeta, Absent
<1>4. CASE Readable
  <2>1. ram' = meta /\ disk_cached' = meta /\ UNCHANGED <<files, meta>>
    BY <1>4 DEF ReadDiskCache
  <2>2. meta # NoMeta /\ \A q \in In(meta) : files[q] \notin {Absent, Torn}
    BY <1>4 DEF Readable
  <2>3. meta \in Caches /\ \A q \in Quads : meta[q] \in Nat
    BY <1>2, <2>2, Versions DEF TypeOK
  <2>4. TypeOK'
    BY <1>1, <1>2, <2>1, <2>3 DEF TypeOK, Caches
  <2>5. NothingNewer' /\ MemoryNotOlder' /\ NeverOlderThanMeta'
    <3>1. \A q \in Quads : meta[q] <= clock
      BY <2>2 DEF DiskInv, NothingNewer
    <3>2. NothingNewer' /\ MemoryNotOlder'
      BY <1>1, <2>1, <2>3, <3>1 DEF NothingNewer, MemoryNotOlder, In, NoMeta, Absent
    <3>3. NeverOlderThanMeta'
      BY <2>1 DEF DiskInv, NeverOlderThanMeta, In, NoMeta, Absent, Torn
    <3>4. QED BY <3>2, <3>3
  <2>6. \A q \in In(meta) : files[q] >= meta[q]
    BY <2>2 DEF DiskInv, NeverOlderThanMeta
  <2>7. IdleInv'
    BY <1>1, <2>1, <2>6 DEF IdleInv, FileHas, In, Absent, Torn
  <2>8. QED BY <1>3, <2>4, <2>5, <2>7 DEF DiskInv
<1>5. CASE ~Readable
  <2>1. UNCHANGED <<ram, disk_cached>> /\ files' = Nothing /\ meta' = NoMeta
    BY <1>5 DEF ReadDiskCache, RemoveAll
  <2>2. TypeOK'
    BY <1>1, <1>2, <2>1, NothingType DEF TypeOK, Caches
  <2>3. NothingNewer' /\ MemoryNotOlder' /\ NeverOlderThanMeta'
    <3>1. meta' = NoMeta'
      BY <2>1 DEF NoMeta, Absent
    <3>2. \A q \in Quads : ram'[q] <= clock'
      BY <1>1, <2>1 DEF DiskInv, NothingNewer
    <3>3. NothingNewer'
      BY <3>1, <3>2 DEF NothingNewer
    <3>4. QED
      BY <3>1, <3>3 DEF MemoryNotOlder, NeverOlderThanMeta
  <2>4. IdleInv'
    <3>1. disk_cached' = Nothing
      BY <1>1, <2>1 DEF DiskInv, DownInv
    <3>2. In(disk_cached') = {}
      BY <3>1, NothingType
    <3>3. QED BY <3>2 DEF IdleInv, In, Absent
  <2>5. QED BY <1>3, <2>2, <2>3, <2>4 DEF DiskInv
<1>6. QED BY <1>4, <1>5

-----------------------------------------------------------------------------
LEMMA DiskInvStarts == Init => DiskInv
<1> SUFFICES ASSUME Init PROVE DiskInv
  OBVIOUS
<1>1. 0 \in 0..MaxClock
  BY DiskCacheType
<1>2. TypeOK
  <2>1. /\ ram \in Caches /\ disk_cached \in Caches /\ old \in Caches
        /\ files \in [Quads -> Torn..MaxClock]
    BY NothingType DEF Init
  <2>2. QED BY <1>1, <2>1 DEF Init, TypeOK
<1>3. NothingNewer
  BY NothingType DEF Init, NothingNewer, Absent
<1>4. NeverOlderThanMeta /\ MemoryNotOlder /\ DownInv /\ IdleInv /\ PersistInv /\ ReadableUnlessFlawed
  BY DEF Init, NeverOlderThanMeta, MemoryNotOlder, DownInv, IdleInv, PersistInv,
     ReadableUnlessFlawed, PersistedIsReadable
<1>5. QED BY <1>2, <1>3, <1>4 DEF DiskInv

LEMMA DiskInvHolds == DiskInv /\ [Next]_vars => DiskInv'
<1> SUFFICES ASSUME DiskInv, [Next]_vars PROVE DiskInv'
  OBVIOUS
<1>1. CASE UNCHANGED vars
  BY <1>1 DEF vars, progress, DiskInv, TypeOK, NothingNewer, NeverOlderThanMeta, MemoryNotOlder,
     DownInv, IdleInv, PersistInv, FileHas, ReadableUnlessFlawed, PersistedIsReadable, Caches, In,
     NoMeta, Nothing, Absent, Torn
<1>2. CASE OpenMetaFails
  BY <1>2, OpenMetaFailsKeeps
<1>3. QED
  BY <1>1, <1>2, InsertKeeps, PurgeKeeps, StartPersistKeeps, RemoveFileKeeps, WriteFileKeeps,
     WriteMetaKeeps, OpenFailsKeeps, CloseKeeps, CrashKeeps, ReadDiskCacheKeeps
  DEF Next

(* The caches hold versions that were in memory, and a persist works on    *)
(* nothing else.                                                           *)
THEOREM TypeCorrect == Spec => []TypeOK
<1>1. DiskInv => TypeOK
  BY DEF DiskInv
<1>2. QED BY DiskInvStarts, DiskInvHolds, <1>1, PTL DEF Spec

(* write_to_disk and read_from_disk: whatever fails, and wherever the      *)
(* process dies, no tile that can be read back is older than the meta data *)
(* that are read with it.                                                  *)
THEOREM NothingOldIsRead == Spec => []NeverOlderThanMeta
<1>1. DiskInv => NeverOlderThanMeta
  BY DEF DiskInv
<1>2. QED BY DiskInvStarts, DiskInvHolds, <1>1, PTL DEF Spec

(* persist_tiles: what a program that has seen no file operation fail      *)
(* since it was started reports as saved can be read back, all of it,      *)
(* whatever the programs before it left on disk.                           *)
THEOREM SavedIsReadable == Spec => []ReadableUnlessFlawed
<1>1. DiskInv => ReadableUnlessFlawed
  BY DEF DiskInv
<1>2. QED BY DiskInvStarts, DiskInvHolds, <1>1, PTL DEF Spec
=============================================================================
