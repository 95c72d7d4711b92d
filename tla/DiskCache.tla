----------------------------- MODULE DiskCache -----------------------------
(***************************************************************************)
(* The cache of a scheduler on disk: Cache<T>::write_to_disk and           *)
(* read_from_disk, with Scheduler::persist_tiles and read_disk_cache,      *)
(* which delete everything when these report an error.                     *)
(*                                                                         *)
(* What is stored for a quad is abstracted to the time it was created,     *)
(* which tells its versions apart (no quad is inserted twice in the same   *)
(* millisecond).  Each file operation is a step of its own, because the    *)
(* process can end between any two.  The handler runs in the thread that   *)
(* changes the memory cache, so that does not change meanwhile.            *)
(***************************************************************************)
EXTENDS Integers, FiniteSets

CONSTANTS
  Quads,     \* the quads that can be cached
  MaxClock,  \* bound: the last time a quad is inserted at
  Faults     \* what goes wrong: "crash", "open" (a file cannot be opened for writing)
             \* and "short" (a write ends early; nobody looks at its result)

ASSUME DiskCacheType ==
  /\ IsFiniteSet(Quads)
  /\ MaxClock \in Nat
  /\ Faults \subseteq {"crash", "open", "short"}

VARIABLES
  ram,          \* m_data: the time each quad was created, Absent if it is not there
  disk_cached,  \* m_disk_cached, in the same way
  old,          \* disk_cached_old, while a persist runs
  files,        \* the tile files: the version in it, Absent or Torn
  meta,         \* meta_info.alp: a copy of m_disk_cached, or NoMeta (not there or torn)
  running,      \* "down", "idle" or "persisting"
  to_remove,    \* the files the persist that runs has yet to remove
  to_write,     \* the quads it has yet to look at
  clock,        \* time
  saved,        \* history: what the last persist reported as saved, NoMeta if it
                \* failed or another one has started
  flawed        \* history: a file operation has failed since the program was started

vars ==
  <<ram, disk_cached, old, files, meta, running, to_remove, to_write, clock, saved, flawed>>
progress == <<old, to_remove, to_write>>

-----------------------------------------------------------------------------
Absent == 0
Torn == -1
NoMeta == [q \in {} |-> Absent]

Nothing == [q \in Quads |-> Absent]
In(cache) == {q \in Quads : cache[q] # Absent}

(* std::filesystem::remove_all(disk_cache_path())                          *)
RemoveAll ==
  /\ files' = Nothing
  /\ meta' = NoMeta

Init ==
  /\ ram = Nothing
  /\ disk_cached = Nothing
  /\ old = Nothing
  /\ files = Nothing
  /\ meta = NoMeta
  /\ running = "down"
  /\ to_remove = {}
  /\ to_write = {}
  /\ clock = 0
  /\ saved = NoMeta
  /\ flawed = FALSE

(* Mutant of Insert: the time of creation in the unit of a visit.          *)
InsertStamped(q) ==
  /\ running = "idle"
  /\ clock < MaxClock
  /\ clock' = clock + 1
  /\ ram' = [ram EXCEPT ![q] = clock' * 100]
  /\ UNCHANGED <<disk_cached, progress, files, meta, running, saved, flawed>>

(* Cache::insert                                                           *)
Insert(q) ==
  /\ running = "idle"
  /\ clock < MaxClock
  /\ clock' = clock + 1
  /\ ram' = [ram EXCEPT ![q] = clock']
  /\ UNCHANGED <<disk_cached, progress, files, meta, running, saved, flawed>>

(* Cache::purge, of one quad.                                              *)
Purge(q) ==
  /\ running = "idle"
  /\ ram' = [ram EXCEPT ![q] = Absent]
  /\ UNCHANGED <<disk_cached, progress, files, meta, running, clock, saved, flawed>>

-----------------------------------------------------------------------------
(* Mutant of StartPersist: files that are up to date are removed, too.     *)
StartPersistRemoving ==
  /\ running = "idle"
  /\ running' = "persisting"
  /\ old' = disk_cached
  /\ disk_cached' = Nothing
  /\ to_remove' = In(disk_cached)
  /\ to_write' = In(ram)
  /\ saved' = NoMeta
  /\ UNCHANGED <<ram, files, meta, clock, flawed>>

(* Mutant of StartPersist: what is on disk is told by its id alone.        *)
StartPersistById ==
  /\ running = "idle"
  /\ running' = "persisting"
  /\ old' = [q \in Quads |-> IF disk_cached[q] = Absent THEN Absent ELSE ram[q]]
  /\ disk_cached' = Nothing
  /\ to_remove' = In(disk_cached) \ In(ram)
  /\ to_write' = In(ram)
  /\ saved' = NoMeta
  /\ UNCHANGED <<ram, files, meta, clock, flawed>>

StartPersist ==
  /\ running = "idle"
  /\ running' = "persisting"
  /\ old' = disk_cached
  /\ disk_cached' = Nothing
  /\ to_remove' = {q \in In(disk_cached) : ram[q] # disk_cached[q]}
  /\ to_write' = In(ram)
  /\ saved' = NoMeta
  /\ UNCHANGED <<ram, files, meta, clock, flawed>>

RemoveFile(q) ==
  /\ running = "persisting"
  /\ q \in to_remove
  /\ to_remove' = to_remove \ {q}
  /\ files' = [files EXCEPT ![q] = Absent]
  /\ UNCHANGED <<ram, disk_cached, old, meta, running, to_write, clock, saved, flawed>>

Writing == running = "persisting" /\ to_remove = {}

(* One turn of the loop that writes: the quad counts as cached on disk     *)
(* before its file is written, and is not written if old says it is there. *)
WriteFile(q) ==
  /\ Writing
  /\ q \in to_write
  /\ to_write' = to_write \ {q}
  /\ disk_cached' = [disk_cached EXCEPT ![q] = ram[q]]
  /\ IF old[q] = ram[q] THEN UNCHANGED <<files, flawed>>
     ELSE \E content \in {ram[q]} \cup (IF "short" \in Faults THEN {Torn} ELSE {}) :
            /\ files' = [files EXCEPT ![q] = content]
            /\ flawed' = (flawed \/ content = Torn)
  /\ UNCHANGED <<ram, old, meta, running, to_remove, clock, saved>>

WriteMeta ==
  /\ Writing
  /\ to_write = {}
  /\ meta' \in {disk_cached} \cup (IF "short" \in Faults THEN {NoMeta} ELSE {})
  /\ running' = "idle"
  /\ old' = Nothing
  /\ saved' = ram
  /\ flawed' = (flawed \/ meta' # disk_cached)
  /\ UNCHANGED <<ram, disk_cached, files, to_remove, to_write, clock>>

(* persist_tiles, when write_to_disk has returned an error.                *)
Failed ==
  /\ RemoveAll
  /\ running' = "idle"
  /\ old' = Nothing
  /\ to_write' = {}
  /\ flawed' = TRUE
  /\ UNCHANGED <<ram, to_remove, clock, saved>>

OpenFails(q) ==
  /\ "open" \in Faults
  /\ Writing
  /\ q \in to_write
  /\ old[q] # ram[q]
  /\ disk_cached' = [disk_cached EXCEPT ![q] = ram[q]]
  /\ Failed

OpenMetaFails ==
  /\ "open" \in Faults
  /\ Writing
  /\ to_write = {}
  /\ UNCHANGED disk_cached
  /\ Failed

-----------------------------------------------------------------------------
(* The process ends, and with it all that is in memory.                    *)
Gone ==
  /\ running' = "down"
  /\ ram' = Nothing
  /\ disk_cached' = Nothing
  /\ old' = Nothing
  /\ to_remove' = {}
  /\ to_write' = {}

(* The program is closed; the destructor persists nothing.                 *)
Close ==
  /\ running = "idle"
  /\ Gone
  /\ UNCHANGED <<files, meta, clock, saved, flawed>>

(* The process dies while it persists: between two operations or in the    *)
(* middle of writing a file.                                               *)
Crash ==
  /\ "crash" \in Faults
  /\ running = "persisting"
  /\ Gone
  /\ \/ UNCHANGED <<files, meta>>
     \/ /\ Writing
        /\ \E q \in to_write :
             old[q] # ram[q] /\ files' = [files EXCEPT ![q] = Torn]
        /\ UNCHANGED meta
     \/ /\ Writing /\ to_write = {}
        /\ meta' = NoMeta
        /\ UNCHANGED files
  /\ UNCHANGED <<clock, saved, flawed>>

(* Whether read_from_disk succeeds.                                        *)
Readable ==
  /\ meta # NoMeta
  /\ \A q \in In(meta) : files[q] \notin {Absent, Torn}

(* The program is started: read_disk_cache.                                *)
ReadDiskCache ==
  /\ running = "down"
  /\ running' = "idle"
  /\ IF Readable
     THEN /\ ram' = meta
          /\ disk_cached' = meta
          /\ UNCHANGED <<files, meta>>
     ELSE /\ UNCHANGED <<ram, disk_cached>>
          /\ RemoveAll
  /\ saved' = NoMeta
  /\ flawed' = FALSE
  /\ UNCHANGED <<progress, clock>>

Next ==
  \/ \E q \in Quads : Insert(q)
  \/ \E q \in Quads : Purge(q)
  \/ StartPersist
  \/ \E q \in Quads : RemoveFile(q)
  \/ \E q \in Quads : WriteFile(q)
  \/ WriteMeta
  \/ \E q \in Quads : OpenFails(q)
  \/ OpenMetaFails
  \/ Close
  \/ Crash
  \/ ReadDiskCache

Spec == Init /\ [][Next]_vars

-----------------------------------------------------------------------------
Caches == [Quads -> 0..MaxClock]

(* What is on disk of a quad is nothing, torn or of a version that was in  *)
(* memory, and a persist works on the quads of these caches only.          *)
TypeOK ==
  /\ ram \in Caches /\ disk_cached \in Caches /\ old \in Caches
  /\ files \in [Quads -> Torn..MaxClock]
  /\ meta \in Caches \cup {NoMeta}
  /\ running \in {"down", "idle", "persisting"}
  /\ to_remove \subseteq Quads /\ to_write \subseteq Quads
  /\ clock \in 0..MaxClock
  /\ saved \in Caches \cup {NoMeta}
  /\ flawed \in BOOLEAN

(* What a persist reports as saved can be read back, also after the        *)
(* program has ended: all of the cache, and no tile older than it was.     *)
(* It is what the unit test of persist_tiles relies on.                    *)
PersistedIsReadable ==
  saved # NoMeta =>
    /\ meta = saved
    /\ \A q \in In(saved) : files[q] >= saved[q]

(* The same of a program that has seen no file operation fail since it was *)
(* started, whatever failed, and wherever the process died, before.        *)
ReadableUnlessFlawed == ~flawed => PersistedIsReadable

(* Whatever goes wrong, and when, a tile that can be read back is never    *)
(* older than the meta data that is read with it says.                     *)
NeverOlderThanMeta ==
  meta # NoMeta => \A q \in In(meta) : files[q] \in {Absent, Torn} \/ files[q] >= meta[q]
=============================================================================
