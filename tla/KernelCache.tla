---------------------------- MODULE KernelCache ----------------------------
(***************************************************************************)
(* The offline kernel cache: KernelCompilationManager and CacheCleaner     *)
(* (src/taichi/compilation_manager/kernel_compilation_manager.cpp,         *)
(* src/taichi/util/offline_cache.h) over the file lock of util/lock.h.     *)
(*                                                                         *)
(* Processes share a directory with one metadata file (ticache.tcb), one   *)
(* file per kernel (<key>.tic) and a lock file.  A session reads the       *)
(* metadata, looks kernels up or compiles them, and when the program is    *)
(* finalized cleans the directory and then dumps what it compiled.  The    *)
(* lock guards the metadata; kernel files are read, and by the cleaner     *)
(* removed, without it.  A process may crash anywhere and leave the lock.  *)
(*                                                                         *)
(* Abstracted: a kernel file has size 1 and is absent, torn (its hash does *)
(* not match) or whole; time is the number of kernel uses so far; all      *)
(* kernels are of cache mode MemAndDiskCache and of one Taichi version.    *)
(***************************************************************************)
EXTENDS Naturals, FiniteSets, Functions, FiniteSetsExt

CONSTANTS
  Procs, Keys,
  Settings,       \* [procs, policy]: the processes that share the directory,
                  \* and their offline_cache_cleaning_policy
  MaxSize,        \* offline_cache_max_size_of_files
  Factor,         \* offline_cache_cleaning_factor is 1 / Factor
  MaxUses,        \* bound on the clock
  MaxCrashes, MaxFailedWrites  \* bounds on what goes wrong

ASSUME CacheAssumption ==
  /\ IsFiniteSet(Procs) /\ IsFiniteSet(Keys)
  /\ Settings # {}
  /\ \A s \in Settings : s.procs \subseteq Procs
                       /\ s.policy \in {"never", "version", "lru", "fifo"}
  /\ MaxSize \in Nat \ {0} /\ Factor \in Nat \ {0}
  /\ {MaxUses, MaxCrashes, MaxFailedWrites} \subseteq Nat

Times == 0 .. MaxUses
NoKernels == [k \in {} |-> [used |-> 0, created |-> 0, size |-> 0]]
NoData == [size |-> 0, kernels |-> NoKernels]

VARIABLES
  lock,      \* the lock file exists
  meta,      \* the metadata file: "none", "torn" or "good", and its content
  file,      \* the kernel files
  clock, crashes, failed,
  setting,   \* the one of Settings at work
  pc,
  cached,    \* cached_data_.kernels
  loaded,    \* those of them whose compiled_kernel_data is loaded
  updated,   \* updated_data_
  caching,   \* caching_kernels_: when each was compiled
  data,      \* the CacheData that the lock holder works on
  todo,      \* kernel files still to be written or removed
  open       \* the one that is open for writing

disk == <<lock, meta, file>>
session == <<cached, loaded, updated, caching>>
work == <<data, todo, open>>
faults == <<crashes, failed, setting>>
vars == <<disk, clock, faults, pc, session, work>>

None == [state |-> "none", data |-> NoData]
Torn == [state |-> "torn", data |-> NoData]
Good(d) == [state |-> "good", data |-> d]

Init ==
  /\ lock = FALSE /\ meta = None /\ file = [k \in Keys |-> "none"]
  /\ clock = 0 /\ crashes = 0 /\ failed = 0 /\ setting \in Settings
  /\ pc = [p \in Procs |-> "off"]
  /\ cached = [p \in Procs |-> NoKernels] /\ loaded = [p \in Procs |-> {}]
  /\ updated = [p \in Procs |-> {}] /\ caching = [p \in Procs |-> <<>>]
  /\ data = [p \in Procs |-> NoData] /\ todo = [p \in Procs |-> {}]
  /\ open = [p \in Procs |-> {}]

Goto(p, label) == pc' = [pc EXCEPT ![p] = label]
Locals == UNCHANGED <<clock, faults, session>>

\* The process is gone, and its memory with it.
Gone(p) ==
  /\ Goto(p, "off")
  /\ cached' = [cached EXCEPT ![p] = NoKernels] /\ loaded' = [loaded EXCEPT ![p] = {}]
  /\ updated' = [updated EXCEPT ![p] = {}] /\ caching' = [caching EXCEPT ![p] = <<>>]
  /\ data' = [data EXCEPT ![p] = NoData] /\ todo' = [todo EXCEPT ![p] = {}]
  /\ open' = [open EXCEPT ![p] = {}]

\* MUTANT: the attempts are not counted.
GiveUpNever(p, from, to) ==
  /\ pc[p] = from /\ lock
  /\ UNCHANGED vars

\* lock_with_file: five attempts to create the lock file, or give up.
TakeLock(p, from, to) ==
  /\ pc[p] = from /\ ~lock
  /\ lock' = TRUE
  /\ Goto(p, to)
  /\ Locals /\ UNCHANGED <<meta, file, work>>
GiveUp(p, from, to) ==
  /\ pc[p] = from /\ lock
  /\ Goto(p, to)
  /\ Locals /\ UNCHANGED <<disk, work>>

\* load_metadata_with_checking: the content, if it can be read.
Content == meta.data

-----------------------------------------------------------------------------
(* KernelCompilationManager::KernelCompilationManager                      *)

Start(p) ==
  /\ pc[p] = "off" /\ p \in setting.procs /\ clock < MaxUses
  /\ Goto(p, IF meta.state = "none" THEN "run" ELSE "start")
  /\ Locals /\ UNCHANGED <<disk, work>>

Load(p) ==
  /\ pc[p] = "load"
  /\ cached' = [cached EXCEPT ![p] = Content.kernels]
  /\ lock' = FALSE
  /\ Goto(p, "run")
  /\ UNCHANGED <<meta, file, clock, faults, loaded, updated, caching, work>>

(* load_or_compile                                                         *)

InMemory(p, k) == k \in DOMAIN caching[p] \/ k \in loaded[p]
OnDisk(p, k) == k \in DOMAIN cached[p] /\ file[k] = "whole"

Used(k) ==
  /\ clock < MaxUses /\ clock' = clock + 1

UseFromMemory(p, k) ==
  /\ pc[p] = "run" /\ InMemory(p, k)
  /\ Used(k)
  /\ UNCHANGED <<disk, faults, pc, session, work>>

UseFromDisk(p, k) ==
  /\ pc[p] = "run" /\ ~InMemory(p, k) /\ OnDisk(p, k)
  /\ Used(k)
  /\ loaded' = [loaded EXCEPT ![p] = @ \cup {k}]
  /\ cached' = [cached EXCEPT ![p][k].used = clock']
  /\ updated' = [updated EXCEPT ![p] = @ \cup {k}]
  /\ UNCHANGED <<disk, faults, pc, caching, work>>

Compile(p, k) ==
  /\ pc[p] = "run" /\ ~InMemory(p, k) /\ ~OnDisk(p, k)
  /\ Used(k)
  /\ caching' = [caching EXCEPT ![p] = [j \in DOMAIN @ \cup {k} |->
                                         IF j = k THEN clock' ELSE @[j]]]
  /\ UNCHANGED <<disk, faults, pc, cached, loaded, updated, work>>

\* Program::finalize
Finalize(p) ==
  /\ pc[p] = "run"
  /\ Goto(p, IF setting.policy = "never" THEN "dump" ELSE "clean")
  /\ Locals /\ UNCHANGED <<disk, work>>

-----------------------------------------------------------------------------
(* CacheCleaner::run, with the lock held in "check", "wipe" and "update"   *)

CleanCount(d) == Cardinality(DOMAIN d.kernels) \div Factor
Full(d) == d.size >= MaxSize /\ CleanCount(d) > 0

\* The n kernels that come first in the order of `time'.
Oldest(d, time(_)) ==
  {ks \in kSubset(CleanCount(d), DOMAIN d.kernels) :
     \A k \in ks, j \in DOMAIN d.kernels \ ks : time(d.kernels[k]) <= time(d.kernels[j])}
Victims(d) ==
  LET used(e) == e.used
      created(e) == e.created
  IN CASE setting.policy = "lru" -> Oldest(d, used)
       [] setting.policy = "fifo" -> Oldest(d, created)
       [] OTHER -> {{}}

\* MUTANT: the size of what goes is not subtracted.
WithoutSize(d, ks) ==
  [size |-> d.size, kernels |-> Restrict(d.kernels, DOMAIN d.kernels \ ks)]

Without(d, ks) ==
  [size |-> d.size - SumFunctionOnSet([k \in DOMAIN d.kernels |-> d.kernels[k].size], ks),
   kernels |-> Restrict(d.kernels, DOMAIN d.kernels \ ks)]

CleanNothing(p) ==
  /\ pc[p] = "check"
  /\ \/ meta.state = "none"
     \/ meta.state = "good" /\ (~Full(Content) \/ {} \in Victims(Content))
  /\ lock' = FALSE
  /\ Goto(p, "dump")
  /\ Locals /\ UNCHANGED <<meta, file, work>>

\* MUTANT: the lock is released before the kernel files are removed.
CleanAllUnlocked(p) ==
  /\ pc[p] = "check" /\ meta.state = "torn"
  /\ meta' = None /\ lock' = FALSE
  /\ todo' = [todo EXCEPT ![p] = {k \in Keys : file[k] # "none"}]
  /\ Goto(p, "remove")
  /\ Locals /\ UNCHANGED <<file, data, open>>

\* Unreadable metadata: remove it and every kernel file, under the lock.
CleanAll(p) ==
  /\ pc[p] = "check" /\ meta.state = "torn"
  /\ meta' = None
  /\ todo' = [todo EXCEPT ![p] = {k \in Keys : file[k] # "none"}]
  /\ Goto(p, "wipe")
  /\ Locals /\ UNCHANGED <<lock, file, data, open>>

Wiped(p) ==
  /\ pc[p] = "wipe" /\ todo[p] = {}
  /\ lock' = FALSE
  /\ Goto(p, "dump")
  /\ Locals /\ UNCHANGED <<meta, file, work>>

\* LRU or FIFO: choose the kernels to remove, open the metadata file.
Evict(p) ==
  /\ pc[p] = "check" /\ meta.state = "good" /\ Full(Content)
  /\ \E ks \in Victims(Content) \ {{}} :
       /\ todo' = [todo EXCEPT ![p] = ks]
       /\ data' = [data EXCEPT ![p] = Without(Content, ks)]
       /\ meta' = IF ks = DOMAIN Content.kernels THEN meta ELSE Torn
  /\ Goto(p, "update")
  /\ Locals /\ UNCHANGED <<lock, file, open>>

\* Save what is left, or remove the file when nothing is; then unlock.
UpdateMetadata(p) ==
  /\ pc[p] = "update"
  /\ meta' = IF DOMAIN data[p].kernels = {} THEN None ELSE Good(data[p])
  /\ lock' = FALSE
  /\ data' = [data EXCEPT ![p] = NoData]
  /\ Goto(p, "remove")
  /\ Locals /\ UNCHANGED <<file, todo, open>>

RemoveFile(p, k) ==
  /\ pc[p] \in {"wipe", "remove"} /\ k \in todo[p]
  /\ file' = [file EXCEPT ![k] = "none"]
  /\ todo' = [todo EXCEPT ![p] = @ \ {k}]
  /\ Locals /\ UNCHANGED <<lock, meta, pc, data, open>>

Removed(p) ==
  /\ pc[p] = "remove" /\ todo[p] = {}
  /\ Goto(p, "dump")
  /\ Locals /\ UNCHANGED <<disk, work>>

-----------------------------------------------------------------------------
(* KernelCompilationManager::dump, with the lock held in "merge" to "save" *)

DumpNothing(p) ==
  /\ pc[p] = "dump" /\ DOMAIN caching[p] = {}
  /\ Gone(p)
  /\ UNCHANGED <<disk, clock, faults>>

\* "Lock failed": the compiled kernels are dropped.
DumpLocked(p) ==
  /\ pc[p] = "dump" /\ DOMAIN caching[p] # {} /\ lock
  /\ Gone(p)
  /\ UNCHANGED <<disk, clock, faults>>

DumpLock(p) == DOMAIN caching[p] # {} /\ TakeLock(p, "dump", "merge")

\* MUTANT: what is listed is written once more.
NewAgain(p) == DOMAIN caching[p]

\* MUTANT: a kernel whose file exists is taken for dumped.
NewUnlessFile(p) ==
  {k \in DOMAIN caching[p] : k \notin DOMAIN Content.kernels /\ file[k] = "none"}

\* Load what is on disk, refresh the times of what was loaded, insert what was
\* compiled unless it has an entry.
New(p) == DOMAIN caching[p] \ DOMAIN Content.kernels
Merged(p) ==
  [k \in DOMAIN Content.kernels \cup New(p) |->
     IF k \in New(p)
     THEN [used |-> caching[p][k], created |-> caching[p][k], size |-> 0]
     ELSE IF k \in updated[p]
     THEN [Content.kernels[k] EXCEPT !.used = cached[p][k].used]
     ELSE Content.kernels[k]]

Merge(p) ==
  /\ pc[p] = "merge"
  /\ data' = [data EXCEPT ![p] = [size |-> Content.size, kernels |-> Merged(p)]]
  /\ todo' = [todo EXCEPT ![p] = New(p)]
  /\ Goto(p, "files")
  /\ Locals /\ UNCHANGED <<disk, open>>

\* Opening a kernel file truncates or creates it ...
OpenFile(p, k) ==
  /\ pc[p] = "files" /\ k \in todo[p] /\ open[p] = {}
  /\ file' = [file EXCEPT ![k] = "torn"]
  /\ open' = [open EXCEPT ![p] = {k}]
  /\ Locals /\ UNCHANGED <<lock, meta, pc, data, todo>>

\* ... and then it is whole (unless a cleaner has removed it meanwhile: the
\* writer does not notice), and counted, ...
WriteFile(p, k) ==
  /\ pc[p] = "files" /\ k \in open[p]
  /\ file' = [file EXCEPT ![k] = IF @ = "torn" THEN "whole" ELSE @]
  /\ data' = [data EXCEPT ![p].kernels[k].size = 1, ![p].size = @ + 1]
  /\ open' = [open EXCEPT ![p] = {}]
  /\ todo' = [todo EXCEPT ![p] = @ \ {k}]
  /\ Locals /\ UNCHANGED <<lock, meta, pc>>

\* ... or the dump reports an error, and the entry stays.
WriteFails(p, k) ==
  /\ pc[p] = "files" /\ k \in open[p]
  /\ failed < MaxFailedWrites /\ failed' = failed + 1
  /\ open' = [open EXCEPT ![p] = {}]
  /\ todo' = [todo EXCEPT ![p] = @ \ {k}]
  /\ UNCHANGED <<disk, clock, crashes, setting, pc, session, data>>

OpenMetadata(p) ==
  /\ pc[p] = "files" /\ todo[p] = {}
  /\ meta' = Torn
  /\ Goto(p, "save")
  /\ Locals /\ UNCHANGED <<lock, file, work>>

SaveMetadata(p) ==
  /\ pc[p] = "save"
  /\ meta' = Good(data[p])
  /\ lock' = FALSE
  /\ Gone(p)
  /\ UNCHANGED <<file, clock, faults>>

-----------------------------------------------------------------------------
Crash(p) ==
  /\ pc[p] # "off"
  /\ crashes < MaxCrashes /\ crashes' = crashes + 1
  /\ Gone(p)
  /\ UNCHANGED <<disk, clock, failed, setting>>

\* The two remedies the warnings name for a lock that a crash has left.
Abandoned == lock /\ \A p \in Procs : pc[p] = "off"

\* "Please run 'ti cache clean'": clean_offline_cache_files.
TiCacheClean ==
  /\ Abandoned
  /\ lock' = FALSE /\ meta' = None /\ file' = [k \in Keys |-> "none"]
  /\ Locals /\ UNCHANGED <<pc, work>>

\* "You can remove this .lock file manually"
RemoveLock ==
  /\ Abandoned
  /\ lock' = FALSE
  /\ Locals /\ UNCHANGED <<meta, file, pc, work>>

Proceed(p) ==
  \/ TakeLock(p, "start", "load") \/ GiveUp(p, "start", "run") \/ Load(p)
  \/ Finalize(p)
  \/ TakeLock(p, "clean", "check") \/ GiveUp(p, "clean", "dump")
  \/ CleanNothing(p) \/ CleanAll(p) \/ Wiped(p)
  \/ Evict(p) \/ UpdateMetadata(p) \/ Removed(p)
  \/ DumpNothing(p) \/ DumpLocked(p) \/ DumpLock(p)
  \/ Merge(p) \/ OpenMetadata(p) \/ SaveMetadata(p)
  \/ \E k \in Keys : RemoveFile(p, k) \/ OpenFile(p, k) \/ WriteFile(p, k)

Use(p, k) == UseFromMemory(p, k) \/ UseFromDisk(p, k) \/ Compile(p, k)

Terminated == clock = MaxUses /\ (\A p \in Procs : pc[p] = "off") /\ UNCHANGED vars

Next ==
  \/ \E p \in Procs : Start(p) \/ Proceed(p) \/ Crash(p)
  \/ \E p \in Procs, k \in Keys : Use(p, k) \/ WriteFails(p, k)
  \/ TiCacheClean \/ RemoveLock
  \/ Terminated

\* A process runs until it is through with its session.
Spec == Init /\ [][Next]_vars /\ \A p \in Procs : WF_vars(Proceed(p))

-----------------------------------------------------------------------------
\* One process at a time works on the metadata, and while it does the lock file
\* is there.
Holders == {p \in Procs : pc[p] \in {"load", "check", "wipe", "update", "merge",
                                      "files", "save"}}
MutualExclusion == Cardinality(Holders) <= 1 /\ (Holders # {} => lock)

\* The size in the metadata, which decides when to clean, is what the listed
\* files were counted for, whoever dumped, cleaned or crashed in between.
MetaAccounts ==
  meta.state = "good" =>
    Content.size = SumFunction([k \in DOMAIN Content.kernels |-> Content.kernels[k].size])

\* No cleaner evicts what another process may be dumping again.
NoRace == Cardinality(setting.procs) <= 1 \/ setting.policy \in {"never", "version"}

\* A listed kernel's file is there and whole: the next session that looks it up
\* need not compile it.  Unless cleaners race with dumps, that is: they remove
\* the files of evicted kernels after they have unlocked the metadata.
EntriesBacked ==
  NoRace /\ meta.state = "good" =>
    \A k \in DOMAIN Content.kernels : Content.kernels[k].size = 1 => file[k] = "whole"

\* Nobody opens the file of a listed kernel for writing: a process that reads
\* it without the lock never sees half of it.
ListedFilesStable ==
  [][\A k \in Keys :
       meta.state = "good" /\ k \in DOMAIN Content.kernels /\ file[k] = "whole"
         => file'[k] # "torn"]_vars

DumpEnds(p) == pc[p] = "save" /\ meta'.state = "good" /\ ~lock' /\ failed = 0
Stored(p) == \A k \in DOMAIN caching[p] : k \in DOMAIN meta'.data.kernels /\ file'[k] = "whole"

\* "... dumps and saves the compilation cache on disk for future runs"
\* (docs/lang/articles/performance_tuning/performance.md:180): when a dump is
\* through, every kernel its session compiled is listed and has its file.
DumpStores == [][\A p \in Procs : DumpEnds(p) => Stored(p)]_vars

\* The same where cleaners and dumps do not race: cleaning, crashes and wiped
\* metadata alone never make a dump lose a kernel.
DumpStoresUnraced == [][\A p \in Procs : DumpEnds(p) /\ NoRace => Stored(p)]_vars

\* Every session comes to its end, also next to a crashed one that has left the
\* lock: nobody waits for the lock forever.
SessionEnds == \A p \in Procs : pc[p] # "off" ~> pc[p] = "off"
=============================================================================
