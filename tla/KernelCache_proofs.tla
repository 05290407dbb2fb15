------------------------- MODULE KernelCache_proofs -------------------------
(***************************************************************************)
(* What the lock file of the offline kernel cache guarantees, for any      *)
(* number of processes and kernels, however they are configured and        *)
(* wherever they crash.  The first two theorems follow from the inductive  *)
(* invariant IInv:                                                         *)
(*                                                                         *)
(*   OneHolder    two processes are never both between taking the lock     *)
(*                and giving it back,                                      *)
(*   HolderLocks  and while one is, the lock file exists;                  *)
(*   NewOnly      what a dump is still going to write is not listed in     *)
(*                the metadata file.                                       *)
(*                                                                         *)
(* NewOnly is preserved because the metadata changes only in the hands of  *)
(* the lock holder, which is the dumping process itself.  The second part  *)
(* adds what is known of the kernel files (FInv), the third the accounts   *)
(* of their sizes (SInv).                                                  *)
(***************************************************************************)
EXTENDS KernelCache, FiniteSetTheorems, WellFoundedInduction, TLAPS

Labels == {"off", "start", "load", "run", "clean", "check", "wipe", "update",
           "remove", "dump", "merge", "files", "save"}
Locked == {"load", "check", "wipe", "update", "merge", "files", "save"}

Shape ==
  /\ lock \in BOOLEAN
  /\ pc \in [Procs -> Labels]
  /\ DOMAIN todo = Procs
  /\ file \in [Keys -> {"none", "torn", "whole"}]

OneHolder == \A p, q \in Procs : pc[p] \in Locked /\ pc[q] \in Locked => p = q
HolderLocks == \A p \in Procs : pc[p] \in Locked => lock
NewOnly == \A p \in Procs : pc[p] = "files" => todo[p] \cap DOMAIN Content.kernels = {}

IInv == Shape /\ OneHolder /\ HolderLocks /\ NewOnly

\* What a step of one process may do to the others' part of the state.
Mine(p) ==
  /\ pc' = [pc EXCEPT ![p] = pc'[p]] /\ pc'[p] \in Labels
  /\ DOMAIN todo' = Procs /\ \A q \in Procs \ {p} : todo'[q] = todo[q]

\* How the lock changes hands: it is taken when it is free, it is given back
\* by the holder, and a crash leaves it.
Handover(p) ==
  /\ lock' \in BOOLEAN
  /\ pc'[p] \in Locked => pc[p] \in Locked \/ ~lock
  /\ pc'[p] \in Locked => lock'
  /\ lock' # lock => pc[p] \in Locked \/ ~lock

\* Only the holder touches the metadata, and no longer once it writes files.
Custody(p) ==
  /\ meta' # meta => pc[p] \in Locked
  /\ pc'[p] = "files" => todo'[p] \cap DOMAIN meta'.data.kernels = {}

Step(p) == Mine(p) /\ Handover(p) /\ Custody(p)

\* Steps that obey these three rules preserve the invariant.
LEMMA StepKeeps ==
  ASSUME IInv, NEW p \in Procs, Step(p), file' \in [Keys -> {"none", "torn", "whole"}]
  PROVE  IInv'
<1>1. Shape'
  BY DEF IInv, Shape, Step, Mine, Handover
<1>2. \A q \in Procs \ {p} : pc'[q] = pc[q] /\ todo'[q] = todo[q]
  BY DEF IInv, Shape, Step, Mine
<1>3. ASSUME NEW q \in Procs \ {p}, pc[q] \in Locked
      PROVE  lock /\ pc'[p] \notin Locked /\ lock' /\ meta' = meta
  <2>1. lock /\ pc[p] \notin Locked
    BY <1>3 DEF IInv, OneHolder, HolderLocks
  <2> QED
    BY <2>1 DEF Step, Handover, Custody, IInv, Shape
<1>4. OneHolder'
  BY <1>2, <1>3 DEF OneHolder, IInv
<1>5. HolderLocks'
  BY <1>2, <1>3 DEF HolderLocks, Step, Handover
<1>6. NewOnly'
  <2> SUFFICES ASSUME NEW q \in Procs, pc'[q] = "files"
               PROVE  todo'[q] \cap DOMAIN meta'.data.kernels = {}
    BY DEF NewOnly, Content
  <2>1. CASE q = p
    BY <2>1 DEF Step, Custody
  <2>2. CASE q # p
    <3>1. pc[q] = "files" /\ todo'[q] = todo[q]
      BY <2>2, <1>2
    <3>2. meta' = meta
      BY <3>1, <2>2, <1>3 DEF Locked
    <3> QED
      BY <3>1, <3>2 DEF IInv, NewOnly, Content
  <2> QED
    BY <2>1, <2>2
<1> QED
  BY <1>1, <1>4, <1>5, <1>6 DEF IInv

USE DEF Labels, Locked, Goto, Locals, disk, session, work, faults

\* A process that ends or crashes lets go of its memory only.
LEMMA GoneStep ==
  ASSUME IInv, NEW p \in Procs, Gone(p), UNCHANGED meta,
         UNCHANGED lock \/ (lock' = FALSE /\ pc[p] \in Locked)
  PROVE  Step(p)
BY DEF IInv, Shape, Gone, Step, Mine, Handover, Custody

FileType == file' \in [Keys -> {"none", "torn", "whole"}]

\* Every step of a process through its session obeys the rules.
LEMMA ProceedStep ==
  ASSUME IInv, NEW p \in Procs, Proceed(p)
  PROVE  Step(p) /\ FileType
<1> USE DEF IInv, Shape, Step, Mine, Handover, Custody, FileType, Content
<1>1. CASE TakeLock(p, "start", "load") \/ TakeLock(p, "clean", "check") \/ DumpLock(p)
  BY <1>1 DEF TakeLock, DumpLock
<1>2. CASE GiveUp(p, "start", "run") \/ GiveUp(p, "clean", "dump") \/ Finalize(p) \/ Removed(p)
  BY <1>2 DEF GiveUp, Finalize, Removed
<1>3. CASE Load(p)
  BY <1>3 DEF Load
<1>4. CASE CleanNothing(p) \/ Wiped(p)
  BY <1>4 DEF CleanNothing, Wiped
<1>5. CASE CleanAll(p)
  BY <1>5 DEF CleanAll, HolderLocks
<1>6. CASE Evict(p)
  <2>1. PICK ks, d : /\ todo' = [todo EXCEPT ![p] = ks]
                     /\ pc[p] = "check" /\ pc' = [pc EXCEPT ![p] = "update"]
                     /\ lock' = lock /\ file' = file
    BY <1>6 DEF Evict
  <2> QED
    BY <2>1 DEF HolderLocks
<1>7. CASE UpdateMetadata(p)
  BY <1>7 DEF UpdateMetadata
<1>8. CASE DumpNothing(p) \/ DumpLocked(p)
  BY <1>8, GoneStep DEF DumpNothing, DumpLocked
<1>9. CASE Merge(p)
  <2>1. todo'[p] \cap DOMAIN meta'.data.kernels = {}
    BY <1>9 DEF Merge, New
  <2> QED
    BY <1>9, <2>1 DEF Merge, HolderLocks
<1>10. CASE OpenMetadata(p)
  BY <1>10 DEF OpenMetadata, HolderLocks
<1>11. CASE SaveMetadata(p)
  BY <1>11 DEF SaveMetadata, Gone
<1>12. ASSUME NEW k \in Keys, RemoveFile(p, k) \/ OpenFile(p, k) \/ WriteFile(p, k)
       PROVE  Step(p) /\ FileType
  <2>1. CASE RemoveFile(p, k)
    BY <2>1 DEF RemoveFile, HolderLocks
  <2>2. CASE OpenFile(p, k)
    BY <2>2 DEF OpenFile, HolderLocks, NewOnly
  <2>3. CASE WriteFile(p, k)
    <3>1. todo'[p] \subseteq todo[p]
      BY <2>3 DEF WriteFile
    <3> QED
      BY <3>1, <2>3 DEF WriteFile, HolderLocks, NewOnly
  <2> QED
    BY <1>12, <2>1, <2>2, <2>3
<1> QED
  BY <1>1, <1>2, <1>3, <1>4, <1>5, <1>6, <1>7, <1>8, <1>9, <1>10, <1>11, <1>12
  DEF Proceed

\* So do the first step of a session, a crash, a failing write and the uses of
\* a kernel.
LEMMA OtherStep ==
  ASSUME IInv, NEW p \in Procs,
         Start(p) \/ Crash(p) \/ \E k \in Keys : WriteFails(p, k) \/ Use(p, k)
  PROVE  Step(p) /\ FileType
<1> USE DEF IInv, Shape, Step, Mine, Handover, Custody, FileType, Content
<1>1. CASE Start(p)
  BY <1>1 DEF Start
<1>2. CASE Crash(p)
  BY <1>2, GoneStep DEF Crash
<1>3. ASSUME NEW k \in Keys, WriteFails(p, k)
      PROVE  Step(p) /\ FileType
  <2>1. todo'[p] \subseteq todo[p]
    BY <1>3 DEF WriteFails
  <2> QED
    BY <2>1, <1>3 DEF WriteFails, HolderLocks, NewOnly
<1>4. ASSUME NEW k \in Keys, Use(p, k)
      PROVE  Step(p) /\ FileType
  <2>1. UNCHANGED <<lock, meta, file, pc, todo>> /\ pc[p] = "run"
    BY <1>4 DEF Use, UseFromMemory, UseFromDisk, Compile
  <2> QED
    BY <2>1
<1> QED
  BY <1>1, <1>2, <1>3, <1>4

LEMMA Initial == Init => IInv
<1> SUFFICES ASSUME Init
             PROVE  IInv
  OBVIOUS
<1>1. \A p \in Procs : pc[p] = "off"
  BY DEF Init
<1>2. Shape
  BY DEF Init, Shape
<1> QED
  BY <1>1, <1>2 DEF IInv, OneHolder, HolderLocks, NewOnly

\* The invariant is inductive.
LEMMA Inductive == IInv /\ [Next]_vars => IInv'
<1> SUFFICES ASSUME IInv, [Next]_vars
             PROVE  IInv'
  OBVIOUS
<1>1. ASSUME NEW p \in Procs, Proceed(p)
      PROVE  IInv'
  BY <1>1, ProceedStep, StepKeeps DEF FileType
<1>2. ASSUME NEW p \in Procs,
             Start(p) \/ Crash(p) \/ \E k \in Keys : WriteFails(p, k) \/ Use(p, k)
      PROVE  IInv'
  BY <1>2, OtherStep, StepKeeps DEF FileType
<1>3. CASE TiCacheClean \/ RemoveLock
  <2>1. \A p \in Procs : pc[p] = "off"
    BY <1>3 DEF TiCacheClean, RemoveLock, Abandoned
  <2>2. UNCHANGED <<pc, todo>> /\ lock' = FALSE
    BY <1>3 DEF TiCacheClean, RemoveLock
  <2>3. FileType
    BY <1>3 DEF TiCacheClean, RemoveLock, FileType, IInv, Shape
  <2> QED
    BY <2>1, <2>2, <2>3 DEF IInv, Shape, OneHolder, HolderLocks, NewOnly, FileType
<1>4. CASE UNCHANGED vars
  BY <1>4 DEF vars, IInv, Shape, OneHolder, HolderLocks, NewOnly, Content
<1> QED
  BY <1>1, <1>2, <1>3, <1>4 DEF Next, Terminated

LEMMA Invariant == Spec => []IInv
BY Initial, Inductive, PTL DEF Spec

-----------------------------------------------------------------------------
\* One process at a time works on the metadata, and while it does the lock
\* file is there: load, CacheCleaner::run and dump never overlap, whatever
\* crashes and however a lock that was left behind is removed.
THEOREM Mutex == Spec => []MutualExclusion
<1>1. IInv => MutualExclusion
  <2> SUFFICES ASSUME IInv
               PROVE  MutualExclusion
    OBVIOUS
  <2>1. CASE Holders = {}
    BY <2>1, FS_EmptySet DEF MutualExclusion
  <2>2. CASE Holders # {}
    <3>1. PICK p \in Procs : pc[p] \in Locked /\ p \in Holders
      BY <2>2 DEF Holders
    <3>2. Holders = {p}
      BY <3>1 DEF Holders, IInv, OneHolder
    <3>3. Cardinality(Holders) = 1
      BY <3>2, FS_Singleton
    <3> QED
      BY <3>1, <3>3 DEF MutualExclusion, IInv, HolderLocks
  <2> QED
    BY <2>1, <2>2
<1> QED
  BY <1>1, Invariant, PTL

\* No step of any process opens the whole file of a listed kernel for writing,
\* so a session that reads it without the lock never sees half of it: dump
\* writes only what the metadata does not list, and the metadata cannot come
\* to list it before the dump has given the lock back.
THEOREM FilesStable == Spec => ListedFilesStable
<1>1. IInv /\ [Next]_vars =>
        [\A k \in Keys :
           meta.state = "good" /\ k \in DOMAIN Content.kernels /\ file[k] = "whole"
             => file'[k] # "torn"]_vars
  <2> SUFFICES ASSUME IInv, Next, NEW k \in Keys, k \in DOMAIN Content.kernels,
                      file[k] = "whole"
               PROVE  file'[k] # "torn"
    OBVIOUS
  <2>1. ASSUME NEW p \in Procs, NEW j \in Keys, OpenFile(p, j)
        PROVE  file'[k] # "torn"
    <3>1. j # k
      BY <2>1 DEF OpenFile, IInv, NewOnly
    <3> QED
      BY <3>1, <2>1 DEF OpenFile, IInv, Shape
  <2>2. ASSUME NEW p \in Procs, NEW j \in Keys, RemoveFile(p, j) \/ WriteFile(p, j)
        PROVE  file'[k] # "torn"
    BY <2>2 DEF RemoveFile, WriteFile, IInv, Shape
  <2>3. CASE TiCacheClean
    BY <2>3 DEF TiCacheClean
  <2>4. ASSUME NEW p \in Procs, Proceed(p),
               \A j \in Keys : ~(RemoveFile(p, j) \/ OpenFile(p, j) \/ WriteFile(p, j))
        PROVE  file' = file
    BY <2>4 DEF Proceed, TakeLock, GiveUp, Load, Finalize, CleanNothing, CleanAll, Wiped,
       Evict, UpdateMetadata, Removed, DumpNothing, DumpLocked, DumpLock, Merge,
       OpenMetadata, SaveMetadata
  <2>5. ASSUME NEW p \in Procs, NEW j \in Keys, Use(p, j) \/ WriteFails(p, j)
        PROVE  file' = file
    BY <2>5 DEF Use, UseFromMemory, UseFromDisk, Compile, WriteFails
  <2>6. ASSUME NEW p \in Procs, Start(p) \/ Crash(p)
        PROVE  file' = file
    BY <2>6 DEF Start, Crash
  <2>7. CASE RemoveLock \/ Terminated
    BY <2>7 DEF RemoveLock, Terminated, vars
  <2> QED
    BY <2>1, <2>2, <2>3, <2>4, <2>5, <2>6, <2>7 DEF Next
<1> QED
  BY <1>1, Invariant, PTL DEF Spec, ListedFilesStable

-----------------------------------------------------------------------------
(***************************************************************************)
(* The metadata of the offline kernel cache and the kernel files agree, as *)
(* long as cleaners do not race with dumps: a session that looks a listed  *)
(* kernel up finds its file, and a dump stores all its session compiled.   *)
(*                                                                         *)
(* Files and metadata never change in one step, so that the invariant      *)
(* carries what the lock holder knows from one to the other (Own, Backs):  *)
(* what a dump has counted is whole and what it has still to write is      *)
(* neither listed nor counted, and what a cleaner removes is listed        *)
(* neither in the file nor in the data it is about to save.                *)
(***************************************************************************)

Entry(e) == e = [used |-> e.used, created |-> e.created, size |-> e.size] /\ e.size \in {0, 1}

Meta ==
  /\ meta.state # "good" => DOMAIN Content.kernels = {}
  /\ \A k \in DOMAIN Content.kernels : Entry(Content.kernels[k])

MetaBacked ==
  \A k \in DOMAIN Content.kernels :
    /\ Content.kernels[k].size = 1 => file[k] = "whole"
    /\ failed = 0 => Content.kernels[k].size = 1

Own(p) ==
  /\ pc[p] # "off" => p \in setting.procs
  /\ pc[p] \in {"update", "remove"} => setting.policy \notin {"never", "version"}
  /\ pc[p] = "wipe" => DOMAIN Content.kernels = {}
  /\ pc[p] \in {"update", "files", "save"} =>
       /\ data[p] = [size |-> data[p].size, kernels |-> data[p].kernels]
       /\ \A k \in DOMAIN data[p].kernels : Entry(data[p].kernels[k])
  /\ pc[p] \in {"files", "save"} => DOMAIN caching[p] \subseteq DOMAIN data[p].kernels
  /\ pc[p] # "files" => open[p] = {}
  /\ pc[p] = "files" =>
       /\ todo[p] \subseteq DOMAIN data[p].kernels /\ open[p] \subseteq todo[p]
       /\ \A k \in todo[p] : data[p].kernels[k].size = 0

Backs(p) ==
  /\ pc[p] \in {"update", "files", "save"} =>
       \A k \in DOMAIN data[p].kernels :
         /\ data[p].kernels[k].size = 1 => file[k] = "whole"
         /\ failed = 0 /\ ~(pc[p] = "files" /\ k \in todo[p]) => data[p].kernels[k].size = 1
  /\ pc[p] = "update" => todo[p] \cap DOMAIN data[p].kernels = {}
  /\ pc[p] = "remove" => todo[p] \cap DOMAIN Content.kernels = {}
  /\ pc[p] = "files" => \A k \in open[p] : file[k] = "torn"

Domains ==
  /\ DOMAIN data = Procs /\ DOMAIN open = Procs /\ DOMAIN caching = Procs
  /\ failed \in Nat /\ setting \in Settings

FInv ==
  /\ IInv /\ Domains /\ Meta
  /\ \A p \in Procs : Own(p)
  /\ NoRace => MetaBacked /\ \A p \in Procs : Backs(p)

-----------------------------------------------------------------------------
\* A process that evicts is alone if there is no race.
LEMMA Alone ==
  ASSUME FInv, NoRace, NEW p \in Procs, NEW q \in Procs, pc[p] # "off", pc[q] # "off",
         setting.policy \notin {"never", "version"}
  PROVE  p = q
<1>1. p \in setting.procs /\ q \in setting.procs /\ setting.procs \subseteq Procs
  BY CacheAssumption DEF FInv, Own, Domains
<1>2. IsFiniteSet(setting.procs) /\ Cardinality(setting.procs) <= 1
  BY <1>1, CacheAssumption, FS_Subset DEF NoRace
<1>3. ASSUME p # q
      PROVE  FALSE
  <2>1. IsFiniteSet({p}) /\ Cardinality({p}) = 1
    BY FS_Singleton
  <2>2. Cardinality({p} \cup {q}) = 2 /\ IsFiniteSet({p} \cup {q})
    BY <1>3, <2>1, FS_AddElement
  <2>3. Cardinality({p} \cup {q}) <= Cardinality(setting.procs)
    BY <1>1, <1>2, FS_Subset
  <2> QED BY <1>2, <2>2, <2>3, FS_CardinalityType
<1> QED BY <1>3

\* What a step of process p leaves alone.
Frame(p) ==
  /\ setting' = setting /\ failed' \in Nat /\ (failed' = 0 => failed = 0)
  /\ DOMAIN data' = Procs /\ DOMAIN open' = Procs /\ DOMAIN caching' = Procs
  /\ \A q \in Procs \ {p} : data'[q] = data[q] /\ open'[q] = open[q] /\ caching'[q] = caching[q]
  /\ file' = file \/ pc[p] \in {"wipe", "remove", "files"}

\* The other processes' knowledge survives a step of p.
LEMMA OthersKeep ==
  ASSUME FInv, NEW p \in Procs, Step(p), Frame(p), NEW q \in Procs \ {p}
  PROVE  Own(q)' /\ (NoRace' => Backs(q)')
<1>1. /\ pc'[q] = pc[q] /\ todo'[q] = todo[q] /\ data'[q] = data[q] /\ open'[q] = open[q]
      /\ caching'[q] = caching[q] /\ setting' = setting
  BY DEF FInv, IInv, Shape, Step, Mine, Frame
<1>2. pc[q] \in Locked => meta' = meta /\ pc[p] \notin Locked
  BY DEF FInv, IInv, OneHolder, Step, Custody
<1>3. Own(q)'
  BY <1>1, <1>2 DEF FInv, Own, Content, Locked
<1>4. ASSUME NoRace
      PROVE  Backs(q)'
  <2>1. pc[q] = "remove" => meta' = meta
    <3> SUFFICES ASSUME pc[q] = "remove", meta' # meta
                 PROVE  FALSE
      OBVIOUS
    <3>1. pc[p] # "off" /\ pc[q] # "off"
      BY DEF Step, Custody, Locked
    <3>2. setting.policy \notin {"never", "version"}
      BY DEF FInv, Own
    <3> QED BY <1>4, <3>1, <3>2, Alone
  <2>2. pc[q] \in Locked => file' = file
    <3> SUFFICES ASSUME pc[q] \in Locked, file' # file
                 PROVE  FALSE
      OBVIOUS
    <3>1. pc[p] = "remove" /\ pc[q] # "off"
      BY <1>2 DEF Frame, Locked
    <3>2. setting.policy \notin {"never", "version"}
      BY <3>1 DEF FInv, Own
    <3> QED BY <1>4, <3>1, <3>2, Alone
  <2>3. failed' = 0 => failed = 0
    BY DEF Frame
  <2>4. Backs(q)
    BY <1>4 DEF FInv
  <2> QED BY <1>1, <1>2, <2>1, <2>2, <2>3, <2>4 DEF Backs, Content, Locked
<1> QED BY <1>1, <1>3, <1>4 DEF NoRace

\* What remains to be shown of a step of process p.
LEMMA StepFiles ==
  ASSUME FInv, NEW p \in Procs, Step(p), Frame(p), IInv', Own(p)', Meta',
         NoRace => MetaBacked' /\ Backs(p)'
  PROVE  FInv'
<1>1. NoRace' = NoRace
  BY DEF NoRace, Frame
<1>2. \A q \in Procs : Own(q)' /\ (NoRace' => Backs(q)')
  BY <1>1, OthersKeep
<1>3. Domains'
  BY DEF Domains, Frame, FInv
<1> QED BY <1>1, <1>2, <1>3 DEF FInv

\* A step that leaves files and metadata alone and after which the process
\* knows nothing of them.
Plain(p) ==
  /\ UNCHANGED <<meta, file, failed, setting>>
  /\ pc'[p] \notin {"wipe", "update", "remove", "files", "save"}
  /\ pc'[p] # "off" => pc[p] # "off" \/ p \in setting.procs
  /\ open'[p] = {} \/ (open'[p] = open[p] /\ pc[p] # "files")

LEMMA PlainKeeps ==
  ASSUME FInv, NEW p \in Procs, Plain(p), Frame(p)
  PROVE  Own(p)' /\ Meta' /\ (NoRace => MetaBacked' /\ Backs(p)')
<1>1. Own(p)'
  BY DEF Own, Plain, FInv
<1>2. Meta'
  BY DEF Meta, Plain, Content, FInv, Entry
<1>3. NoRace => MetaBacked' /\ Backs(p)'
  BY DEF MetaBacked, Backs, Plain, Content, FInv
<1> QED BY <1>1, <1>2, <1>3

LEMMA GoneFrame ==
  ASSUME FInv, NEW p \in Procs, Gone(p), UNCHANGED <<file, failed, setting>>
  PROVE  Frame(p) /\ pc'[p] = "off" /\ open'[p] = {}
BY DEF FInv, IInv, Shape, Domains, Gone, Frame

\* The steps of a session that touch neither files nor metadata.
LEMMA PlainStep ==
  ASSUME FInv, NEW p \in Procs,
         \/ TakeLock(p, "start", "load") \/ GiveUp(p, "start", "run") \/ Load(p) \/ Finalize(p)
         \/ TakeLock(p, "clean", "check") \/ GiveUp(p, "clean", "dump")
         \/ CleanNothing(p) \/ Wiped(p) \/ Removed(p)
         \/ DumpNothing(p) \/ DumpLocked(p) \/ DumpLock(p) \/ Start(p) \/ Crash(p)
         \/ \E k \in Keys : Use(p, k)
  PROVE  Frame(p) /\ Plain(p)
<1> USE DEF FInv, IInv, Shape, Domains, Frame, Plain
<1>1. CASE TakeLock(p, "start", "load") \/ TakeLock(p, "clean", "check") \/ DumpLock(p)
  BY <1>1 DEF TakeLock, DumpLock
<1>2. CASE GiveUp(p, "start", "run") \/ GiveUp(p, "clean", "dump") \/ Finalize(p) \/ Removed(p)
  BY <1>2 DEF GiveUp, Finalize, Removed
<1>3. CASE Load(p) \/ CleanNothing(p) \/ Wiped(p)
  BY <1>3 DEF Load, CleanNothing, Wiped
<1>4. CASE DumpNothing(p) \/ DumpLocked(p) \/ Crash(p)
  BY <1>4, GoneFrame DEF DumpNothing, DumpLocked, Crash
<1>5. CASE Start(p)
  BY <1>5 DEF Start
<1>6. ASSUME NEW k \in Keys, Use(p, k)
      PROVE  Frame(p) /\ Plain(p)
  <2>1. UNCHANGED <<disk, faults, pc, data, todo, open>> /\ pc[p] = "run"
    BY <1>6 DEF Use, UseFromMemory, UseFromDisk, Compile
  <2>2. DOMAIN caching' = Procs /\ \A q \in Procs \ {p} : caching'[q] = caching[q]
    BY <1>6 DEF Use, UseFromMemory, UseFromDisk, Compile
  <2> QED BY <2>1, <2>2
<1> QED BY <1>1, <1>2, <1>3, <1>4, <1>5, <1>6

-----------------------------------------------------------------------------
(* The steps of the cleaner and of dump.                                   *)

LEMMA CleanAllFiles ==
  ASSUME FInv, NEW p \in Procs, CleanAll(p)
  PROVE  Frame(p) /\ Own(p)' /\ Meta' /\ (NoRace => MetaBacked' /\ Backs(p)')
<1>1. /\ meta' = None /\ pc' = [pc EXCEPT ![p] = "wipe"] /\ pc[p] = "check"
      /\ UNCHANGED <<file, failed, setting, data, open, caching>>
  BY DEF CleanAll
<1>2. pc'[p] = "wipe" /\ DOMAIN meta'.data.kernels = {}
  BY <1>1 DEF FInv, IInv, Shape, None, NoData, NoKernels
<1>3. Frame(p)
  BY <1>1 DEF Frame, FInv, Domains
<1>4. Own(p)'
  BY <1>1, <1>2 DEF Own, FInv, Content
<1>5. Meta' /\ MetaBacked' /\ Backs(p)'
  BY <1>2 DEF Meta, MetaBacked, Backs, Content
<1> QED BY <1>3, <1>4, <1>5

LEMMA EvictFiles ==
  ASSUME FInv, NEW p \in Procs, Evict(p)
  PROVE  Frame(p) /\ Own(p)' /\ Meta' /\ (NoRace => MetaBacked' /\ Backs(p)')
<1>1. PICK ks \in Victims(Content) \ {{}} :
        /\ todo' = [todo EXCEPT ![p] = ks]
        /\ data' = [data EXCEPT ![p] = Without(Content, ks)]
        /\ meta' = IF ks = DOMAIN Content.kernels THEN meta ELSE Torn
  BY DEF Evict
<1>2. /\ pc[p] = "check" /\ pc' = [pc EXCEPT ![p] = "update"]
      /\ UNCHANGED <<file, failed, setting, open, caching>>
  BY DEF Evict
<1>3. setting.policy \notin {"never", "version"}
  <2>1. ASSUME setting.policy \in {"never", "version"}
        PROVE  Victims(Content) = {{}}
    BY <2>1 DEF Victims, Oldest
  <2> QED BY <2>1
<1> DEFINE d == Without(Content, ks)
<1>4. /\ pc'[p] = "update" /\ todo'[p] = ks /\ data'[p] = d
      /\ DOMAIN data' = Procs /\ \A q \in Procs \ {p} : data'[q] = data[q]
  BY <1>1, <1>2 DEF FInv, IInv, Shape, Domains
<1>5. /\ d = [size |-> d.size, kernels |-> d.kernels]
      /\ d.kernels = Restrict(Content.kernels, DOMAIN Content.kernels \ ks)
  BY Zenon DEF Without
<1> HIDE DEF d
<1>6. /\ DOMAIN d.kernels = DOMAIN Content.kernels \ ks
      /\ \A k \in DOMAIN d.kernels : d.kernels[k] = Content.kernels[k]
  BY <1>5 DEF Restrict
<1>7. Frame(p)
  BY <1>2, <1>4 DEF Frame, FInv, Domains
<1>8. Own(p)'
  <2>1. \A k \in DOMAIN d.kernels : Entry(d.kernels[k])
    BY <1>6 DEF FInv, Meta
  <2>2. p \in setting.procs /\ open[p] = {}
    BY <1>2 DEF FInv, Own
  <2> QED BY <1>2, <1>3, <1>4, <1>5, <2>1, <2>2 DEF Own, Entry
<1>9. meta' = meta \/ (meta'.state = "torn" /\ DOMAIN meta'.data.kernels = {})
  BY <1>1 DEF Torn, NoData, NoKernels
<1>10. Meta'
  BY <1>9 DEF Meta, FInv, Content, Entry
<1>11. NoRace => MetaBacked' /\ Backs(p)'
  BY <1>2, <1>4, <1>6, <1>9 DEF MetaBacked, Backs, FInv, Content
<1> QED BY <1>7, <1>8, <1>10, <1>11

LEMMA UpdateMetadataFiles ==
  ASSUME FInv, NEW p \in Procs, UpdateMetadata(p)
  PROVE  Frame(p) /\ Own(p)' /\ Meta' /\ (NoRace => MetaBacked' /\ Backs(p)')
<1>1. /\ pc[p] = "update" /\ pc' = [pc EXCEPT ![p] = "remove"]
      /\ meta' = IF DOMAIN data[p].kernels = {} THEN None ELSE Good(data[p])
      /\ data' = [data EXCEPT ![p] = NoData]
      /\ UNCHANGED <<file, failed, setting, todo, open, caching>>
  BY DEF UpdateMetadata
<1>2. pc'[p] = "remove"
  BY <1>1 DEF FInv, IInv, Shape
<1>3. \/ DOMAIN meta'.data.kernels = {}
      \/ meta'.state = "good" /\ meta'.data = data[p]
  BY <1>1 DEF None, Good, NoData, NoKernels
<1>4. Frame(p)
  BY <1>1 DEF Frame, FInv, Domains
<1>5. Own(p)'
  BY <1>1, <1>2 DEF Own, FInv
<1>6. Meta'
  <2>1. \A k \in DOMAIN data[p].kernels : Entry(data[p].kernels[k])
    BY <1>1 DEF FInv, Own
  <2>2. \A k \in DOMAIN meta'.data.kernels : Entry(meta'.data.kernels[k])
    BY <1>3, <2>1
  <2>3. meta'.state # "good" => DOMAIN meta'.data.kernels = {}
    BY <1>3
  <2> QED BY <2>2, <2>3 DEF Meta, Content, Entry
<1>7. NoRace => MetaBacked' /\ Backs(p)'
  BY <1>1, <1>2, <1>3 DEF MetaBacked, Backs, FInv, Content
<1> QED BY <1>4, <1>5, <1>6, <1>7

LEMMA RemoveFileFiles ==
  ASSUME FInv, NEW p \in Procs, NEW k \in Keys, RemoveFile(p, k)
  PROVE  Frame(p) /\ Own(p)' /\ Meta' /\ (NoRace => MetaBacked' /\ Backs(p)')
<1>1. /\ pc[p] \in {"wipe", "remove"} /\ k \in todo[p] /\ pc' = pc
      /\ file' = [file EXCEPT ![k] = "none"] /\ todo' = [todo EXCEPT ![p] = @ \ {k}]
      /\ UNCHANGED <<meta, failed, setting, data, open, caching>>
  BY DEF RemoveFile
<1>2. \A j : j # k => file'[j] = file[j]
  BY <1>1 DEF FInv, IInv, Shape
<1>3. todo'[p] \subseteq todo[p]
  BY <1>1 DEF FInv, IInv, Shape
<1>4. Frame(p)
  BY <1>1 DEF Frame, FInv, Domains
<1>5. Own(p)' /\ Meta'
  BY <1>1 DEF Own, Meta, FInv, Content, Entry
<1>6. ASSUME NoRace
      PROVE  MetaBacked' /\ Backs(p)'
  <2>1. k \notin DOMAIN Content.kernels
    BY <1>1, <1>6 DEF FInv, Own, Backs
  <2>2. MetaBacked'
    BY <1>1, <1>2, <1>6, <2>1 DEF MetaBacked, FInv, Content
  <2>3. Backs(p)'
    BY <1>1, <1>3, <1>6 DEF Backs, FInv, Content
  <2> QED BY <2>2, <2>3
<1> QED BY <1>4, <1>5, <1>6

\* After a merge every listed kernel has its entry as it was, but for its
\* times, and what is to be written has size 0.
LEMMA MergeFiles ==
  ASSUME FInv, NEW p \in Procs, Merge(p)
  PROVE  Frame(p) /\ Own(p)' /\ Meta' /\ (NoRace => MetaBacked' /\ Backs(p)')
<1> DEFINE merged == Merged(p)
<1>1. /\ pc[p] = "merge" /\ pc' = [pc EXCEPT ![p] = "files"]
      /\ data' = [data EXCEPT ![p] = [size |-> Content.size, kernels |-> merged]]
      /\ todo' = [todo EXCEPT ![p] = New(p)]
      /\ UNCHANGED <<meta, file, failed, setting, open, caching>>
  BY DEF Merge
<1>2. /\ pc'[p] = "files" /\ todo'[p] = New(p) /\ DOMAIN data' = Procs
      /\ data'[p] = [size |-> Content.size, kernels |-> merged]
      /\ \A q \in Procs \ {p} : data'[q] = data[q]
  BY <1>1 DEF FInv, IInv, Shape, Domains
<1>3. DOMAIN merged = DOMAIN Content.kernels \cup New(p)
  BY DEF Merged
<1>4. ASSUME NEW k \in New(p)
      PROVE  merged[k] = [used |-> caching[p][k], created |-> caching[p][k], size |-> 0]
  BY <1>4 DEF Merged
<1>5. ASSUME NEW k \in DOMAIN Content.kernels
      PROVE  k \notin New(p) /\ Entry(merged[k]) /\ merged[k].size = Content.kernels[k].size
  <2> DEFINE e == Content.kernels[k]
             u == cached[p][k].used
  <2>1. k \notin New(p)
    BY DEF New
  <2>2. e = [used |-> e.used, created |-> e.created, size |-> e.size] /\ e.size \in {0, 1}
    BY DEF FInv, Meta, Entry
  <2>3. merged[k] = [e EXCEPT !.used = u] \/ merged[k] = e
    BY <2>1 DEF Merged
  <2> HIDE DEF e, u, merged
  <2>4. merged[k] = [used |-> u, created |-> e.created, size |-> e.size] \/ merged[k] = e
    BY <2>2, <2>3
  <2>5. Entry(merged[k]) /\ merged[k].size = e.size
    BY <2>2, <2>4 DEF Entry
  <2> QED BY <2>1, <2>5 DEF e
<1> HIDE DEF merged
<1>6. ASSUME NEW k \in New(p)
      PROVE  Entry(merged[k]) /\ merged[k].size = 0
  <2> DEFINE u == caching[p][k]
  <2>1. merged[k] = [used |-> u, created |-> u, size |-> 0]
    BY <1>4
  <2> HIDE DEF u
  <2> QED BY <2>1 DEF Entry
<1>7. Frame(p)
  BY <1>1, <1>2 DEF Frame, FInv, Domains
<1>8. open[p] = {}
  BY <1>1 DEF FInv, Own
<1>9. Own(p)'
  <2>1. \A k \in DOMAIN merged : Entry(merged[k])
    BY <1>3, <1>5, <1>6
  <2>2. DOMAIN caching[p] \subseteq DOMAIN merged
    BY <1>3 DEF New
  <2>3. p \in setting.procs
    BY <1>1 DEF FInv, Own
  <2> QED BY <1>1, <1>2, <1>3, <1>6, <1>8, <2>1, <2>2, <2>3 DEF Own, Entry
<1>10. Meta'
  BY <1>1 DEF Meta, FInv, Content, Entry
<1>11. NoRace => MetaBacked' /\ Backs(p)'
  <2> SUFFICES ASSUME NoRace
               PROVE  MetaBacked' /\ Backs(p)'
    OBVIOUS
  <2>1. MetaBacked
    BY DEF FInv
  <2>2. MetaBacked'
    BY <1>1, <2>1 DEF MetaBacked, Content
  <2>3. ASSUME NEW k \in DOMAIN merged
        PROVE  /\ merged[k].size = 1 => file[k] = "whole"
               /\ failed = 0 /\ k \notin New(p) => merged[k].size = 1
    BY <1>3, <1>5, <1>6, <2>1 DEF MetaBacked
  <2> QED BY <1>1, <1>2, <1>8, <2>2, <2>3 DEF Backs
<1> QED BY <1>7, <1>9, <1>10, <1>11

-----------------------------------------------------------------------------
(* The writing of the kernel files and of the metadata.                    *)

LEMMA OpenFileFiles ==
  ASSUME FInv, NEW p \in Procs, NEW k \in Keys, OpenFile(p, k)
  PROVE  Frame(p) /\ Own(p)' /\ Meta' /\ (NoRace => MetaBacked' /\ Backs(p)')
<1>1. /\ pc[p] = "files" /\ pc' = pc /\ k \in todo[p]
      /\ file' = [file EXCEPT ![k] = "torn"] /\ open' = [open EXCEPT ![p] = {k}]
      /\ UNCHANGED <<meta, failed, setting, data, todo, caching>>
  BY DEF OpenFile
<1>2. file'[k] = "torn" /\ \A j : j # k => file'[j] = file[j]
  BY <1>1 DEF FInv, IInv, Shape
<1>3. open'[p] = {k} /\ DOMAIN open' = Procs /\ \A q \in Procs \ {p} : open'[q] = open[q]
  BY <1>1 DEF FInv, Domains
<1>4. Frame(p)
  BY <1>1, <1>3 DEF Frame, FInv, Domains
<1>5. Own(p)' /\ Meta'
  BY <1>1, <1>3 DEF Own, Meta, FInv, Content, Entry
<1>6. ASSUME NoRace
      PROVE  MetaBacked' /\ Backs(p)'
  <2>1. k \notin DOMAIN Content.kernels
    BY <1>1 DEF FInv, IInv, NewOnly
  <2>2. MetaBacked'
    BY <1>1, <1>2, <1>6, <2>1 DEF MetaBacked, FInv, Content
  <2>3. data[p].kernels[k].size = 0
    BY <1>1 DEF FInv, Own
  <2>4. Backs(p)'
    BY <1>1, <1>2, <1>3, <1>6, <2>3 DEF Backs, FInv
  <2> QED BY <2>2, <2>4
<1> QED BY <1>4, <1>5, <1>6

\* What writing a kernel file makes of the entry and of the size.
LEMMA Written ==
  ASSUME FInv, NEW p \in Procs, NEW k \in Keys, WriteFile(p, k)
  PROVE  /\ k \in todo[p] /\ todo[p] \subseteq DOMAIN data[p].kernels
         /\ data[p].kernels[k].size = 0
         /\ DOMAIN data' = Procs /\ \A q \in Procs \ {p} : data'[q] = data[q]
         /\ data'[p] = [size |-> data'[p].size, kernels |-> data'[p].kernels]
         /\ data'[p].size = data[p].size + 1
         /\ DOMAIN data'[p].kernels = DOMAIN data[p].kernels
         /\ Entry(data'[p].kernels[k]) /\ data'[p].kernels[k].size = 1
         /\ \A j \in DOMAIN data[p].kernels \ {k} : data'[p].kernels[j] = data[p].kernels[j]
<1> DEFINE d == data[p]
           e == data[p].kernels[k]
<1>1. /\ pc[p] = "files" /\ k \in open[p]
      /\ data' = [data EXCEPT ![p].kernels[k].size = 1, ![p].size = @ + 1]
  BY DEF WriteFile
<1>2. /\ k \in todo[p] /\ todo[p] \subseteq DOMAIN d.kernels /\ e.size = 0
      /\ d = [size |-> d.size, kernels |-> d.kernels]
      /\ e = [used |-> e.used, created |-> e.created, size |-> e.size]
  BY <1>1 DEF FInv, Own, Entry
<1>3. /\ DOMAIN data' = Procs /\ \A q \in Procs \ {p} : data'[q] = data[q]
      /\ data'[p] = [size |-> d.size + 1,
                     kernels |-> [d.kernels EXCEPT ![k] = [used |-> e.used, created |-> e.created,
                                                          size |-> 1]]]
  <2>1. DOMAIN data' = Procs /\ \A q \in Procs \ {p} : data'[q] = data[q]
    BY <1>1 DEF FInv, Domains
  <2>2. data'[p] = [[d EXCEPT !.kernels[k].size = 1] EXCEPT !.size = @ + 1]
    BY <1>1 DEF FInv, Domains
  <2>3. [e EXCEPT !.size = 1] = [used |-> e.used, created |-> e.created, size |-> 1]
    BY <1>2
  <2>4. [d EXCEPT !.kernels[k].size = 1]
          = [size |-> d.size, kernels |-> [d.kernels EXCEPT ![k] = [e EXCEPT !.size = 1]]]
    BY <1>2
  <2> HIDE DEF d, e
  <2>5. ASSUME NEW n, NEW ks
        PROVE  [[size |-> n, kernels |-> ks] EXCEPT !.size = @ + 1]
                 = [size |-> n + 1, kernels |-> ks]
    OBVIOUS
  <2>6. [d EXCEPT !.kernels[k].size = 1]
          = [size |-> d.size,
             kernels |-> [d.kernels EXCEPT ![k] = [used |-> e.used, created |-> e.created,
                                                  size |-> 1]]]
    BY <2>3, <2>4, Zenon
  <2> QED BY <2>1, <2>2, <2>5, <2>6, Zenon
<1>4. /\ DOMAIN data'[p].kernels = DOMAIN d.kernels
      /\ data'[p].kernels[k] = [used |-> e.used, created |-> e.created, size |-> 1]
      /\ data'[p].size = d.size + 1
      /\ \A j \in DOMAIN d.kernels \ {k} : data'[p].kernels[j] = d.kernels[j]
      /\ data'[p] = [size |-> data'[p].size, kernels |-> data'[p].kernels]
  BY <1>2, <1>3
<1>5. Entry(data'[p].kernels[k]) /\ data'[p].kernels[k].size = 1
  BY <1>4 DEF Entry
<1> QED BY <1>2, <1>3, <1>4, <1>5

LEMMA WriteFileFiles ==
  ASSUME FInv, NEW p \in Procs, NEW k \in Keys, WriteFile(p, k)
  PROVE  Frame(p) /\ Own(p)' /\ Meta' /\ (NoRace => MetaBacked' /\ Backs(p)')
<1> DEFINE d == data[p]
<1>1. /\ pc[p] = "files" /\ pc' = pc /\ k \in open[p]
      /\ file' = [file EXCEPT ![k] = IF @ = "torn" THEN "whole" ELSE @]
      /\ open' = [open EXCEPT ![p] = {}] /\ todo' = [todo EXCEPT ![p] = @ \ {k}]
      /\ UNCHANGED <<meta, failed, setting, caching>>
  BY DEF WriteFile
<1>2. k \in todo[p] /\ todo[p] \subseteq DOMAIN d.kernels
  BY Written
<1>3. DOMAIN data' = Procs /\ \A q \in Procs \ {p} : data'[q] = data[q]
  BY Written
<1>4. /\ DOMAIN data'[p].kernels = DOMAIN d.kernels
      /\ Entry(data'[p].kernels[k]) /\ data'[p].kernels[k].size = 1
      /\ \A j \in DOMAIN d.kernels \ {k} : data'[p].kernels[j] = d.kernels[j]
      /\ data'[p] = [size |-> data'[p].size, kernels |-> data'[p].kernels]
  BY Written
<1>5. todo'[p] = todo[p] \ {k} /\ open'[p] = {}
      /\ DOMAIN open' = Procs /\ \A q \in Procs \ {p} : open'[q] = open[q]
  BY <1>1 DEF FInv, IInv, Shape, Domains
<1>6. /\ \A j : j # k => file'[j] = file[j]
      /\ file[k] = "torn" => file'[k] = "whole"
  BY <1>1 DEF FInv, IInv, Shape
<1>7. Frame(p)
  BY <1>1, <1>3, <1>5 DEF Frame, FInv, Domains
<1>8. Own(p)
  BY DEF FInv
<1>9. Entry(data'[p].kernels[k])
  BY <1>4
<1>10. Own(p)'
  <2>1. \A j \in DOMAIN data'[p].kernels : Entry(data'[p].kernels[j])
    BY <1>1, <1>4, <1>8, <1>9 DEF Own
  <2>2. \A j \in todo'[p] : data'[p].kernels[j].size = 0
    <3> SUFFICES ASSUME NEW j \in todo'[p]
                 PROVE  data'[p].kernels[j].size = 0
      OBVIOUS
    <3>1. j \in todo[p] /\ j # k /\ j \in DOMAIN d.kernels
      BY <1>2, <1>5
    <3>2. d.kernels[j].size = 0
      BY <1>1, <1>8, <3>1 DEF Own
    <3> QED BY <1>4, <3>1, <3>2
  <2> QED BY <1>1, <1>4, <1>5, <1>8, <2>1, <2>2 DEF Own, Entry
<1>11. Meta'
  BY <1>1 DEF Meta, FInv, Content, Entry
<1>12. ASSUME NoRace
       PROVE  MetaBacked' /\ Backs(p)'
  <2>1. MetaBacked /\ Backs(p)
    BY <1>12 DEF FInv
  <2>2. k \notin DOMAIN Content.kernels
    BY <1>1, <1>2 DEF FInv, IInv, NewOnly
  <2>3. MetaBacked'
    BY <1>1, <1>6, <2>1, <2>2 DEF MetaBacked, Content
  <2>4. file'[k] = "whole" /\ data'[p].kernels[k].size = 1
    BY <1>1, <1>4, <1>6, <2>1 DEF Backs
  <2>5. ASSUME NEW j \in DOMAIN data'[p].kernels
        PROVE  /\ data'[p].kernels[j].size = 1 => file'[j] = "whole"
               /\ failed = 0 /\ j \notin todo'[p] => data'[p].kernels[j].size = 1
    <3>1. CASE j = k
      BY <2>4, <3>1
    <3>2. CASE j # k
      <4>1. j \in DOMAIN d.kernels /\ data'[p].kernels[j] = d.kernels[j] /\ file'[j] = file[j]
            /\ (j \notin todo'[p] => j \notin todo[p])
        BY <1>4, <1>5, <1>6, <3>2
      <4>2. /\ d.kernels[j].size = 1 => file[j] = "whole"
            /\ failed = 0 /\ j \notin todo[p] => d.kernels[j].size = 1
        BY <1>1, <2>1, <4>1 DEF Backs
      <4> QED BY <4>1, <4>2
    <3> QED BY <3>1, <3>2
  <2>6. Backs(p)'
    BY <1>1, <1>5, <2>5 DEF Backs
  <2> QED BY <2>3, <2>6
<1> QED BY <1>7, <1>10, <1>11, <1>12

LEMMA WriteFailsFiles ==
  ASSUME FInv, NEW p \in Procs, NEW k \in Keys, WriteFails(p, k)
  PROVE  Frame(p) /\ Own(p)' /\ Meta' /\ (NoRace => MetaBacked' /\ Backs(p)')
<1>1. /\ pc[p] = "files" /\ pc' = pc /\ k \in open[p] /\ failed' = failed + 1
      /\ open' = [open EXCEPT ![p] = {}] /\ todo' = [todo EXCEPT ![p] = @ \ {k}]
      /\ UNCHANGED <<meta, file, setting, data, caching>>
  BY DEF WriteFails
<1>2. failed' \in Nat /\ failed' # 0
  BY <1>1 DEF FInv, Domains
<1>3. todo'[p] = todo[p] \ {k} /\ open'[p] = {}
      /\ DOMAIN open' = Procs /\ \A q \in Procs \ {p} : open'[q] = open[q]
  BY <1>1 DEF FInv, IInv, Shape, Domains
<1>4. Frame(p)
  BY <1>1, <1>2, <1>3 DEF Frame, FInv, Domains
<1>5. Own(p)' /\ Meta'
  BY <1>1, <1>3 DEF Own, Meta, FInv, Content, Entry
<1>6. NoRace => MetaBacked' /\ Backs(p)'
  BY <1>1, <1>2, <1>3 DEF MetaBacked, Backs, FInv, Content
<1> QED BY <1>4, <1>5, <1>6

LEMMA OpenMetadataFiles ==
  ASSUME FInv, NEW p \in Procs, OpenMetadata(p)
  PROVE  Frame(p) /\ Own(p)' /\ Meta' /\ (NoRace => MetaBacked' /\ Backs(p)')
<1>1. /\ pc[p] = "files" /\ todo[p] = {} /\ meta' = Torn /\ pc' = [pc EXCEPT ![p] = "save"]
      /\ UNCHANGED <<file, failed, setting, data, todo, open, caching>>
  BY DEF OpenMetadata
<1>2. pc'[p] = "save" /\ meta'.state = "torn" /\ DOMAIN meta'.data.kernels = {}
  BY <1>1 DEF FInv, IInv, Shape, Torn, NoData, NoKernels
<1>3. Frame(p)
  BY <1>1 DEF Frame, FInv, Domains
<1>4. Own(p)'
  <2>1. Own(p)
    BY DEF FInv
  <2>2. open[p] = {}
    BY <1>1, <2>1 DEF Own
  <2> QED BY <1>1, <1>2, <2>1, <2>2 DEF Own, Entry
<1>5. Meta' /\ MetaBacked'
  BY <1>2 DEF Meta, MetaBacked, Content
<1>6. NoRace => Backs(p)'
  BY <1>1, <1>2 DEF Backs, FInv
<1> QED BY <1>3, <1>4, <1>5, <1>6

LEMMA SaveMetadataFiles ==
  ASSUME FInv, NEW p \in Procs, SaveMetadata(p)
  PROVE  Frame(p) /\ Own(p)' /\ Meta' /\ (NoRace => MetaBacked' /\ Backs(p)')
<1>1. /\ pc[p] = "save" /\ meta' = Good(data[p]) /\ UNCHANGED <<file, failed, setting>>
      /\ Gone(p)
  BY DEF SaveMetadata
<1>2. Frame(p) /\ pc'[p] = "off" /\ open'[p] = {}
  BY <1>1, GoneFrame
<1>3. meta'.state = "good" /\ meta'.data = data[p]
  BY <1>1 DEF Good
<1>4. Own(p)'
  BY <1>2 DEF Own
<1>5. Meta'
  <2>1. \A k \in DOMAIN data[p].kernels : Entry(data[p].kernels[k])
    BY <1>1 DEF FInv, Own
  <2> QED BY <1>3, <2>1 DEF Meta, Content, Entry
<1>6. NoRace => MetaBacked' /\ Backs(p)'
  BY <1>1, <1>2, <1>3 DEF MetaBacked, Backs, FInv, Content
<1> QED BY <1>2, <1>4, <1>5, <1>6

-----------------------------------------------------------------------------
\* The remedies for an abandoned lock, with no process there.
LEMMA RemedyFiles ==
  ASSUME FInv, TiCacheClean \/ RemoveLock, IInv'
  PROVE  FInv'
<1>1. /\ \A p \in Procs : pc[p] = "off"
      /\ UNCHANGED <<failed, setting, pc, data, open, todo, caching>>
  BY DEF TiCacheClean, RemoveLock, Abandoned
<1>2. (meta' = meta /\ file' = file) \/ DOMAIN meta'.data.kernels = {}
  BY DEF TiCacheClean, RemoveLock, None, NoData, NoKernels
<1>3. Domains' /\ NoRace' = NoRace
  BY <1>1 DEF FInv, Domains, NoRace
<1>4. Meta' /\ (NoRace => MetaBacked')
  BY <1>1, <1>2 DEF FInv, Meta, MetaBacked, Content, Entry
<1>5. ASSUME NEW p \in Procs
      PROVE  Own(p)' /\ (NoRace => Backs(p)')
  <2>1. pc'[p] = "off" /\ open'[p] = {}
    BY <1>1 DEF FInv, Own
  <2> QED BY <2>1 DEF Own, Backs
<1> QED BY <1>3, <1>4, <1>5 DEF FInv

LEMMA InitialFiles == Init => FInv
<1> SUFFICES ASSUME Init
             PROVE  FInv
  OBVIOUS
<1>1. DOMAIN Content.kernels = {}
  BY DEF Init, Content, None, NoData, NoKernels
<1>2. Domains
  BY DEF Init, Domains
<1>3. ASSUME NEW p \in Procs
      PROVE  Own(p) /\ Backs(p)
  <2>1. pc[p] = "off" /\ open[p] = {}
    BY DEF Init
  <2> QED BY <2>1 DEF Own, Backs
<1> QED BY <1>1, <1>2, <1>3, Initial DEF FInv, Meta, MetaBacked

\* What every step of a process does to files and metadata.
LEMMA ProcessFiles ==
  ASSUME FInv, NEW p \in Procs,
         \/ Start(p) \/ Proceed(p) \/ Crash(p)
         \/ \E k \in Keys : Use(p, k) \/ WriteFails(p, k)
  PROVE  /\ Step(p) /\ Frame(p)
         /\ Own(p)' /\ Meta' /\ (NoRace => MetaBacked' /\ Backs(p)')
<1>1. Step(p)
  BY ProceedStep, OtherStep DEF FInv
<1>2. CASE CleanAll(p) \/ Evict(p) \/ UpdateMetadata(p) \/ Merge(p) \/ OpenMetadata(p)
           \/ SaveMetadata(p)
  BY <1>1, <1>2, CleanAllFiles, EvictFiles, UpdateMetadataFiles, MergeFiles,
     OpenMetadataFiles, SaveMetadataFiles
<1>3. CASE \E k \in Keys : RemoveFile(p, k) \/ OpenFile(p, k) \/ WriteFile(p, k) \/ WriteFails(p, k)
  BY <1>1, <1>3, RemoveFileFiles, OpenFileFiles, WriteFileFiles, WriteFailsFiles
<1>4. CASE \/ TakeLock(p, "start", "load") \/ GiveUp(p, "start", "run") \/ Load(p) \/ Finalize(p)
           \/ TakeLock(p, "clean", "check") \/ GiveUp(p, "clean", "dump")
           \/ CleanNothing(p) \/ Wiped(p) \/ Removed(p)
           \/ DumpNothing(p) \/ DumpLocked(p) \/ DumpLock(p) \/ Start(p) \/ Crash(p)
           \/ \E k \in Keys : Use(p, k)
  <2>1. Frame(p) /\ Plain(p)
    BY <1>4, PlainStep
  <2> QED BY <1>1, <2>1, PlainKeeps
<1> QED BY <1>2, <1>3, <1>4 DEF Proceed

LEMMA InductiveFiles == FInv /\ [Next]_vars => FInv'
<1> SUFFICES ASSUME FInv, [Next]_vars
             PROVE  FInv'
  OBVIOUS
<1>1. IInv /\ IInv'
  BY Inductive DEF FInv
<1>2. CASE UNCHANGED vars
  BY <1>1, <1>2 DEF FInv, Domains, Meta, MetaBacked, Own, Backs, Content, Entry, NoRace, vars
<1>3. ASSUME NEW p \in Procs,
             \/ Start(p) \/ Proceed(p) \/ Crash(p)
             \/ \E k \in Keys : Use(p, k) \/ WriteFails(p, k)
      PROVE  FInv'
  BY <1>1, <1>3, ProcessFiles, StepFiles
<1>4. CASE TiCacheClean \/ RemoveLock
  BY <1>1, <1>4, RemedyFiles
<1> QED BY <1>2, <1>3, <1>4 DEF Next, Terminated

LEMMA InvariantFiles == Spec => []FInv
<1> QED BY InitialFiles, InductiveFiles, PTL DEF Spec

-----------------------------------------------------------------------------
\* As long as cleaners do not race with dumps, a kernel that the metadata lists
\* with its size has its file, and the file is whole: the session that looks it
\* up (load_or_compile) need not compile it.
THEOREM ListedAreThere == Spec => []EntriesBacked
<1>1. FInv => EntriesBacked
  BY DEF FInv, MetaBacked, EntriesBacked
<1> QED BY <1>1, InvariantFiles, PTL

\* Without such a race a dump that comes to its end with no write failed has
\* stored every kernel its session compiled.
THEOREM DumpsStore == Spec => DumpStoresUnraced
<1>1. ASSUME FInv, [Next]_vars, NEW p \in Procs, DumpEnds(p), NoRace
      PROVE  Stored(p)
  <2>1. SaveMetadata(p)
    <3>1. pc[p] \in Locked /\ lock /\ ~lock'
      BY <1>1 DEF DumpEnds, FInv, IInv, HolderLocks
    <3>2. \A q \in Procs \ {p} : pc[q] \notin Locked
      BY <1>1, <3>1 DEF FInv, IInv, OneHolder
    <3>3. PICK q \in Procs : Start(q) \/ Proceed(q) \/ Crash(q)
                            \/ \E k \in Keys : Use(q, k) \/ WriteFails(q, k)
      BY <1>1, <3>1 DEF Next, Terminated, TiCacheClean, RemoveLock, Abandoned, vars
    <3>4. Step(q)
      BY <1>1, <3>3, ProceedStep, OtherStep DEF FInv
    <3>5. q = p
      BY <3>1, <3>2, <3>4 DEF Step, Handover
    <3>6. ~Start(p) /\ ~Crash(p) /\ \A k \in Keys : ~Use(p, k) /\ ~WriteFails(p, k)
      BY <1>1, <3>1 DEF DumpEnds, Start, Crash, WriteFails, Use, UseFromMemory, UseFromDisk, Compile
    <3>7. Proceed(p) /\ pc[p] = "save"
      BY <1>1, <3>3, <3>5, <3>6 DEF DumpEnds
    <3> QED BY <3>7 DEF Proceed, TakeLock, GiveUp, Load, Finalize, CleanNothing, CleanAll, Wiped,
          Evict, UpdateMetadata, Removed, DumpNothing, DumpLocked, DumpLock, Merge, OpenMetadata,
          RemoveFile, OpenFile, WriteFile
  <2>2. /\ meta' = Good(data[p]) /\ file' = file /\ pc[p] = "save" /\ failed = 0
    BY <1>1, <2>1 DEF SaveMetadata, DumpEnds
  <2>3. meta'.data = data[p]
    BY <2>2 DEF Good
  <2> QED BY <1>1, <2>2, <2>3 DEF Stored, FInv, Own, Backs
<1>2. FInv /\ [Next]_vars => [\A p \in Procs : DumpEnds(p) /\ NoRace => Stored(p)]_vars
  BY <1>1
<1> QED BY <1>2, InvariantFiles, PTL DEF Spec, DumpStoresUnraced

-----------------------------------------------------------------------------
(***************************************************************************)
(* The size in the metadata counts the kernels whose files were written.   *)
(*                                                                         *)
(* An entry has size 0 or 1, so that the sum of the sizes is the number of *)
(* entries of size 1 (SumOfOnes), and what is left is to count: the        *)
(* content of the metadata file and what the holder of the lock makes of   *)
(* it both hold their accounts (Sound).                                    *)
(***************************************************************************)

\* A set of naturals that is not empty has a least element.
LEMMA Least ==
  ASSUME NEW T, T \subseteq Nat, T # {}
  PROVE  \E n \in T : \A m \in T : ~(m < n)
<1> DEFINE R == {ss \in Nat \X Nat : ss[1] < ss[2]}
<1>1. OpToRel(<, Nat) = R
  BY DEF OpToRel
<1>2. IsWellFoundedOn(R, Nat)
  BY <1>1, NatLessThanWellFounded
<1> HIDE DEF R
<1>3. \E n \in T : \A m \in T : ~(<<m, n>> \in R)
  BY <1>2, WFMin
<1>4. \A m, n \in Nat : m < n => <<m, n>> \in R
  BY DEF R
<1> QED BY <1>3, <1>4

First(s) == CHOOSE k \in s : TRUE

\* f[s] is what the folding of h over s comes to, for every s within D.
Folds(f, D, h) ==
  f = [s \in SUBSET D |-> IF s = {} THEN 0 ELSE h[First(s)] + f[s \ {First(s)}]]

Ones(h, s) == {k \in s : h[k] = 1}

\* Counting is a folding, and there is no other.
LEMMA CountFolds ==
  ASSUME NEW D, IsFiniteSet(D), NEW h, \A k \in D : h[k] \in {0, 1}
  PROVE  Folds([s \in SUBSET D |-> Cardinality(Ones(h, s))], D, h)
<1> DEFINE count == [s \in SUBSET D |-> Cardinality(Ones(h, s))]
<1>1. ASSUME NEW s \in SUBSET D
      PROVE  count[s] = IF s = {} THEN 0 ELSE h[First(s)] + count[s \ {First(s)}]
  <2>1. CASE s = {}
    BY <2>1, FS_EmptySet DEF Ones
  <2>2. CASE s # {}
    <3> DEFINE k == First(s)
    <3>1. k \in s /\ h[k] \in {0, 1}
      BY <2>2 DEF First
    <3> HIDE DEF k
    <3>2. IsFiniteSet(Ones(h, s)) /\ Cardinality(Ones(h, s)) \in Nat
      BY FS_Subset, FS_CardinalityType DEF Ones
    <3>3. Ones(h, s \ {k}) = Ones(h, s) \ {k}
      BY DEF Ones
    <3>4. Cardinality(Ones(h, s) \ {k})
            = IF k \in Ones(h, s) THEN Cardinality(Ones(h, s)) - 1 ELSE Cardinality(Ones(h, s))
      BY <3>2, FS_RemoveElement
    <3>5. Cardinality(Ones(h, s)) = h[k] + Cardinality(Ones(h, s \ {k}))
      <4>1. k \in Ones(h, s) <=> h[k] = 1
        BY <3>1 DEF Ones
      <4>2. Cardinality(Ones(h, s \ {k})) = Cardinality(Ones(h, s) \ {k})
        BY <3>3
      <4> DEFINE n == Cardinality(Ones(h, s))
                 m == Cardinality(Ones(h, s \ {k}))
      <4>3. n \in Nat /\ m = IF k \in Ones(h, s) THEN n - 1 ELSE n
        BY <3>2, <3>4, <4>2
      <4> HIDE DEF n, m
      <4>4. n = h[k] + m
        BY <3>1, <4>1, <4>3
      <4> QED BY <4>4 DEF n, m
    <3> QED BY <2>2, <3>5 DEF k
  <2> QED BY <2>1, <2>2
<1> DEFINE again == [s \in SUBSET D |-> IF s = {} THEN 0 ELSE h[First(s)] + count[s \ {First(s)}]]
<1>2. count = [s \in SUBSET D |-> count[s]]
  OBVIOUS
<1>3. again = [s \in SUBSET D |-> again[s]] /\ \A s \in SUBSET D : again[s] = count[s]
  BY <1>1
<1>4. count = again
  <2> HIDE DEF count, again
  <2> QED BY <1>2, <1>3
<1> QED BY <1>4 DEF Folds

LEMMA OneFolding ==
  ASSUME NEW D, IsFiniteSet(D), NEW h, NEW f, NEW g, Folds(f, D, h), Folds(g, D, h)
  PROVE  f[D] = g[D]
<1> DEFINE Apart == {s \in SUBSET D : f[s] # g[s]}
<1>1. ASSUME Apart # {}
      PROVE  FALSE
  <2>1. \A s \in SUBSET D : IsFiniteSet(s) /\ Cardinality(s) \in Nat
    BY FS_Subset, FS_CardinalityType
  <2>2. PICK s \in Apart : \A r \in Apart : ~(Cardinality(r) < Cardinality(s))
    <3> DEFINE T == {Cardinality(s) : s \in Apart}
    <3>1. T \subseteq Nat /\ T # {}
      BY <1>1, <2>1
    <3>2. PICK n \in T : \A m \in T : ~(m < n)
      BY <3>1, Least
    <3> QED BY <3>2
  <2>3. s # {}
    BY <2>2 DEF Folds
  <2> DEFINE r == s \ {First(s)}
  <2>4. First(s) \in s
    BY <2>3 DEF First
  <2>5. r \in SUBSET D /\ Cardinality(r) < Cardinality(s)
    BY <2>1, <2>2, <2>4, FS_RemoveElement
  <2>6. f[r] = g[r]
    BY <2>2, <2>5
  <2>7. f[s] = h[First(s)] + f[r] /\ g[s] = h[First(s)] + g[r]
    BY <2>2, <2>3 DEF Folds
  <2> QED BY <2>2, <2>6, <2>7
<1> QED BY <1>1

LEMMA SumOfOnes ==
  ASSUME NEW D, IsFiniteSet(D), NEW h, \A k \in D : h[k] \in {0, 1}
  PROVE  SumFunctionOnSet(h, D) = Cardinality(Ones(h, D))
<1> DEFINE f == CHOOSE f : Folds(f, D, h)
           count == [s \in SUBSET D |-> Cardinality(Ones(h, s))]
<1>1. Folds(f, D, h) /\ Folds(count, D, h)
  <2>1. Folds(count, D, h)
    BY CountFolds
  <2> HIDE DEF count
  <2> QED BY <2>1
<1>2. SumFunctionOnSet(h, D) = f[D]
  BY DEF SumFunctionOnSet, FoldFunctionOnSet, MapThenFoldSet, First, Folds
<1>3. count[D] = Cardinality(Ones(h, D))
  OBVIOUS
<1> HIDE DEF f, count
<1> QED BY <1>1, <1>2, <1>3, OneFolding

-----------------------------------------------------------------------------
Counted(ks) == {k \in DOMAIN ks : ks[k].size = 1}

\* The kernels are known ones, and the size is the number of those written.
Sound(d) == DOMAIN d.kernels \subseteq Keys /\ d.size = Cardinality(Counted(d.kernels))

Booked(p) ==
  /\ DOMAIN caching[p] \subseteq Keys
  /\ pc[p] \in {"update", "files", "save"} => Sound(data[p])

SInv == FInv /\ Sound(Content) /\ \A p \in Procs : Booked(p)

\* What was counted is finite, with or without what is not.
LEMMA CountedFinite ==
  ASSUME NEW ks, DOMAIN ks \subseteq Keys
  PROVE  IsFiniteSet(DOMAIN ks) /\ IsFiniteSet(Counted(ks)) /\ Cardinality(Counted(ks)) \in Nat
<1>1. IsFiniteSet(DOMAIN ks)
  BY CacheAssumption, FS_Subset
<1>2. Counted(ks) \in SUBSET DOMAIN ks
  BY DEF Counted
<1> QED BY <1>1, <1>2, FS_Subset, FS_CardinalityType

LEMMA NothingSound ==
  ASSUME NEW d, d.size = 0, DOMAIN d.kernels = {}
  PROVE  Sound(d)
<1>1. Counted(d.kernels) = {}
  BY DEF Counted
<1> QED BY <1>1, FS_EmptySet DEF Sound

\* A step of p that leaves it with a sound content to work on, or with none.
LEMMA StepSound ==
  ASSUME SInv, NEW p \in Procs, Step(p), Frame(p), FInv', Sound(meta'.data),
         DOMAIN caching'[p] \subseteq Keys,
         pc'[p] \in {"update", "files", "save"} => Sound(data'[p])
  PROVE  SInv'
<1>1. \A q \in Procs \ {p} : pc'[q] = pc[q] /\ data'[q] = data[q] /\ caching'[q] = caching[q]
  BY DEF SInv, FInv, IInv, Shape, Step, Mine, Frame
<1>2. Sound(Content)'
  BY DEF Sound, Content, Counted
<1>3. ASSUME NEW q \in Procs
      PROVE  Booked(q)'
  <2>1. CASE q = p
    BY <2>1 DEF Booked, Sound, Counted
  <2>2. CASE q # p
    <3>1. pc'[q] = pc[q] /\ data'[q] = data[q] /\ caching'[q] = caching[q]
      BY <1>1, <2>2
    <3>2. Booked(q)
      BY DEF SInv
    <3> QED BY <3>1, <3>2 DEF Booked, Sound, Counted
  <2> QED BY <2>1, <2>2
<1> QED BY <1>2, <1>3 DEF SInv

-----------------------------------------------------------------------------
\* What is left of a sound content when kernels are evicted is sound.
LEMMA WithoutSound ==
  ASSUME NEW d, Sound(d), NEW ks \in SUBSET DOMAIN d.kernels,
         \A k \in DOMAIN d.kernels : d.kernels[k].size \in {0, 1}
  PROVE  Sound(Without(d, ks))
<1> DEFINE h == [k \in DOMAIN d.kernels |-> d.kernels[k].size]
           rest == Restrict(d.kernels, DOMAIN d.kernels \ ks)
<1>1. IsFiniteSet(DOMAIN d.kernels) /\ IsFiniteSet(Counted(d.kernels))
      /\ Cardinality(Counted(d.kernels)) \in Nat
  BY CountedFinite DEF Sound
<1>2. SumFunctionOnSet(h, ks) = Cardinality(Counted(d.kernels) \cap ks)
  <2>1. IsFiniteSet(ks) /\ \A k \in ks : h[k] \in {0, 1}
    BY <1>1, FS_Subset
  <2>2. Ones(h, ks) = Counted(d.kernels) \cap ks
    BY DEF Ones, Counted
  <2> HIDE DEF h
  <2> QED BY <2>1, <2>2, SumOfOnes
<1>3. Counted(rest) = Counted(d.kernels) \ ks
  BY DEF Counted, Restrict
<1>4. Cardinality(Counted(d.kernels) \ ks)
        = Cardinality(Counted(d.kernels)) - Cardinality(Counted(d.kernels) \cap ks)
  BY <1>1, FS_Difference
<1>5. /\ Without(d, ks).size = d.size - SumFunctionOnSet(h, ks)
      /\ Without(d, ks).kernels = rest
  BY Zenon DEF Without
<1>6. DOMAIN rest \subseteq Keys
  BY DEF Sound, Restrict
<1> HIDE DEF h, rest
<1> QED BY <1>2, <1>3, <1>4, <1>5, <1>6 DEF Sound

\* A kernel more is written and counted.
LEMMA WrittenSound ==
  ASSUME NEW d, NEW c, Sound(d), NEW k \in DOMAIN d.kernels, d.kernels[k].size = 0,
         c.size = d.size + 1, DOMAIN c.kernels = DOMAIN d.kernels, c.kernels[k].size = 1,
         \A j \in DOMAIN d.kernels \ {k} : c.kernels[j] = d.kernels[j]
  PROVE  Sound(c)
<1>1. IsFiniteSet(Counted(d.kernels)) /\ Cardinality(Counted(d.kernels)) \in Nat
  BY CountedFinite DEF Sound
<1>2. Counted(c.kernels) = Counted(d.kernels) \cup {k} /\ k \notin Counted(d.kernels)
  BY DEF Counted
<1>3. Cardinality(Counted(d.kernels) \cup {k}) = Cardinality(Counted(d.kernels)) + 1
  BY <1>1, <1>2, FS_AddElement
<1> QED BY <1>2, <1>3 DEF Sound

\* A merge adds kernels that are not counted, and changes no size.
LEMMA MergeSound ==
  ASSUME SInv, NEW p \in Procs
  PROVE  Sound([size |-> Content.size, kernels |-> Merged(p)])
<1> DEFINE merged == Merged(p)
<1>1. DOMAIN merged = DOMAIN Content.kernels \cup New(p)
  BY DEF Merged
<1>2. ASSUME NEW k \in New(p)
      PROVE  merged[k].size = 0
  BY <1>2 DEF Merged
<1>3. ASSUME NEW k \in DOMAIN Content.kernels
      PROVE  merged[k].size = Content.kernels[k].size
  <2> DEFINE e == Content.kernels[k]
             u == cached[p][k].used
  <2>1. e = [used |-> e.used, created |-> e.created, size |-> e.size]
    BY DEF SInv, FInv, Meta, Entry
  <2>2. merged[k] = [e EXCEPT !.used = u] \/ merged[k] = e
    BY DEF Merged, New
  <2> HIDE DEF e, u, merged
  <2>3. [e EXCEPT !.used = u].size = e.size
    BY <2>1
  <2> QED BY <2>2, <2>3 DEF e
<1>4. DOMAIN merged \subseteq Keys
  BY <1>1 DEF SInv, Booked, Sound, New
<1> HIDE DEF merged
<1>5. Counted(merged) = Counted(Content.kernels)
  BY <1>1, <1>2, <1>3 DEF Counted, New
<1> DEFINE d == [size |-> Content.size, kernels |-> merged]
<1>6. d.size = Content.size /\ d.kernels = merged
  OBVIOUS
<1>7. Content.size = Cardinality(Counted(Content.kernels))
  BY DEF SInv, Sound
<1> HIDE DEF d
<1>8. Sound(d)
  BY <1>4, <1>5, <1>6, <1>7 DEF Sound
<1> QED BY <1>8 DEF d, merged

-----------------------------------------------------------------------------
\* Every step of a process keeps the accounts.
LEMMA ProcessSound ==
  ASSUME SInv, NEW p \in Procs,
         \/ Start(p) \/ Proceed(p) \/ Crash(p)
         \/ \E k \in Keys : Use(p, k) \/ WriteFails(p, k)
  PROVE  SInv'
<1>1. /\ Booked(p) /\ Sound(Content) /\ FInv /\ Domains /\ pc \in [Procs -> Labels]
      /\ \A k \in DOMAIN Content.kernels : Content.kernels[k].size \in {0, 1}
  BY DEF SInv, FInv, IInv, Shape, Meta, Entry
<1>2. Sound(None.data) /\ Sound(Torn.data)
  BY NothingSound DEF None, Torn, NoData, NoKernels
<1> SUFFICES ASSUME Step(p), Frame(p), FInv'
             PROVE  SInv'
  BY ProcessFiles, InductiveFiles DEF SInv, Next
<1> SUFFICES /\ Sound(meta'.data) /\ DOMAIN caching'[p] \subseteq Keys
             /\ pc'[p] \in {"update", "files", "save"} => Sound(data'[p])
  BY StepSound
<1>3. ASSUME UNCHANGED <<meta, caching>>, pc'[p] \notin {"update", "files", "save"}
      PROVE  /\ Sound(meta'.data) /\ DOMAIN caching'[p] \subseteq Keys
             /\ pc'[p] \in {"update", "files", "save"} => Sound(data'[p])
  BY <1>1, <1>3 DEF Booked, Content
<1>4. ASSUME Gone(p), meta' = meta
      PROVE  /\ Sound(meta'.data) /\ DOMAIN caching'[p] \subseteq Keys
             /\ pc'[p] \in {"update", "files", "save"} => Sound(data'[p])
  BY <1>1, <1>4 DEF Gone, Domains, Content
<1>5. CASE TakeLock(p, "start", "load") \/ TakeLock(p, "clean", "check") \/ DumpLock(p)
           \/ GiveUp(p, "start", "run") \/ GiveUp(p, "clean", "dump")
  BY <1>1, <1>3, <1>5 DEF TakeLock, DumpLock, GiveUp
<1>6. CASE Load(p) \/ Finalize(p) \/ CleanNothing(p) \/ Wiped(p) \/ Removed(p) \/ Start(p)
  BY <1>1, <1>3, <1>6 DEF Load, Finalize, CleanNothing, Wiped, Removed, Start
<1>7. CASE DumpNothing(p) \/ DumpLocked(p) \/ Crash(p)
  BY <1>4, <1>7 DEF DumpNothing, DumpLocked, Crash
<1>8. CASE CleanAll(p)
  BY <1>1, <1>2, <1>8 DEF CleanAll, Booked
<1>9. CASE Evict(p)
  <2>1. PICK ks \in Victims(Content) \ {{}} :
          /\ data' = [data EXCEPT ![p] = Without(Content, ks)]
          /\ meta' = IF ks = DOMAIN Content.kernels THEN meta ELSE Torn
    BY <1>9 DEF Evict
  <2>2. ks \in SUBSET DOMAIN Content.kernels
    BY <2>1 DEF Victims, Oldest, kSubset
  <2>3. Sound(Without(Content, ks))
    BY <1>1, <2>2, WithoutSound
  <2>4. data'[p] = Without(Content, ks)
    BY <1>1, <2>1 DEF Domains
  <2>5. Sound(meta'.data) /\ caching' = caching
    BY <1>1, <1>2, <1>9, <2>1 DEF Evict, Content
  <2> QED BY <1>1, <2>3, <2>4, <2>5 DEF Booked
<1>10. CASE UpdateMetadata(p)
  <2>1. Sound(Good(data[p]).data)
    BY <1>1, <1>10 DEF UpdateMetadata, Booked, Good
  <2> QED BY <1>1, <1>2, <1>10, <2>1 DEF UpdateMetadata, Booked
<1>11. CASE Merge(p)
  <2>1. data'[p] = [size |-> Content.size, kernels |-> Merged(p)]
    BY <1>1, <1>11 DEF Merge, Domains
  <2>2. UNCHANGED <<meta, caching>>
    BY <1>11 DEF Merge
  <2> QED BY <1>1, <2>1, <2>2, MergeSound DEF Booked, Content
<1>12. CASE OpenMetadata(p)
  BY <1>1, <1>2, <1>12 DEF OpenMetadata, Booked
<1>13. CASE SaveMetadata(p)
  <2>1. Sound(Good(data[p]).data)
    BY <1>1, <1>13 DEF SaveMetadata, Booked, Good
  <2> QED BY <1>1, <1>13, <2>1 DEF SaveMetadata, Gone, Domains
<1>14. ASSUME NEW k \in Keys, RemoveFile(p, k) \/ OpenFile(p, k) \/ WriteFails(p, k)
       PROVE  /\ Sound(meta'.data) /\ DOMAIN caching'[p] \subseteq Keys
              /\ pc'[p] \in {"update", "files", "save"} => Sound(data'[p])
  BY <1>1, <1>14 DEF RemoveFile, OpenFile, WriteFails, Booked, Content
<1>15. ASSUME NEW k \in Keys, WriteFile(p, k)
       PROVE  /\ Sound(meta'.data) /\ DOMAIN caching'[p] \subseteq Keys
              /\ pc'[p] \in {"update", "files", "save"} => Sound(data'[p])
  <2>1. /\ data'[p].size = data[p].size + 1
        /\ DOMAIN data'[p].kernels = DOMAIN data[p].kernels
        /\ data'[p].kernels[k].size = 1
        /\ \A j \in DOMAIN data[p].kernels \ {k} : data'[p].kernels[j] = data[p].kernels[j]
        /\ k \in DOMAIN data[p].kernels /\ data[p].kernels[k].size = 0
    BY <1>1, <1>15, Written DEF SInv
  <2>2. UNCHANGED <<pc, meta, caching>> /\ pc[p] = "files"
    BY <1>15 DEF WriteFile
  <2>3. Sound(data[p])
    BY <1>1, <2>2 DEF Booked
  <2>4. Sound(data'[p])
    BY <2>1, <2>3, WrittenSound
  <2> QED BY <1>1, <2>2, <2>4 DEF Booked, Content
<1>16. ASSUME NEW k \in Keys, Use(p, k)
       PROVE  /\ Sound(meta'.data) /\ DOMAIN caching'[p] \subseteq Keys
              /\ pc'[p] \in {"update", "files", "save"} => Sound(data'[p])
  <2>1. meta' = meta /\ pc' = pc /\ pc[p] = "run"
    BY <1>16 DEF Use, UseFromMemory, UseFromDisk, Compile
  <2>2. DOMAIN caching'[p] \subseteq DOMAIN caching[p] \cup {k}
    BY <1>1, <1>16 DEF Use, UseFromMemory, UseFromDisk, Compile, Domains
  <2> QED BY <1>1, <2>1, <2>2 DEF Booked, Content
<1> QED
  BY <1>5, <1>6, <1>7, <1>8, <1>9, <1>10, <1>11, <1>12, <1>13, <1>14, <1>15, <1>16 DEF Proceed

LEMMA InductiveSound == SInv /\ [Next]_vars => SInv'
<1> SUFFICES ASSUME SInv, [Next]_vars
             PROVE  SInv'
  OBVIOUS
<1>1. FInv'
  BY InductiveFiles DEF SInv
<1>2. ASSUME NEW p \in Procs,
             \/ Start(p) \/ Proceed(p) \/ Crash(p)
             \/ \E k \in Keys : Use(p, k) \/ WriteFails(p, k)
      PROVE  SInv'
  BY <1>2, ProcessSound
<1>3. CASE TiCacheClean \/ RemoveLock \/ UNCHANGED vars
  <2>1. UNCHANGED <<pc, data, caching>>
    BY <1>3 DEF TiCacheClean, RemoveLock, vars
  <2>2. meta' = meta \/ meta' = None
    BY <1>3 DEF TiCacheClean, RemoveLock, vars
  <2>3. Sound(None.data)
    BY NothingSound DEF None, NoData, NoKernels
  <2>4. Sound(meta'.data)
    BY <2>2, <2>3 DEF SInv, Content
  <2> QED BY <1>1, <2>1, <2>4 DEF SInv, Booked, Content, Sound, Counted
<1> QED BY <1>2, <1>3 DEF Next, Terminated

LEMMA InitialSound == Init => SInv
<1> SUFFICES ASSUME Init
             PROVE  SInv
  OBVIOUS
<1>1. Sound(Content)
  BY NothingSound DEF Init, Content, None, NoData, NoKernels
<1>2. ASSUME NEW p \in Procs
      PROVE  Booked(p)
  <2>1. pc[p] = "off" /\ caching[p] = <<>>
    BY DEF Init
  <2>2. DOMAIN caching[p] = {}
    BY <2>1
  <2> QED BY <2>1, <2>2 DEF Booked
<1> QED BY <1>1, <1>2, InitialFiles DEF SInv

-----------------------------------------------------------------------------
\* The size in the metadata is the sum of the sizes of the kernels it lists,
\* whoever dumped or cleaned at the same time, whichever write failed and
\* wherever a process crashed: CacheCleaner, which compares that size with
\* offline_cache_max_size_of_files, never decides from a count that has drifted.
THEOREM SizeIsCounted == Spec => []MetaAccounts
<1>1. SInv => MetaAccounts
  <2> SUFFICES ASSUME SInv
               PROVE  MetaAccounts
    OBVIOUS
  <2> DEFINE D == DOMAIN Content.kernels
             h == [k \in D |-> Content.kernels[k].size]
  <2>1. IsFiniteSet(D)
    BY CountedFinite DEF SInv, Sound
  <2>2. \A k \in D : h[k] \in {0, 1}
    BY DEF SInv, FInv, Meta, Entry
  <2>3. Ones(h, D) = Counted(Content.kernels)
    BY DEF Ones, Counted
  <2>4. DOMAIN h = D
    OBVIOUS
  <2> HIDE DEF h, D
  <2>5. SumFunction(h) = Cardinality(Counted(Content.kernels))
    BY <2>1, <2>2, <2>3, <2>4, SumOfOnes DEF SumFunction
  <2> QED BY <2>5 DEF SInv, Sound, MetaAccounts, h, D
<1>2. Spec => []SInv
  BY InitialSound, InductiveSound, PTL DEF Spec
<1> QED BY <1>1, <1>2, PTL
=============================================================================
