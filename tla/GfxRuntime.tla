---------------------------- MODULE GfxRuntime -----------------------------
(***************************************************************************)
(* The runtime of the graphics backends (src/taichi/runtime/gfx) with the  *)
(* objects of a Program that live in device memory: ndarrays, argument     *)
(* packs and the root buffers of fields.  launch_kernel records into       *)
(* current_cmdlist_, which is submitted only when the host needs a result, *)
(* when it is older than two milliseconds, or by flush and synchronize;    *)
(* meanwhile Python goes on, reads and writes elements, and drops objects. *)
(*                                                                         *)
(* `backend' tells apart what the devices do with a list: Vulkan queues    *)
(* it, runs it later and keeps its buffers alive; OpenGL runs it when it   *)
(* is submitted and knows buffers by name only.                            *)
(*                                                                         *)
(* Abstracted: the content of an object is one value; a kernel loads one   *)
(* object, or its arguments, and stores what it loaded plus one to another *)
(* (all of it).  Memory that nobody holds has no content.  Staging buffers *)
(* live within one step; one thread uses the Program.                      *)
(***************************************************************************)
EXTENDS Naturals, Sequences, SequencesExt

CONSTANTS
  Ids,                    \* buffers of the device
  Arrays, Packs, Fields,  \* names of the Program's objects
  None,
  N,                      \* values are 0 .. N - 1
  WritersSync,  \* whether ti.sync() comes before an element is written
  MaxPending    \* bound on the commands that have not run

Objects == Arrays \cup Packs \cup Fields
Values == 0 .. N - 1
Garbage == N

ASSUME GfxAssumption ==
  /\ None \notin Ids /\ N \in Nat \ {0} /\ MaxPending \in Nat
  /\ Arrays \cap Packs = {} /\ Arrays \cap Fields = {} /\ Packs \cap Fields = {}
  /\ {"args", "ext", "ret"} \cap Objects = {}
  /\ WritersSync \in BOOLEAN

VARIABLES
  backend,
  rt,    \* GfxRuntime with its device, see Init
  addr,  \* object to its buffer, or None
  want,  \* what an object holds if everything ran in program order
  got    \* what the host was given in this step, and should have been given

vars == <<backend, rt, addr, want, got>>

Nothing == [value |-> Garbage, want |-> Garbage]

Init ==
  /\ backend \in {"vulkan", "opengl"}
  /\ rt = [mem |-> [i \in Ids |-> Garbage],
           alloc |-> {},                     \* allocations_
           submitted |-> <<>>, refs |-> {},  \* submitted_cmdbuffers_
           open |-> FALSE, cmds |-> <<>>, cmd_refs |-> {},  \* current_cmdlist_
           ctx_buffers_ |-> {},
           ndarrays_in_use_ |-> {}, argpacks_in_use_ |-> {}]
  /\ addr = [o \in Objects |-> None]
  /\ want = [o \in Objects |-> Garbage]
  /\ got = Nothing

-----------------------------------------------------------------------------
(* The device                                                              *)

Stored(x) == IF x = Garbage THEN Garbage ELSE (x + 1) % N
Run(mem, c) == [mem EXCEPT ![c.out] = Stored(mem[c.in])]
RunAll(mem, cmds) ==
  LET run[k \in 0 .. Len(cmds)] == IF k = 0 THEN mem ELSE Run(run[k - 1], cmds[k])
  IN  run[Len(cmds)]

\* Vulkan frees the memory of a buffer with the last reference to it.
Held(r) == r.alloc \cup r.refs \cup r.cmd_refs
Become(r) ==
  rt' = [r EXCEPT !.mem = [i \in Ids |-> IF i \in Held(r) THEN r.mem[i] ELSE Garbage]]

\* Stream::submit
Submit(r) ==
  IF backend = "vulkan"
  THEN [r EXCEPT !.submitted = @ \o r.cmds, !.refs = @ \cup r.cmd_refs]
  ELSE [r EXCEPT !.mem = RunAll(@, r.cmds)]

\* wait_idle, command_sync
Idle(r) == [r EXCEPT !.mem = RunAll(@, r.submitted), !.submitted = <<>>, !.refs = {}]

\* memcpy_internal, buffer_fill with submit_synced: a list of their own.
Copied(r, i, v) == [Idle(r) EXCEPT !.mem[i] = v]

-----------------------------------------------------------------------------
(* GfxRuntime                                                              *)

ClearCtx(r) == [r EXCEPT !.alloc = @ \ r.ctx_buffers_, !.ctx_buffers_ = {}]
DropList(r) == ClearCtx([r EXCEPT !.open = FALSE, !.cmds = <<>>, !.cmd_refs = {}])

\* MUTANT: current_cmdlist_ stays after it was submitted.
FlushedTwice(r) == IF r.open THEN ClearCtx(Submit(r)) ELSE r
Flushed(r) == IF r.open THEN DropList(Submit(r)) ELSE r
\* MUTANT: the device is waited for, but the open list is not submitted.
SyncedIdle(r) == [Idle(r) EXCEPT !.ndarrays_in_use_ = {}]
Synced(r) == [ClearCtx(Idle(Flushed(r))) EXCEPT !.ndarrays_in_use_ = {}]

\* A kernel loads src, or its arguments, and stores to dst.
Sources == Objects \cup {"args", "ext"}
Targets == Arrays \cup Fields \cup {"ret", "ext"}

\* The buffers a launch allocates; a kernel of fields only takes no arguments.
Needs(src, dst) ==
  ({src, dst} \cap {"ext", "ret"})
    \cup (IF src \in Fields /\ dst \in Fields \cup {"ret"} THEN {} ELSE {"args"})

Place(bufs, o) == IF o \in Objects THEN addr[o] ELSE bufs[o]
Addrs(S) == {addr[o] : o \in S}

Command(bufs, src, dst) ==
  [in |-> Place(bufs, src), out |-> Place(bufs, dst),
   names |-> {Place(bufs, o) : o \in {src, dst} \cup DOMAIN bufs},
   owners |-> Addrs({src, dst} \cap (Arrays \cup Packs))]

\* host_to_device: the arguments and the external array get their values.
Uploaded(mem, bufs, src, v) ==
  IF src \in {"args", "ext"} THEN [mem EXCEPT ![bufs[src]] = v] ELSE mem

\* launch_kernel up to the recorded commands; `done' are those of the tasks
\* that were dispatched.
Recorded(r, bufs, src, dst, v, done) ==
  LET c == Command(bufs, src, dst) IN
  [r EXCEPT
    !.mem = Uploaded(@, bufs, src, v),
    !.alloc = @ \cup Range(bufs),
    !.ctx_buffers_ = @ \cup {bufs[o] : o \in DOMAIN bufs \cap {"ext"}},
    !.ndarrays_in_use_ = @ \cup Addrs({src, dst} \cap Arrays),
    !.argpacks_in_use_ = @ \cup Addrs({src, dst} \cap Packs),
    !.open = TRUE,
    !.cmds = IF done THEN Append(@, c) ELSE @,
    !.cmd_refs = IF backend = "vulkan" THEN @ \cup c.names ELSE @]

\* What src holds, in program order, for a kernel launched now.
Loaded(src, v) == IF src \in Objects THEN want[src] ELSE v

Free(r) == Ids \ Held(r)

Ready(r, src, dst) ==
  /\ \A o \in {src, dst} \cap Objects : addr[o] # None
  /\ Len(r.submitted) + Len(r.cmds) < MaxPending

(* launch_kernel on the runtime r.  A kernel with a result, or one that     *)
(* stores to an external array, is waited for; any other list may be found  *)
(* to be old (submit_current_cmdlist_if_timeout).                           *)
LaunchOn(r, src, dst, v) ==
  /\ Ready(r, src, dst)
  /\ \E bufs \in Injection(Needs(src, dst), Free(r)) :
       LET recorded == Recorded(r, bufs, src, dst, v, TRUE)
           kept == [recorded EXCEPT !.ctx_buffers_ = @ \cup Range(bufs)]
           waited == Idle(Submit(kept)) IN
       IF dst \in {"ret", "ext"}
       THEN /\ Become(DropList(waited))
            /\ got' = [value |-> waited.mem[bufs[dst]], want |-> Stored(Loaded(src, v))]
            /\ UNCHANGED want
       ELSE /\ Become(kept) \/ Become(Flushed(kept))
            /\ want' = [want EXCEPT ![dst] = Stored(Loaded(src, v))]
            /\ got' = Nothing
  /\ UNCHANGED <<backend, addr>>

Launch(src, dst, v) == LaunchOn(rt, src, dst, v)

(* Vulkan's dispatch refuses a grid that is too large and launch_kernel     *)
(* throws, after the tasks before it (`done') were recorded: the buffers of *)
(* arguments and results go with the stack frame.                           *)
LaunchFails(src, dst, v, done) ==
  /\ backend = "vulkan" /\ Ready(rt, src, dst)
  /\ \E bufs \in Injection(Needs(src, dst), Free(rt)) :
       LET recorded == Recorded(rt, bufs, src, dst, v, done) IN
       Become([recorded EXCEPT !.alloc = @ \ {bufs[o] : o \in DOMAIN bufs \ {"ext"}}])
  /\ want' = IF done /\ dst \in Objects
             THEN [want EXCEPT ![dst] = Stored(Loaded(src, v))] ELSE want
  /\ got' = Nothing
  /\ UNCHANGED <<backend, addr>>

Flush == Become(Flushed(rt)) /\ got' = Nothing /\ UNCHANGED <<backend, addr, want>>
Synchronize == Become(Synced(rt)) /\ got' = Nothing /\ UNCHANGED <<backend, addr, want>>

-----------------------------------------------------------------------------
(* The Program                                                             *)

Fresh(r, i) == [r EXCEPT !.alloc = @ \cup {i}]

\* create_ndarray and add_root_buffer fill with zeros and wait.
Create(o, i) ==
  /\ addr[o] = None /\ i \in Free(rt)
  /\ Become(Copied(Fresh(rt, i), i, 0))
  /\ addr' = [addr EXCEPT ![o] = i] /\ want' = [want EXCEPT ![o] = 0]
  /\ got' = Nothing /\ UNCHANGED backend

\* ArgPack's entries are written one by one (ArgPack::write).
CreatePack(p, i, v) ==
  /\ addr[p] = None /\ i \in Free(rt)
  /\ Become(Synced(Copied(Fresh(rt, i), i, v)))
  /\ addr' = [addr EXCEPT ![p] = i] /\ want' = [want EXCEPT ![p] = v]
  /\ got' = Nothing /\ UNCHANGED backend

Gone(o) ==
  /\ addr[o] # None
  /\ addr' = [addr EXCEPT ![o] = None] /\ want' = [want EXCEPT ![o] = Garbage]
  /\ got' = Nothing /\ UNCHANGED backend

\* MUTANT: argument packs are not looked at.
used_as_ndarray(i) == i \in rt.ndarrays_in_use_
used_in_kernel(i) == i \in rt.ndarrays_in_use_ \cup rt.argpacks_in_use_

\* delete_ndarray, delete_argpack: Python asks once, when it drops the object.
Delete(o) ==
  /\ Gone(o)
  /\ Become([rt EXCEPT !.alloc = IF used_in_kernel(addr[o]) THEN @ ELSE @ \ {addr[o]}])

\* OpenGL does not destroy SNode trees.
DestroyField(f) ==
  /\ backend = "vulkan"
  /\ Gone(f)
  /\ Become([rt EXCEPT !.alloc = @ \ {addr[f]}])

\* Ndarray::read, ArgPack::read; of a field by a kernel that is waited for.
Read(o) ==
  /\ addr[o] # None
  /\ Become(Synced(rt))
  /\ got' = [value |-> Synced(rt).mem[addr[o]], want |-> want[o]]
  /\ UNCHANGED <<backend, addr, want>>

\* Ndarray::write, ArgPack::write
Write(o, v) ==
  /\ addr[o] # None
  /\ LET before == IF WritersSync THEN Synced(rt) ELSE rt
     IN  Become(Synced(Copied(before, addr[o], v)))
  /\ want' = [want EXCEPT ![o] = v]
  /\ got' = Nothing /\ UNCHANGED <<backend, addr>>

\* SNodeRwAccessorsBank synchronizes before it launches the writer.
WriteField(f, v) == LaunchOn(Synced(rt), "args", f, v)

\* The GPU runs what was submitted.
DeviceRuns ==
  /\ rt.submitted # <<>>
  /\ rt' = [rt EXCEPT !.mem = Run(@, Head(rt.submitted)), !.submitted = Tail(@)]
  /\ got' = Nothing /\ UNCHANGED <<backend, addr, want>>

Next ==
  \/ \E src \in Sources, dst \in Targets, v \in Values : Launch(src, dst, v)
  \/ \E src \in Sources, dst \in Targets, v \in Values, done \in BOOLEAN :
       LaunchFails(src, dst, v, done)
  \/ Flush \/ Synchronize
  \/ \E o \in Arrays \cup Fields, i \in Ids : Create(o, i)
  \/ \E p \in Packs, i \in Ids, v \in Values : CreatePack(p, i, v)
  \/ \E o \in Arrays \cup Packs : Delete(o)
  \/ \E f \in Fields : DestroyField(f)
  \/ \E o \in Objects : Read(o)
  \/ \E o \in Arrays \cup Packs, v \in Values : Write(o, v)
  \/ \E f \in Fields, v \in Values : WriteField(f, v)
  \/ DeviceRuns

Spec == Init /\ [][Next]_vars

-----------------------------------------------------------------------------
(* Properties                                                              *)

(* Whatever is pending, an object holds what Python's order of launches,    *)
(* reads and writes gives it once everything pending has run.               *)
ProgramOrder ==
  \A o \in Objects : addr[o] # None =>
    RunAll(RunAll(rt.mem, rt.submitted), rt.cmds)[addr[o]] = want[o]

(* The host is given what the program order says: the result of a kernel,   *)
(* the content of an external array after it, an element that is read.      *)
HostReads == got.value = got.want

(* Memory is not freed under a command that has not run: each of its        *)
(* buffers is allocated or held by the list it is in, and its ndarrays and  *)
(* packs are still allocated ("no pending kernels to be executed needs the  *)
(* ndarray", program.cpp:416).                                              *)
MemoryHeld ==
  /\ \A c \in Range(rt.submitted) : c.names \subseteq rt.alloc \cup rt.refs
  /\ \A c \in Range(rt.cmds) : c.names \subseteq rt.alloc \cup rt.cmd_refs
  /\ \A c \in Range(rt.submitted \o rt.cmds) : c.owners \subseteq rt.alloc
=============================================================================
