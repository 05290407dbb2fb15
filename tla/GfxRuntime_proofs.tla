------------------------- MODULE GfxRuntime_proofs --------------------------
(***************************************************************************)
(* Two things, for any objects, buffers and lists of commands, and on both *)
(* kinds of devices.                                                       *)
(*                                                                         *)
(* No buffer is freed under a command that has not run (BuffersStay).  The *)
(* reason differs.  On Vulkan a list refers to its buffers, and what was   *)
(* submitted keeps the references until the queue is idle.  On OpenGL      *)
(* nothing is pending but the open list, and each of its buffers is one of *)
(* ctx_buffers_, which live as long as the list, an ndarray or a pack in   *)
(* use, or a field, which OpenGL never destroys (Counted).  Both need that *)
(* an object's buffer is neither another's nor one of ctx_buffers_         *)
(* (Apart), and the second part of the property that what a command works  *)
(* for is in use (Owned).                                                  *)
(*                                                                         *)
(* What is pending never shows (ObjectsInOrder, HostInOrder), provided     *)
(* that the host synchronizes before it writes an element.  Final is the   *)
(* memory that the pending commands will leave: a flush and a submission   *)
(* do not change it (Alike), a synchronization makes it the memory (Done), *)
(* a launch adds its own effect at its end (Effect).  These rest on        *)
(* lemmas by induction on the list of commands, which the least element of *)
(* a set of naturals gives (NatMin, NatInd, SeqInd).                        *)
(***************************************************************************)
EXTENDS GfxRuntime, TLAPS, SequenceTheorems, WellFoundedInduction

Names ==
  {"mem", "alloc", "submitted", "refs", "open", "cmds", "cmd_refs",
   "ctx_buffers_", "ndarrays_in_use_", "argpacks_in_use_"}
Cmd == {c \in [in : Ids, out : Ids, names : SUBSET Ids, owners : SUBSET Ids] :
          {c.in, c.out} \subseteq c.names}

Content == Values \cup {Garbage}
Mem == [Ids -> Content]

Typed(r) ==
  /\ DOMAIN r = Names
  /\ r.submitted \in Seq(Cmd) /\ r.cmds \in Seq(Cmd)
  /\ ~r.open => r.cmds = <<>>

InUse(r) == r.ndarrays_in_use_ \cup r.argpacks_in_use_
Live(at, S) == {at[o] : o \in S} \ {None}

Apart(r, at) ==
  /\ Live(at, Objects) \cup r.ctx_buffers_ \cup InUse(r) \subseteq r.alloc
  /\ r.ctx_buffers_ \cap (Live(at, Objects) \cup InUse(r)) = {}
  /\ Live(at, Fields) \cap InUse(r) = {}
  /\ \A o, q \in Objects : at[o] = at[q] /\ at[o] # None => o = q

Counted(r, at) ==
  /\ backend = "vulkan" =>
       /\ \A c \in Range(r.submitted) : c.names \subseteq r.refs
       /\ \A c \in Range(r.cmds) : c.names \subseteq r.cmd_refs
  /\ backend = "opengl" =>
       /\ r.submitted = <<>>
       /\ \A c \in Range(r.cmds) :
            c.names \subseteq r.ctx_buffers_ \cup InUse(r) \cup Live(at, Fields)

Owned(r) ==
  /\ \A c \in Range(r.submitted) : c.owners \subseteq InUse(r)
  /\ \A c \in Range(r.cmds) : c.owners \subseteq InUse(r)

Good(r, at) == Typed(r) /\ Apart(r, at) /\ Counted(r, at) /\ Owned(r)

IInv ==
  /\ backend \in {"vulkan", "opengl"}
  /\ addr \in [Objects -> Ids \cup {None}]
  /\ Good(rt, addr)

-----------------------------------------------------------------------------
(* Sequences                                                               *)

LEMMA EmptyRange == Range(<<>>) = {}
BY DEF Range

LEMMA ConcatRange ==
  ASSUME NEW S, NEW s \in Seq(S), NEW t \in Seq(S)
  PROVE  s \o t \in Seq(S) /\ Range(s \o t) = Range(s) \cup Range(t)
<1>1. s \o t \in Seq(S) /\ Len(s \o t) = Len(s) + Len(t) OBVIOUS
<1>2. Range(s \o t) \subseteq Range(s) \cup Range(t)
  <2>1. SUFFICES ASSUME NEW i \in 1 .. Len(s) + Len(t)
                 PROVE  (s \o t)[i] \in Range(s) \cup Range(t)
    BY <1>1 DEF Range
  <2>2. CASE i <= Len(s) BY <2>2 DEF Range
  <2>3. CASE i > Len(s)
    <3>1. i - Len(s) \in 1 .. Len(t) /\ (s \o t)[i] = t[i - Len(s)] BY <2>3
    <3>2. QED BY <3>1 DEF Range
  <2>4. QED BY <2>2, <2>3
<1>3. Range(s) \subseteq Range(s \o t)
  <2>1. \A i \in 1 .. Len(s) : i \in DOMAIN (s \o t) /\ (s \o t)[i] = s[i] BY <1>1
  <2>2. QED BY <2>1 DEF Range
<1>4. Range(t) \subseteq Range(s \o t)
  <2>1. SUFFICES ASSUME NEW i \in 1 .. Len(t) PROVE t[i] \in Range(s \o t)
    BY DEF Range
  <2>2. Len(s) + i \in DOMAIN (s \o t) /\ (s \o t)[Len(s) + i] = t[i] BY <1>1
  <2>3. QED BY <2>2 DEF Range
<1>5. QED BY <1>1, <1>2, <1>3, <1>4

LEMMA AppendRange ==
  ASSUME NEW S, NEW s \in Seq(S), NEW c \in S
  PROVE  Append(s, c) \in Seq(S) /\ Range(Append(s, c)) = Range(s) \cup {c}
<1>1. Append(s, c) \in Seq(S) /\ DOMAIN Append(s, c) = 1 .. Len(s) + 1 OBVIOUS
<1>2. Append(s, c)[Len(s) + 1] = c /\ \A i \in 1 .. Len(s) : Append(s, c)[i] = s[i] OBVIOUS
<1>3. 1 .. Len(s) + 1 = (1 .. Len(s)) \cup {Len(s) + 1} OBVIOUS
<1>4. DOMAIN s = 1 .. Len(s) OBVIOUS
<1>5. QED BY <1>1, <1>2, <1>3, <1>4 DEF Range

LEMMA TailRange ==
  ASSUME NEW S, NEW s \in Seq(S), s # <<>>
  PROVE  Tail(s) \in Seq(S) /\ Range(Tail(s)) \subseteq Range(s)
<1>1. Tail(s) \in Seq(S) /\ DOMAIN Tail(s) = 1 .. Len(s) - 1 OBVIOUS
<1>2. \A i \in 1 .. Len(s) - 1 : Tail(s)[i] = s[i + 1] /\ i + 1 \in DOMAIN s OBVIOUS
<1>3. QED BY <1>1, <1>2 DEF Range

-----------------------------------------------------------------------------
(* What the parts of a step do to the runtime, field by field              *)

LEMMA ClearCtxGood ==
  ASSUME NEW r, NEW at, Good(r, at), r.cmds = <<>>
  PROVE  /\ Good(ClearCtx(r), at)
         /\ ClearCtx(r).cmds = <<>>
         /\ ClearCtx(r).submitted = r.submitted
<1> DEFINE q == ClearCtx(r)
<1>1. /\ DOMAIN q = Names
      /\ q.alloc = r.alloc \ r.ctx_buffers_ /\ q.ctx_buffers_ = {}
      /\ q.submitted = r.submitted /\ q.refs = r.refs
      /\ q.open = r.open /\ q.cmds = r.cmds /\ q.cmd_refs = r.cmd_refs
      /\ q.ndarrays_in_use_ = r.ndarrays_in_use_
      /\ q.argpacks_in_use_ = r.argpacks_in_use_
  BY DEF Good, Typed, Names, ClearCtx
<1>2. Typed(q) BY <1>1 DEF Good, Typed
<1>3. Apart(q, at) BY <1>1 DEF Good, Apart, InUse
<1>4. Counted(q, at) BY <1>1, EmptyRange DEF Good, Counted, InUse
<1>5. Owned(q) BY <1>1 DEF Good, Owned, InUse
<1>6. QED BY <1>1, <1>2, <1>3, <1>4, <1>5 DEF Good

LEMMA IdleGood ==
  ASSUME NEW r, NEW at, Good(r, at)
  PROVE  /\ Good(Idle(r), at)
         /\ Idle(r).cmds = r.cmds /\ Idle(r).submitted = <<>>
<1> DEFINE q == Idle(r)
<1>1. /\ DOMAIN q = Names
      /\ q.alloc = r.alloc /\ q.ctx_buffers_ = r.ctx_buffers_
      /\ q.submitted = <<>> /\ q.refs = {}
      /\ q.open = r.open /\ q.cmds = r.cmds /\ q.cmd_refs = r.cmd_refs
      /\ q.ndarrays_in_use_ = r.ndarrays_in_use_
      /\ q.argpacks_in_use_ = r.argpacks_in_use_
  BY DEF Good, Typed, Names, Idle
<1>2. Typed(q) BY <1>1 DEF Good, Typed
<1>3. Apart(q, at) BY <1>1 DEF Good, Apart, InUse
<1>4. Counted(q, at) BY <1>1, EmptyRange DEF Good, Counted, InUse
<1>5. Owned(q) BY <1>1, EmptyRange DEF Good, Owned, InUse
<1>6. QED BY <1>1, <1>2, <1>3, <1>4, <1>5 DEF Good

(* Submitting a list and forgetting it.  `kept' are the buffers that the    *)
(* list needs.                                                              *)
LEMMA DropSubmitGood ==
  ASSUME NEW r, NEW at, Good(r, at), backend \in {"vulkan", "opengl"}
  PROVE  /\ Good(DropList(Submit(r)), at)
         /\ DropList(Submit(r)).cmds = <<>>
<1> DEFINE q == DropList(Submit(r))
<1>1. /\ DOMAIN Submit(r) = Names
      /\ Submit(r).submitted = IF backend = "vulkan" THEN r.submitted \o r.cmds ELSE r.submitted
      /\ Submit(r).refs = IF backend = "vulkan" THEN r.refs \cup r.cmd_refs ELSE r.refs
      /\ Submit(r).alloc = r.alloc /\ Submit(r).ctx_buffers_ = r.ctx_buffers_
      /\ Submit(r).ndarrays_in_use_ = r.ndarrays_in_use_
      /\ Submit(r).argpacks_in_use_ = r.argpacks_in_use_
  BY DEF Good, Typed, Names, Submit
<1>2. /\ DOMAIN q = Names
      /\ q.alloc = r.alloc \ r.ctx_buffers_ /\ q.ctx_buffers_ = {}
      /\ q.submitted = Submit(r).submitted /\ q.refs = Submit(r).refs
      /\ q.open = FALSE /\ q.cmds = <<>> /\ q.cmd_refs = {}
      /\ q.ndarrays_in_use_ = r.ndarrays_in_use_
      /\ q.argpacks_in_use_ = r.argpacks_in_use_
  BY <1>1 DEF Names, DropList, ClearCtx
<1>3. r.submitted \in Seq(Cmd) /\ r.cmds \in Seq(Cmd) BY DEF Good, Typed
<1>4. /\ r.submitted \o r.cmds \in Seq(Cmd)
      /\ Range(r.submitted \o r.cmds) = Range(r.submitted) \cup Range(r.cmds)
  BY <1>3, ConcatRange
<1>5. Typed(q) BY <1>1, <1>2, <1>3, <1>4 DEF Typed
<1>6. Apart(q, at) BY <1>2 DEF Good, Apart, InUse
<1>7. Counted(q, at) BY <1>1, <1>2, <1>4, EmptyRange DEF Good, Counted, InUse
<1>8. Owned(q) BY <1>1, <1>2, <1>4, EmptyRange DEF Good, Owned, InUse
<1>9. QED BY <1>2, <1>5, <1>6, <1>7, <1>8 DEF Good

LEMMA FlushedGood ==
  ASSUME NEW r, NEW at, Good(r, at), backend \in {"vulkan", "opengl"}
  PROVE  Good(Flushed(r), at) /\ Flushed(r).cmds = <<>>
<1>1. CASE r.open BY <1>1, DropSubmitGood DEF Flushed
<1>2. CASE ~r.open BY <1>2 DEF Flushed, Good, Typed
<1>3. QED BY <1>1, <1>2

LEMMA SyncedGood ==
  ASSUME NEW r, NEW at, Good(r, at), backend \in {"vulkan", "opengl"}
  PROVE  Good(Synced(r), at)
<1> DEFINE p == ClearCtx(Idle(Flushed(r)))
           q == Synced(r)
<1>1. Good(Flushed(r), at) /\ Flushed(r).cmds = <<>> BY FlushedGood
<1>2. /\ Good(Idle(Flushed(r)), at)
      /\ Idle(Flushed(r)).cmds = <<>> /\ Idle(Flushed(r)).submitted = <<>>
  BY <1>1, IdleGood
<1>3. Good(p, at) /\ p.cmds = <<>> /\ p.submitted = <<>> BY <1>2, ClearCtxGood
<1> HIDE DEF p
<1>4. q = [p EXCEPT !.ndarrays_in_use_ = {}] BY DEF Synced, p
<1>5. /\ DOMAIN q = Names
      /\ q.alloc = p.alloc /\ q.ctx_buffers_ = p.ctx_buffers_
      /\ q.submitted = <<>> /\ q.refs = p.refs
      /\ q.open = p.open /\ q.cmds = <<>> /\ q.cmd_refs = p.cmd_refs
      /\ q.ndarrays_in_use_ = {}
      /\ q.argpacks_in_use_ = p.argpacks_in_use_
  BY <1>3, <1>4 DEF Good, Typed, Names
<1> HIDE DEF q
<1>6. Typed(q) BY <1>3, <1>5 DEF Good, Typed
<1>7. Apart(q, at) BY <1>3, <1>5 DEF Good, Apart, InUse
<1>8. Counted(q, at) /\ Owned(q) BY <1>5, EmptyRange DEF Counted, Owned
<1>9. QED BY <1>6, <1>7, <1>8 DEF Good, q

-----------------------------------------------------------------------------
(* Recording a kernel                                                      *)

(* The buffers that a launch allocates are new, and what its command names  *)
(* are these and the buffers of the objects it works on.                    *)
IsNew(r, bufs, src, dst) ==
  LET owners == Addrs({src, dst} \cap (Arrays \cup Packs))
      fields == Addrs({src, dst} \cap Fields)
      c == Command(bufs, src, dst) IN
  /\ Range(bufs) \subseteq Ids /\ Range(bufs) \cap r.alloc = {}
  /\ owners \cup fields \subseteq Live(addr, Objects)
  /\ fields \subseteq Live(addr, Fields) /\ owners \cap Live(addr, Fields) = {}
  /\ c \in Cmd /\ c.owners = owners
  /\ c.names \subseteq Range(bufs) \cup owners \cup fields

(* q is r with the kernel recorded, or with its objects in use only.        *)
IsRecorded(q, r, bufs, src, dst) ==
  LET c == Command(bufs, src, dst) IN
  /\ DOMAIN q = Names
  /\ q.alloc = r.alloc \cup Range(bufs)
  /\ q.ctx_buffers_ = r.ctx_buffers_ \cup {bufs[o] : o \in DOMAIN bufs \cap {"ext"}}
  /\ q.submitted = r.submitted /\ q.refs = r.refs
  /\ q.open = TRUE
  /\ q.cmds \in Seq(Cmd) /\ Range(q.cmds) \subseteq Range(r.cmds) \cup {c}
  /\ q.cmd_refs = IF backend = "vulkan" THEN r.cmd_refs \cup c.names ELSE r.cmd_refs
  /\ InUse(q) = InUse(r) \cup Addrs({src, dst} \cap (Arrays \cup Packs))

LEMMA CommandFacts ==
  ASSUME NEW r, Good(r, addr), addr \in [Objects -> Ids \cup {None}],
         NEW src \in Sources, NEW dst \in Targets, Ready(r, src, dst),
         NEW bufs \in Injection(Needs(src, dst), Free(r))
  PROVE  IsNew(r, bufs, src, dst)
<1> DEFINE c == Command(bufs, src, dst)
<1>1. bufs \in [Needs(src, dst) -> Free(r)] BY DEF Injection
<1>2. Range(bufs) \subseteq Free(r) BY <1>1 DEF Range
<1>3. Range(bufs) \subseteq Ids /\ Range(bufs) \cap r.alloc = {} BY <1>2 DEF Free, Held
<1>4. \A o \in {src, dst} \cap Objects : addr[o] \in Ids /\ addr[o] # None
  BY GfxAssumption DEF Ready
<1>5. /\ Addrs({src, dst} \cap Objects) \subseteq Live(addr, Objects)
      /\ Addrs({src, dst} \cap Fields) \subseteq Live(addr, Fields)
  BY <1>4 DEF Addrs, Live, Objects
<1>6. Addrs({src, dst} \cap Objects)
        = Addrs({src, dst} \cap (Arrays \cup Packs)) \cup Addrs({src, dst} \cap Fields)
  BY DEF Addrs, Objects
<1>7. Addrs({src, dst} \cap (Arrays \cup Packs)) \cap Live(addr, Fields) = {}
  <2>1. \A o \in Arrays \cup Packs, q \in Fields : o # q BY GfxAssumption
  <2>2. \A o, q \in Objects : addr[o] = addr[q] /\ addr[o] # None => o = q
    BY DEF Good, Apart
  <2>3. QED BY <2>1, <2>2 DEF Addrs, Live, Objects
<1>8. \A o \in {src, dst} \cup DOMAIN bufs :
        Place(bufs, o) \in Range(bufs) \cup Addrs({src, dst} \cap Objects)
  <2>1. SUFFICES ASSUME NEW o \in {src, dst} \cup DOMAIN bufs
                 PROVE  Place(bufs, o) \in Range(bufs) \cup Addrs({src, dst} \cap Objects)
    OBVIOUS
  <2>2. DOMAIN bufs = Needs(src, dst) BY <1>1
  <2>3. CASE o \in Objects
    <3>1. o \notin Needs(src, dst) BY <2>3, GfxAssumption DEF Needs
    <3>2. QED BY <2>2, <2>3, <3>1 DEF Place, Addrs
  <2>4. CASE o \notin Objects
    <3>1. o \in DOMAIN bufs
      BY <2>2, <2>4, GfxAssumption DEF Needs, Sources, Targets, Objects
    <3>2. QED BY <2>4, <3>1 DEF Place, Range
  <2>5. QED BY <2>3, <2>4
<1>9. c.names \subseteq Range(bufs) \cup Addrs({src, dst} \cap Objects) BY <1>8 DEF Command
<1>10. c.owners = Addrs({src, dst} \cap (Arrays \cup Packs)) BY DEF Command
<1>11. Range(bufs) \cup Addrs({src, dst} \cap Objects) \subseteq Ids
  BY <1>3, <1>4 DEF Addrs
<1>12. c.owners \subseteq Ids BY <1>6, <1>10, <1>11
<1>13. c.names \subseteq Ids BY <1>9, <1>11
<1>14. Place(bufs, src) \in Ids /\ Place(bufs, dst) \in Ids BY <1>8, <1>11
<1>15. c \in Cmd
  <2>1. /\ c \in [in : Ids, out : Ids, names : SUBSET Ids, owners : SUBSET Ids]
        /\ c.in = Place(bufs, src) /\ c.out = Place(bufs, dst)
    BY <1>12, <1>13, <1>14 DEF Command
  <2>2. Place(bufs, src) \in c.names /\ Place(bufs, dst) \in c.names BY DEF Command
  <2>3. QED BY <2>1, <2>2 DEF Cmd
<1>16. QED BY <1>3, <1>5, <1>6, <1>7, <1>9, <1>10, <1>15 DEF IsNew

LEMMA RecordedFields ==
  ASSUME NEW r, Typed(r), NEW bufs, NEW src, NEW dst, NEW v, NEW done \in BOOLEAN,
         Command(bufs, src, dst) \in Cmd
  PROVE  IsRecorded(Recorded(r, bufs, src, dst, v, done), r, bufs, src, dst)
<1> DEFINE q == Recorded(r, bufs, src, dst, v, done)
           c == Command(bufs, src, dst)
<1>1. /\ DOMAIN q = Names
      /\ q.alloc = r.alloc \cup Range(bufs)
      /\ q.ctx_buffers_ = r.ctx_buffers_ \cup {bufs[o] : o \in DOMAIN bufs \cap {"ext"}}
      /\ q.submitted = r.submitted /\ q.refs = r.refs
      /\ q.open = TRUE
      /\ q.cmds = IF done THEN Append(r.cmds, c) ELSE r.cmds
      /\ q.cmd_refs = IF backend = "vulkan" THEN r.cmd_refs \cup c.names ELSE r.cmd_refs
      /\ q.ndarrays_in_use_ = r.ndarrays_in_use_ \cup Addrs({src, dst} \cap Arrays)
      /\ q.argpacks_in_use_ = r.argpacks_in_use_ \cup Addrs({src, dst} \cap Packs)
  BY DEF Recorded, Typed, Names
<1> HIDE DEF q, c
<1>2. r.cmds \in Seq(Cmd) BY DEF Typed
<1>3. Append(r.cmds, c) \in Seq(Cmd) /\ Range(Append(r.cmds, c)) = Range(r.cmds) \cup {c}
  BY <1>2, AppendRange DEF c
<1>4. q.cmds \in Seq(Cmd) /\ Range(q.cmds) \subseteq Range(r.cmds) \cup {c}
  BY <1>1, <1>2, <1>3
<1>5. Addrs({src, dst} \cap (Arrays \cup Packs))
        = Addrs({src, dst} \cap Arrays) \cup Addrs({src, dst} \cap Packs)
  BY DEF Addrs
<1>6. InUse(q) = InUse(r) \cup Addrs({src, dst} \cap (Arrays \cup Packs))
  BY <1>1, <1>5 DEF InUse
<1>7. QED BY <1>1, <1>4, <1>6 DEF q, c, IsRecorded

Kept(q, bufs) == [q EXCEPT !.ctx_buffers_ = @ \cup Range(bufs)]
Thrown(q, bufs) == [q EXCEPT !.alloc = @ \ {bufs[o] : o \in DOMAIN bufs \ {"ext"}}]

LEMMA KeptGood ==
  ASSUME NEW r, Good(r, addr), addr \in [Objects -> Ids \cup {None}],
         backend \in {"vulkan", "opengl"},
         NEW src \in Sources, NEW dst \in Targets, NEW v, Ready(r, src, dst),
         NEW bufs \in Injection(Needs(src, dst), Free(r))
  PROVE  Good(Kept(Recorded(r, bufs, src, dst, v, TRUE), bufs), addr)
<1> DEFINE p == Recorded(r, bufs, src, dst, v, TRUE)
           q == Kept(p, bufs)
           c == Command(bufs, src, dst)
           new == Addrs({src, dst} \cap (Arrays \cup Packs))
<1>1. IsNew(r, bufs, src, dst) BY CommandFacts
<1>2. /\ Range(bufs) \subseteq Ids /\ Range(bufs) \cap r.alloc = {}
      /\ new \subseteq Live(addr, Objects) /\ new \cap Live(addr, Fields) = {}
      /\ c \in Cmd /\ c.owners = new
      /\ c.names \subseteq Range(bufs) \cup new \cup Live(addr, Fields)
  BY <1>1 DEF IsNew
<1>3. Typed(r) /\ Apart(r, addr) /\ Counted(r, addr) /\ Owned(r) BY DEF Good
<1>4. {bufs[o] : o \in DOMAIN bufs \cap {"ext"}} \subseteq Range(bufs) BY DEF Range
<1>5. IsRecorded(p, r, bufs, src, dst)
  <2>1. Command(bufs, src, dst) \in Cmd BY <1>2
  <2>2. QED BY <1>3, <2>1, RecordedFields
<1> HIDE DEF p, q
<1>6. /\ DOMAIN q = Names
      /\ q.alloc = r.alloc \cup Range(bufs)
      /\ q.ctx_buffers_ = r.ctx_buffers_ \cup Range(bufs)
      /\ q.submitted = r.submitted /\ q.refs = r.refs
      /\ q.open = TRUE
      /\ q.cmds \in Seq(Cmd) /\ Range(q.cmds) \subseteq Range(r.cmds) \cup {c}
      /\ q.cmd_refs = IF backend = "vulkan" THEN r.cmd_refs \cup c.names ELSE r.cmd_refs
      /\ InUse(q) = InUse(r) \cup new
  <2>1. DOMAIN p = Names BY <1>5 DEF IsRecorded
  <2>2. /\ DOMAIN q = Names
        /\ q.alloc = p.alloc /\ q.ctx_buffers_ = p.ctx_buffers_ \cup Range(bufs)
        /\ q.submitted = p.submitted /\ q.refs = p.refs
        /\ q.open = p.open /\ q.cmds = p.cmds /\ q.cmd_refs = p.cmd_refs
        /\ InUse(q) = InUse(p)
    BY <2>1 DEF q, Kept, Names, InUse
  <2>3. QED BY <1>4, <1>5, <2>2 DEF IsRecorded
<1> HIDE DEF c, new
<1>7. Typed(q) BY <1>3, <1>6 DEF Typed
<1>8. Apart(q, addr)
  <2>1. Live(addr, Objects) \cup r.ctx_buffers_ \cup InUse(r) \subseteq r.alloc BY <1>3 DEF Apart
  <2>2. r.ctx_buffers_ \cap (Live(addr, Objects) \cup InUse(r)) = {} BY <1>3 DEF Apart
  <2>3. Live(addr, Fields) \cap InUse(q) = {} BY <1>2, <1>3, <1>6 DEF Apart
  <2>4. Live(addr, Objects) \cup q.ctx_buffers_ \cup InUse(q) \subseteq q.alloc
    BY <1>2, <1>6, <2>1
  <2>5. q.ctx_buffers_ \cap (Live(addr, Objects) \cup InUse(q)) = {}
    BY <1>2, <1>6, <2>1, <2>2
  <2>6. QED BY <1>3, <2>3, <2>4, <2>5 DEF Apart
<1>9. Counted(q, addr)
  <2>1. CASE backend = "vulkan" BY <1>3, <1>6, <2>1 DEF Counted
  <2>2. CASE backend = "opengl"
    <3>1. q.submitted = <<>> BY <1>3, <1>6, <2>2 DEF Counted
    <3>2. c.names \subseteq q.ctx_buffers_ \cup InUse(q) \cup Live(addr, Fields)
      BY <1>2, <1>6
    <3>3. \A d \in Range(r.cmds) :
            d.names \subseteq q.ctx_buffers_ \cup InUse(q) \cup Live(addr, Fields)
      BY <1>3, <1>6, <2>2 DEF Counted
    <3>4. QED BY <1>6, <2>2, <3>1, <3>2, <3>3 DEF Counted
  <2>3. QED BY <2>1, <2>2
<1>10. Owned(q) BY <1>2, <1>3, <1>6 DEF Owned
<1>11. QED BY <1>7, <1>8, <1>9, <1>10 DEF Good, q, p

LEMMA ThrownGood ==
  ASSUME NEW r, Good(r, addr), addr \in [Objects -> Ids \cup {None}],
         backend = "vulkan", NEW src \in Sources, NEW dst \in Targets, NEW v,
         NEW done \in BOOLEAN, Ready(r, src, dst),
         NEW bufs \in Injection(Needs(src, dst), Free(r))
  PROVE  Good(Thrown(Recorded(r, bufs, src, dst, v, done), bufs), addr)
<1> DEFINE p == Recorded(r, bufs, src, dst, v, done)
           q == Thrown(p, bufs)
           c == Command(bufs, src, dst)
           new == Addrs({src, dst} \cap (Arrays \cup Packs))
           ext == {bufs[o] : o \in DOMAIN bufs \cap {"ext"}}
           others == {bufs[o] : o \in DOMAIN bufs \ {"ext"}}
<1>1. IsNew(r, bufs, src, dst) BY CommandFacts
<1>2. /\ Range(bufs) \subseteq Ids /\ Range(bufs) \cap r.alloc = {}
      /\ new \subseteq Live(addr, Objects) /\ new \cap Live(addr, Fields) = {}
      /\ c \in Cmd /\ c.owners = new
  BY <1>1 DEF IsNew
<1>3. Typed(r) /\ Apart(r, addr) /\ Counted(r, addr) /\ Owned(r) BY DEF Good
<1>4. ext \cup others = Range(bufs) /\ ext \cap others = {}
  <2>1. \A o, o2 \in DOMAIN bufs : bufs[o] = bufs[o2] => o = o2
    BY DEF Injection, IsInjective
  <2>2. QED BY <2>1 DEF Range
<1>5. IsRecorded(p, r, bufs, src, dst)
  <2>1. Command(bufs, src, dst) \in Cmd BY <1>2
  <2>2. QED BY <1>3, <2>1, RecordedFields
<1> HIDE DEF p, q
<1>6. /\ DOMAIN q = Names
      /\ q.alloc = r.alloc \cup ext /\ q.ctx_buffers_ = r.ctx_buffers_ \cup ext
      /\ q.submitted = r.submitted /\ q.refs = r.refs
      /\ q.open = TRUE
      /\ q.cmds \in Seq(Cmd) /\ Range(q.cmds) \subseteq Range(r.cmds) \cup {c}
      /\ q.cmd_refs = r.cmd_refs \cup c.names
      /\ InUse(q) = InUse(r) \cup new
  <2>1. DOMAIN p = Names BY <1>5 DEF IsRecorded
  <2>2. /\ DOMAIN q = Names
        /\ q.alloc = p.alloc \ others /\ q.ctx_buffers_ = p.ctx_buffers_
        /\ q.submitted = p.submitted /\ q.refs = p.refs
        /\ q.open = p.open /\ q.cmds = p.cmds /\ q.cmd_refs = p.cmd_refs
        /\ InUse(q) = InUse(p)
    BY <2>1 DEF q, Thrown, Names, InUse
  <2>3. (r.alloc \cup Range(bufs)) \ others = r.alloc \cup ext BY <1>2, <1>4
  <2>4. QED BY <1>5, <2>2, <2>3 DEF IsRecorded
<1> HIDE DEF c, new, ext
<1>7. Typed(q) BY <1>3, <1>6 DEF Typed
<1>8. Apart(q, addr)
  <2>1. Live(addr, Objects) \cup r.ctx_buffers_ \cup InUse(r) \subseteq r.alloc BY <1>3 DEF Apart
  <2>2. r.ctx_buffers_ \cap (Live(addr, Objects) \cup InUse(r)) = {} BY <1>3 DEF Apart
  <2>3. Live(addr, Fields) \cap InUse(q) = {} BY <1>2, <1>3, <1>6 DEF Apart
  <2>4. Live(addr, Objects) \cup q.ctx_buffers_ \cup InUse(q) \subseteq q.alloc
    BY <1>2, <1>6, <2>1
  <2>5. q.ctx_buffers_ \cap (Live(addr, Objects) \cup InUse(q)) = {}
    BY <1>2, <1>4, <1>6, <2>1, <2>2
  <2>6. QED BY <1>3, <2>3, <2>4, <2>5 DEF Apart
<1>9. Counted(q, addr) BY <1>3, <1>6 DEF Counted
<1>10. Owned(q) BY <1>2, <1>3, <1>6 DEF Owned
<1>11. QED BY <1>7, <1>8, <1>9, <1>10 DEF Good, q, p

(* A list that is submitted and waited for before it is forgotten.          *)
LEMMA DropIdleGood ==
  ASSUME NEW r, NEW at, Good(r, at), backend \in {"vulkan", "opengl"}
  PROVE  Good(DropList(Idle(Submit(r))), at)
<1> DEFINE q == DropList(Idle(Submit(r)))
<1>1. /\ DOMAIN Submit(r) = Names
      /\ Submit(r).alloc = r.alloc /\ Submit(r).ctx_buffers_ = r.ctx_buffers_
      /\ Submit(r).ndarrays_in_use_ = r.ndarrays_in_use_
      /\ Submit(r).argpacks_in_use_ = r.argpacks_in_use_
  BY DEF Good, Typed, Names, Submit
<1>2. /\ DOMAIN q = Names
      /\ q.alloc = r.alloc \ r.ctx_buffers_ /\ q.ctx_buffers_ = {}
      /\ q.submitted = <<>> /\ q.refs = {}
      /\ q.open = FALSE /\ q.cmds = <<>> /\ q.cmd_refs = {}
      /\ q.ndarrays_in_use_ = r.ndarrays_in_use_
      /\ q.argpacks_in_use_ = r.argpacks_in_use_
  BY <1>1 DEF Names, DropList, ClearCtx, Idle
<1> HIDE DEF q
<1>3. Typed(q) BY <1>2 DEF Typed
<1>4. Apart(q, at) BY <1>2 DEF Good, Apart, InUse
<1>5. Counted(q, at) /\ Owned(q) BY <1>2, EmptyRange DEF Counted, Owned
<1>6. QED BY <1>3, <1>4, <1>5 DEF Good, q

(* A copy with a list of its own.                                           *)
LEMMA CopiedGood ==
  ASSUME NEW r, NEW at, Good(r, at), NEW i, NEW v
  PROVE  Good(Copied(r, i, v), at)
<1> DEFINE p == Idle(r)
           q == Copied(r, i, v)
<1>1. Good(p, at) BY IdleGood
<1>2. q = [p EXCEPT !.mem[i] = v] BY DEF Copied
<1> HIDE DEF p, q
<1>3. /\ DOMAIN q = Names
      /\ q.alloc = p.alloc /\ q.ctx_buffers_ = p.ctx_buffers_
      /\ q.submitted = p.submitted /\ q.refs = p.refs
      /\ q.open = p.open /\ q.cmds = p.cmds /\ q.cmd_refs = p.cmd_refs
      /\ q.ndarrays_in_use_ = p.ndarrays_in_use_
      /\ q.argpacks_in_use_ = p.argpacks_in_use_
  BY <1>1, <1>2 DEF Good, Typed, Names
<1>4. Typed(q) BY <1>1, <1>3 DEF Good, Typed
<1>5. Apart(q, at) BY <1>1, <1>3 DEF Good, Apart, InUse
<1>6. Counted(q, at) /\ Owned(q) BY <1>1, <1>3 DEF Good, Counted, Owned, InUse
<1>7. QED BY <1>4, <1>5, <1>6 DEF Good, q

-----------------------------------------------------------------------------
(* The objects of the Program                                              *)

(* A new object in a buffer that nothing held.                              *)
LEMMA FreshGood ==
  ASSUME NEW r, Good(r, addr), addr \in [Objects -> Ids \cup {None}],
         NEW o \in Objects, addr[o] = None, NEW i \in Free(r)
  PROVE  Good(Fresh(r, i), [addr EXCEPT ![o] = i])
<1> DEFINE q == Fresh(r, i)
           at == [addr EXCEPT ![o] = i]
<1>1. i \in Ids /\ i \notin r.alloc BY DEF Free, Held
<1>2. /\ DOMAIN q = Names
      /\ q.alloc = r.alloc \cup {i} /\ q.ctx_buffers_ = r.ctx_buffers_
      /\ q.submitted = r.submitted /\ q.refs = r.refs
      /\ q.open = r.open /\ q.cmds = r.cmds /\ q.cmd_refs = r.cmd_refs
      /\ q.ndarrays_in_use_ = r.ndarrays_in_use_
      /\ q.argpacks_in_use_ = r.argpacks_in_use_
  BY DEF Good, Typed, Names, Fresh
<1>3. InUse(q) = InUse(r) BY <1>2 DEF InUse
<1> HIDE DEF q
<1>4. Typed(q) BY <1>2 DEF Good, Typed
<1>5. \A S \in SUBSET Objects :
        Live(addr, S) \subseteq Live(at, S) /\ Live(at, S) \subseteq Live(addr, S) \cup {i}
  BY GfxAssumption DEF Live
<1>6. /\ Live(addr, Fields) \subseteq Live(at, Fields)
      /\ Live(at, Fields) \subseteq Live(addr, Fields) \cup {i}
      /\ Live(at, Objects) \subseteq Live(addr, Objects) \cup {i}
  <2>1. Fields \in SUBSET Objects /\ Objects \in SUBSET Objects BY DEF Objects
  <2>2. QED BY <1>5, <2>1
<1>7. Apart(r, addr) /\ Counted(r, addr) /\ Owned(r) BY DEF Good
<1>8. \A o1, o2 \in Objects : at[o1] = at[o2] /\ at[o1] # None => o1 = o2
  <2>1. \A o1 \in Objects : addr[o1] # i
    <3>1. \A o1 \in Objects : addr[o1] = i => i \in Live(addr, Objects)
      BY <1>1, GfxAssumption DEF Live
    <3>2. QED BY <1>1, <1>7, <3>1 DEF Apart
  <2>2. QED BY <1>7, <2>1 DEF Apart
<1> HIDE DEF at
<1>9. Apart(q, at)
  <2>1. Live(addr, Objects) \cup r.ctx_buffers_ \cup InUse(r) \subseteq r.alloc BY <1>7 DEF Apart
  <2>2. r.ctx_buffers_ \cap (Live(addr, Objects) \cup InUse(r)) = {} BY <1>7 DEF Apart
  <2>3. Live(at, Fields) \cap InUse(q) = {} BY <1>1, <1>3, <1>6, <1>7, <2>1 DEF Apart
  <2>4. Live(at, Objects) \cup q.ctx_buffers_ \cup InUse(q) \subseteq q.alloc
    BY <1>2, <1>3, <1>6, <2>1
  <2>5. q.ctx_buffers_ \cap (Live(at, Objects) \cup InUse(q)) = {}
    BY <1>1, <1>2, <1>3, <1>6, <2>1, <2>2
  <2>6. QED BY <1>8, <2>3, <2>4, <2>5 DEF Apart
<1>10. Counted(q, at)
  <2>1. CASE backend = "vulkan" BY <1>2, <1>7, <2>1 DEF Counted
  <2>2. CASE backend = "opengl" BY <1>2, <1>3, <1>6, <1>7, <2>2 DEF Counted
  <2>3. CASE backend \notin {"vulkan", "opengl"} BY <2>3 DEF Counted
  <2>4. QED BY <2>1, <2>2, <2>3
<1>11. Owned(q) BY <1>2, <1>3, <1>7 DEF Owned
<1>12. QED BY <1>4, <1>9, <1>10, <1>11 DEF Good, q, at

(* An object is dropped; its buffer is freed if no kernel may use it.       *)
LEMMA GoneGood ==
  ASSUME NEW r, Good(r, addr), addr \in [Objects -> Ids \cup {None}],
         NEW o \in Objects, addr[o] # None, o \in Fields => backend = "vulkan",
         NEW a, a = r.alloc \/ (a = r.alloc \ {addr[o]} /\ addr[o] \notin InUse(r))
  PROVE  Good([r EXCEPT !.alloc = a], [addr EXCEPT ![o] = None])
<1> DEFINE q == [r EXCEPT !.alloc = a]
           at == [addr EXCEPT ![o] = None]
<1>1. /\ DOMAIN q = Names
      /\ q.alloc = a /\ q.ctx_buffers_ = r.ctx_buffers_
      /\ q.submitted = r.submitted /\ q.refs = r.refs
      /\ q.open = r.open /\ q.cmds = r.cmds /\ q.cmd_refs = r.cmd_refs
      /\ q.ndarrays_in_use_ = r.ndarrays_in_use_
      /\ q.argpacks_in_use_ = r.argpacks_in_use_
  BY DEF Good, Typed, Names
<1>2. InUse(q) = InUse(r) BY <1>1 DEF InUse
<1> HIDE DEF q
<1>3. Typed(q) BY <1>1 DEF Good, Typed
<1>4. Apart(r, addr) /\ Counted(r, addr) /\ Owned(r) BY DEF Good
<1>5. \A o1, o2 \in Objects : addr[o1] = addr[o2] /\ addr[o1] # None => o1 = o2
  BY <1>4 DEF Apart
<1>6. /\ Live(at, Objects) \subseteq Live(addr, Objects) \ {addr[o]}
      /\ Live(at, Fields) \subseteq Live(addr, Fields)
      /\ addr[o] \in Live(addr, Objects)
      /\ \A o1, o2 \in Objects : at[o1] = at[o2] /\ at[o1] # None => o1 = o2
  <2>1. \A o1 \in Objects : at[o1] = IF o1 = o THEN None ELSE addr[o1] OBVIOUS
  <2>2. \A o1 \in Objects : o1 # o => addr[o1] # addr[o] BY <1>5
  <2> HIDE DEF at
  <2>3. QED BY <1>5, <2>1, <2>2 DEF Live, Objects
<1>7. o \notin Fields => Live(at, Fields) = Live(addr, Fields)
  <2>1. \A o1 \in Fields : o \notin Fields => at[o1] = addr[o1] BY DEF Objects
  <2> HIDE DEF at
  <2>2. QED BY <2>1 DEF Live
<1> HIDE DEF at
<1>8. Apart(q, at)
  <2>1. Live(addr, Objects) \cup r.ctx_buffers_ \cup InUse(r) \subseteq r.alloc BY <1>4 DEF Apart
  <2>2. r.ctx_buffers_ \cap (Live(addr, Objects) \cup InUse(r)) = {} BY <1>4 DEF Apart
  <2>3. Live(at, Fields) \cap InUse(q) = {} BY <1>2, <1>4, <1>6 DEF Apart
  <2>4. Live(at, Objects) \cup q.ctx_buffers_ \cup InUse(q) \subseteq q.alloc
    BY <1>1, <1>2, <1>6, <2>1, <2>2
  <2>5. q.ctx_buffers_ \cap (Live(at, Objects) \cup InUse(q)) = {}
    BY <1>1, <1>2, <1>6, <2>2
  <2>6. QED BY <1>6, <2>3, <2>4, <2>5 DEF Apart
<1>9. Counted(q, at)
  <2>1. CASE backend = "vulkan" BY <1>1, <1>4, <2>1 DEF Counted
  <2>2. CASE backend = "opengl" BY <1>1, <1>2, <1>4, <1>7, <2>2 DEF Counted
  <2>3. CASE backend \notin {"vulkan", "opengl"} BY <2>3 DEF Counted
  <2>4. QED BY <2>1, <2>2, <2>3
<1>10. Owned(q) BY <1>1, <1>2, <1>4 DEF Owned
<1>11. QED BY <1>3, <1>8, <1>9, <1>10 DEF Good, q, at

-----------------------------------------------------------------------------
(* The invariant                                                           *)

\* Only the contents of memory are lost when a step ends.
LEMMA BecomeGood ==
  ASSUME NEW r, NEW at, Good(r, at), Become(r)
  PROVE  Good(rt', at)
<1> DEFINE q == [r EXCEPT !.mem = [i \in Ids |-> IF i \in Held(r) THEN r.mem[i] ELSE Garbage]]
<1>1. /\ DOMAIN q = Names
      /\ q.alloc = r.alloc /\ q.ctx_buffers_ = r.ctx_buffers_
      /\ q.submitted = r.submitted /\ q.refs = r.refs
      /\ q.open = r.open /\ q.cmds = r.cmds /\ q.cmd_refs = r.cmd_refs
      /\ q.ndarrays_in_use_ = r.ndarrays_in_use_
      /\ q.argpacks_in_use_ = r.argpacks_in_use_
  BY DEF Good, Typed, Names
<1>2. rt' = q BY DEF Become
<1> HIDE DEF q
<1>3. Typed(q) BY <1>1 DEF Good, Typed
<1>4. Apart(q, at) BY <1>1 DEF Good, Apart, InUse
<1>5. Counted(q, at) /\ Owned(q) BY <1>1 DEF Good, Counted, Owned, InUse
<1>6. QED BY <1>2, <1>3, <1>4, <1>5 DEF Good

LEMMA LaunchKeeps ==
  ASSUME NEW r, Good(r, addr), addr \in [Objects -> Ids \cup {None}],
         backend \in {"vulkan", "opengl"},
         NEW src \in Sources, NEW dst \in Targets, NEW v, LaunchOn(r, src, dst, v)
  PROVE  Good(rt', addr)
<1>1. Ready(r, src, dst) BY DEF LaunchOn
<1>2. PICK bufs \in Injection(Needs(src, dst), Free(r)) :
        LET kept == Kept(Recorded(r, bufs, src, dst, v, TRUE), bufs) IN
        \/ Become(DropList(Idle(Submit(kept))))
        \/ Become(kept) \/ Become(Flushed(kept))
  BY DEF LaunchOn, Kept
<1> DEFINE kept == Kept(Recorded(r, bufs, src, dst, v, TRUE), bufs)
<1>3. Good(kept, addr) BY <1>1, KeptGood
<1> HIDE DEF kept
<1>4. Good(DropList(Idle(Submit(kept))), addr) BY <1>3, DropIdleGood
<1>5. Good(Flushed(kept), addr) BY <1>3, FlushedGood
<1>6. Become(DropList(Idle(Submit(kept)))) \/ Become(kept) \/ Become(Flushed(kept))
  BY <1>2 DEF kept
<1>7. QED BY <1>3, <1>4, <1>5, <1>6, BecomeGood

LEMMA DeviceRunsKeeps ==
  ASSUME Good(rt, addr), DeviceRuns
  PROVE  Good(rt', addr)
<1>1. /\ DOMAIN rt' = Names
      /\ rt'.alloc = rt.alloc /\ rt'.ctx_buffers_ = rt.ctx_buffers_
      /\ rt'.submitted = Tail(rt.submitted) /\ rt'.refs = rt.refs
      /\ rt'.open = rt.open /\ rt'.cmds = rt.cmds /\ rt'.cmd_refs = rt.cmd_refs
      /\ rt'.ndarrays_in_use_ = rt.ndarrays_in_use_
      /\ rt'.argpacks_in_use_ = rt.argpacks_in_use_
  BY DEF Good, Typed, Names, DeviceRuns
<1>2. /\ Tail(rt.submitted) \in Seq(Cmd)
      /\ Range(Tail(rt.submitted)) \subseteq Range(rt.submitted)
  BY TailRange DEF Good, Typed, DeviceRuns
<1>3. Typed(rt') BY <1>1, <1>2 DEF Good, Typed
<1>4. Apart(rt', addr) BY <1>1 DEF Good, Apart, InUse
<1>5. Counted(rt', addr) BY <1>1, <1>2 DEF Good, Counted, InUse, DeviceRuns
<1>6. Owned(rt') BY <1>1, <1>2 DEF Good, Owned, InUse
<1>7. QED BY <1>3, <1>4, <1>5, <1>6 DEF Good

LEMMA StepGood ==
  ASSUME IInv, [Next]_vars
  PROVE  /\ backend' = backend
         /\ addr' \in [Objects -> Ids \cup {None}]
         /\ Good(rt', addr')
<1>1. /\ backend \in {"vulkan", "opengl"}
      /\ addr \in [Objects -> Ids \cup {None}]
      /\ Good(rt, addr)
  BY DEF IInv
<1>2. Good(Synced(rt), addr) BY <1>1, SyncedGood
<1>3. CASE UNCHANGED vars BY <1>1, <1>3 DEF vars
<1>4. ASSUME NEW src \in Sources, NEW dst \in Targets, NEW v \in Values, Launch(src, dst, v)
      PROVE  addr' = addr /\ backend' = backend /\ Good(rt', addr)
  <2>1. LaunchOn(rt, src, dst, v) BY <1>4 DEF Launch
  <2>2. QED BY <1>1, <2>1, LaunchKeeps DEF LaunchOn
<1>5. ASSUME NEW src \in Sources, NEW dst \in Targets, NEW v \in Values,
             NEW done \in BOOLEAN, LaunchFails(src, dst, v, done)
      PROVE  addr' = addr /\ backend' = backend /\ Good(rt', addr)
  <2>1. backend = "vulkan" /\ Ready(rt, src, dst) BY <1>5 DEF LaunchFails
  <2>2. PICK bufs \in Injection(Needs(src, dst), Free(rt)) :
          Become(Thrown(Recorded(rt, bufs, src, dst, v, done), bufs))
    BY <1>5 DEF LaunchFails, Thrown
  <2>3. Good(Thrown(Recorded(rt, bufs, src, dst, v, done), bufs), addr)
    BY <1>1, <2>1, ThrownGood
  <2>4. Good(rt', addr) BY <2>2, <2>3, BecomeGood
  <2>5. QED BY <1>5, <2>4 DEF LaunchFails
<1>6. ASSUME Flush
      PROVE  addr' = addr /\ backend' = backend /\ Good(rt', addr)
  <2>1. Good(Flushed(rt), addr) BY <1>1, FlushedGood
  <2>2. QED BY <1>6, <2>1, BecomeGood DEF Flush
<1>7. ASSUME Synchronize
      PROVE  addr' = addr /\ backend' = backend /\ Good(rt', addr)
  BY <1>2, <1>7, BecomeGood DEF Synchronize
<1>8. ASSUME NEW o \in Arrays \cup Fields, NEW i \in Ids, Create(o, i)
      PROVE  /\ addr' \in [Objects -> Ids \cup {None}]
             /\ backend' = backend /\ Good(rt', addr')
  <2>1. /\ o \in Objects /\ addr[o] = None /\ i \in Free(rt)
        /\ addr' = [addr EXCEPT ![o] = i] /\ backend' = backend
        /\ Become(Copied(Fresh(rt, i), i, 0))
    BY <1>8 DEF Create, Objects
  <2>2. Good(Fresh(rt, i), addr') BY <1>1, <2>1, FreshGood
  <2>3. Good(Copied(Fresh(rt, i), i, 0), addr') BY <2>2, CopiedGood
  <2>4. Good(rt', addr') BY <2>1, <2>3, BecomeGood
  <2>5. QED BY <1>1, <2>1, <2>4
<1>9. ASSUME NEW p \in Packs, NEW i \in Ids, NEW v \in Values, CreatePack(p, i, v)
      PROVE  /\ addr' \in [Objects -> Ids \cup {None}]
             /\ backend' = backend /\ Good(rt', addr')
  <2>1. /\ p \in Objects /\ addr[p] = None /\ i \in Free(rt)
        /\ addr' = [addr EXCEPT ![p] = i] /\ backend' = backend
        /\ Become(Synced(Copied(Fresh(rt, i), i, v)))
    BY <1>9 DEF CreatePack, Objects
  <2>2. Good(Fresh(rt, i), addr') BY <1>1, <2>1, FreshGood
  <2>3. Good(Copied(Fresh(rt, i), i, v), addr') BY <2>2, CopiedGood
  <2>4. Good(Synced(Copied(Fresh(rt, i), i, v)), addr') BY <1>1, <2>3, SyncedGood
  <2>5. Good(rt', addr') BY <2>1, <2>4, BecomeGood
  <2>6. QED BY <1>1, <2>1, <2>5
<1>10. ASSUME NEW o \in Arrays \cup Packs, Delete(o)
       PROVE  /\ addr' \in [Objects -> Ids \cup {None}]
              /\ backend' = backend /\ Good(rt', addr')
  <2> DEFINE a == IF used_in_kernel(addr[o]) THEN rt.alloc ELSE rt.alloc \ {addr[o]}
  <2>1. /\ o \in Objects /\ o \notin Fields /\ addr[o] # None
        /\ addr' = [addr EXCEPT ![o] = None] /\ backend' = backend
        /\ Become([rt EXCEPT !.alloc = a])
    BY <1>10, GfxAssumption DEF Delete, Gone, Objects
  <2>2. a = rt.alloc \/ (a = rt.alloc \ {addr[o]} /\ addr[o] \notin InUse(rt))
    BY DEF used_in_kernel, InUse
  <2> HIDE DEF a
  <2>3. Good([rt EXCEPT !.alloc = a], addr') BY <1>1, <2>1, <2>2, GoneGood
  <2>4. Good(rt', addr') BY <2>1, <2>3, BecomeGood
  <2>5. QED BY <1>1, <2>1, <2>4
<1>11. ASSUME NEW f \in Fields, DestroyField(f)
       PROVE  /\ addr' \in [Objects -> Ids \cup {None}]
              /\ backend' = backend /\ Good(rt', addr')
  <2> DEFINE a == rt.alloc \ {addr[f]}
  <2>1. /\ f \in Objects /\ addr[f] # None /\ backend = "vulkan"
        /\ addr' = [addr EXCEPT ![f] = None] /\ backend' = backend
        /\ Become([rt EXCEPT !.alloc = a])
    BY <1>11 DEF DestroyField, Gone, Objects
  <2>2. addr[f] \in Live(addr, Fields) BY <2>1 DEF Live
  <2>3. addr[f] \notin InUse(rt) BY <1>1, <2>2 DEF Good, Apart
  <2>4. Good([rt EXCEPT !.alloc = a], addr') BY <1>1, <2>1, <2>3, GoneGood
  <2>5. Good(rt', addr') BY <2>1, <2>4, BecomeGood
  <2>6. QED BY <1>1, <2>1, <2>5
<1>12. ASSUME NEW o \in Objects, Read(o)
       PROVE  addr' = addr /\ backend' = backend /\ Good(rt', addr)
  BY <1>2, <1>12, BecomeGood DEF Read
<1>13. ASSUME NEW o \in Arrays \cup Packs, NEW v \in Values, Write(o, v)
       PROVE  addr' = addr /\ backend' = backend /\ Good(rt', addr)
  <2> DEFINE before == IF WritersSync THEN Synced(rt) ELSE rt
  <2>1. Good(before, addr) BY <1>1, <1>2
  <2>2. Become(Synced(Copied(before, addr[o], v))) BY <1>13 DEF Write
  <2> HIDE DEF before
  <2>3. Good(Copied(before, addr[o], v), addr) BY <2>1, CopiedGood
  <2>4. Good(Synced(Copied(before, addr[o], v)), addr) BY <1>1, <2>3, SyncedGood
  <2>5. Good(rt', addr) BY <2>2, <2>4, BecomeGood
  <2>6. QED BY <1>13, <2>5 DEF Write
<1>14. ASSUME NEW f \in Fields, NEW v \in Values, WriteField(f, v)
       PROVE  addr' = addr /\ backend' = backend /\ Good(rt', addr)
  <2>1. LaunchOn(Synced(rt), "args", f, v) BY <1>14 DEF WriteField
  <2>2. "args" \in Sources /\ f \in Targets BY DEF Sources, Targets
  <2>3. Good(rt', addr) BY <1>1, <1>2, <2>1, <2>2, LaunchKeeps
  <2>4. QED BY <2>1, <2>3 DEF LaunchOn
<1>15. ASSUME DeviceRuns
       PROVE  addr' = addr /\ backend' = backend /\ Good(rt', addr)
  <2>1. Good(rt', addr) BY <1>1, <1>15, DeviceRunsKeeps
  <2>2. QED BY <1>15, <2>1 DEF DeviceRuns
<1>16. QED
  BY <1>1, <1>3, <1>4, <1>5, <1>6, <1>7, <1>8, <1>9, <1>10, <1>11, <1>12, <1>13,
     <1>14, <1>15 DEF Next

LEMMA InitIInv == Init => IInv
<1> SUFFICES ASSUME Init PROVE IInv OBVIOUS
<1>1. Typed(rt) BY DEF Init, Typed, Names
<1>2. /\ rt.alloc = {} /\ rt.ctx_buffers_ = {} /\ InUse(rt) = {}
      /\ rt.submitted = <<>> /\ rt.cmds = <<>>
      /\ \A o \in Objects : addr[o] = None
  BY DEF Init, InUse
<1>3. Live(addr, Objects) = {} /\ Live(addr, Fields) = {} BY <1>2 DEF Live, Objects
<1>4. Apart(rt, addr) BY <1>2, <1>3 DEF Apart
<1>5. Counted(rt, addr) /\ Owned(rt) BY <1>2, EmptyRange DEF Counted, Owned
<1>6. QED BY <1>1, <1>4, <1>5 DEF Init, IInv, Good

LEMMA StepIInv == IInv /\ [Next]_vars => IInv'
<1> SUFFICES ASSUME IInv, [Next]_vars PROVE IInv' OBVIOUS
<1>1. /\ backend' = backend
      /\ addr' \in [Objects -> Ids \cup {None}]
      /\ Good(rt', addr')
  BY StepGood
<1>2. Good(rt, addr)'
  BY <1>1 DEF Good, Typed, Apart, Counted, Owned, InUse, Live
<1>3. QED BY <1>1, <1>2 DEF IInv

LEMMA IInvHeld == IInv => MemoryHeld
<1> SUFFICES ASSUME IInv PROVE MemoryHeld OBVIOUS
<1>1. Typed(rt) /\ Apart(rt, addr) /\ Counted(rt, addr) /\ Owned(rt) BY DEF IInv, Good
<1>2. Live(addr, Fields) \subseteq Live(addr, Objects) BY DEF Live, Objects
<1>3. rt.ctx_buffers_ \cup InUse(rt) \cup Live(addr, Fields) \subseteq rt.alloc
  BY <1>1, <1>2 DEF Apart
<1>4. \A c \in Range(rt.submitted) : c.names \subseteq rt.alloc \cup rt.refs
  <2>1. CASE backend = "vulkan" BY <1>1, <2>1 DEF Counted
  <2>2. CASE backend = "opengl" BY <1>1, <2>2, EmptyRange DEF Counted
  <2>3. QED BY <2>1, <2>2 DEF IInv
<1>5. \A c \in Range(rt.cmds) : c.names \subseteq rt.alloc \cup rt.cmd_refs
  <2>1. CASE backend = "vulkan" BY <1>1, <2>1 DEF Counted
  <2>2. CASE backend = "opengl" BY <1>1, <1>3, <2>2 DEF Counted
  <2>3. QED BY <2>1, <2>2 DEF IInv
<1>6. \A c \in Range(rt.submitted \o rt.cmds) : c.owners \subseteq rt.alloc
  <2>1. Range(rt.submitted \o rt.cmds) = Range(rt.submitted) \cup Range(rt.cmds)
    BY <1>1, ConcatRange DEF Typed
  <2>2. QED BY <1>1, <1>3, <2>1 DEF Owned
<1>7. QED BY <1>4, <1>5, <1>6 DEF MemoryHeld

(* No step frees a buffer that a recorded or submitted command has yet to   *)
(* use (GfxRuntime::launch_kernel, flush and synchronize against           *)
(* delete_ndarray, delete_argpack and destroy_snode_tree).                  *)
THEOREM BuffersStay == Spec => []MemoryHeld
<1>1. Init => IInv BY InitIInv
<1>2. IInv /\ [Next]_vars => IInv' BY StepIInv
<1>3. IInv => MemoryHeld BY IInvHeld
<1>4. QED BY <1>1, <1>2, <1>3, PTL DEF Spec

-----------------------------------------------------------------------------
(* Induction                                                               *)

(* A nonempty set of naturals has a least element.                          *)
LEMMA NatMin ==
  ASSUME NEW T, T \subseteq Nat, T # {}
  PROVE  \E x \in T : \A y \in T : ~(y < x)
<1> DEFINE R == {ss \in Nat \X Nat : ss[1] < ss[2]}
<1>1. OpToRel(<, Nat) = R BY DEF OpToRel
<1>2. IsWellFoundedOn(R, Nat) BY <1>1, NatLessThanWellFounded
<1> HIDE DEF R
<1>3. \E x \in T : \A y \in T : ~(<<y, x>> \in R) BY <1>2, WFMin
<1>4. \A x, y \in Nat : x < y => <<x, y>> \in R BY DEF R
<1>5. QED BY <1>3, <1>4

(* Induction, with the set of the naturals that have the property.          *)
LEMMA NatInd ==
  ASSUME NEW P, 0 \in P, \A n \in Nat : n \in P => n + 1 \in P
  PROVE  Nat \subseteq P
<1>1. SUFFICES ASSUME Nat \ P # {} PROVE FALSE OBVIOUS
<1>2. PICK x \in Nat \ P : \A y \in Nat \ P : ~(y < x) BY <1>1, NatMin
<1>3. x # 0 BY <1>2
<1>4. x - 1 \in Nat /\ x - 1 < x /\ x = (x - 1) + 1 BY <1>3
<1>5. x - 1 \in P BY <1>2, <1>4
<1>6. QED BY <1>4, <1>5, <1>2

LEMMA SeqInd ==
  ASSUME NEW S, NEW P, <<>> \in P,
         \A s \in Seq(S), c \in S : s \in P => Append(s, c) \in P
  PROVE  Seq(S) \subseteq P
<1> DEFINE Q == {n \in Nat : \A s \in Seq(S) : Len(s) = n => s \in P}
<1>1. 0 \in Q BY EmptySeq
<1>2. ASSUME NEW n \in Nat, n \in Q PROVE n + 1 \in Q
  <2>1. SUFFICES ASSUME NEW s \in Seq(S), Len(s) = n + 1 PROVE s \in P OBVIOUS
  <2>2. s # <<>> BY <2>1
  <2>3. PICK t \in Seq(S), c \in S : s = Append(t, c) BY <2>2, SequenceEmptyOrAppend
  <2>4. Len(t) = n BY <2>1, <2>3
  <2>5. QED BY <1>2, <2>3, <2>4
<1> HIDE DEF Q
<1>3. Nat \subseteq Q BY <1>1, <1>2, NatInd
<1>4. QED BY <1>3 DEF Q

(* t are the memories while the first n commands of s run, from m on.       *)
IsRun(t, m, s, n) ==
  t = [k \in 0 .. n |-> IF k = 0 THEN m ELSE Run(t[k - 1], s[k])]

LEMMA RunExists ==
  ASSUME NEW m, NEW s, NEW n \in Nat
  PROVE  \E t : IsRun(t, m, s, n)
<1> DEFINE P == {k \in Nat : \E t : IsRun(t, m, s, k)}
<1>1. 0 \in P
  <2> DEFINE t == [k \in 0 .. 0 |-> m]
  <2>1. IsRun(t, m, s, 0) BY DEF IsRun
  <2>2. QED BY <2>1
<1>2. ASSUME NEW k \in Nat, k \in P PROVE k + 1 \in P
  <2>1. PICK t : IsRun(t, m, s, k) BY <1>2
  <2> DEFINE u == [j \in 0 .. k + 1 |-> IF j = k + 1 THEN Run(t[k], s[k + 1]) ELSE t[j]]
  <2>2. \A j \in 0 .. k : t[j] = IF j = 0 THEN m ELSE Run(t[j - 1], s[j]) BY <2>1 DEF IsRun
  <2>3. \A j \in 0 .. k + 1 : u[j] = IF j = 0 THEN m ELSE Run(u[j - 1], s[j])
    <3>1. SUFFICES ASSUME NEW j \in 0 .. k + 1
                   PROVE  u[j] = IF j = 0 THEN m ELSE Run(u[j - 1], s[j]) OBVIOUS
    <3>2. CASE j = 0 BY <2>2, <3>2
    <3>3. CASE j = k + 1
      <4>1. u[j] = Run(t[k], s[k + 1]) /\ u[k] = t[k] /\ j - 1 = k /\ j # 0 BY <3>3
      <4>2. QED BY <3>3, <4>1
    <3>4. CASE j # 0 /\ j # k + 1
      <4>1. j \in 0 .. k /\ j - 1 \in 0 .. k BY <3>4
      <4>2. u[j] = t[j] /\ u[j - 1] = t[j - 1] BY <3>4, <4>1
      <4>3. QED BY <2>2, <3>4, <4>1, <4>2
    <3>5. QED BY <3>2, <3>3, <3>4
  <2>4. IsRun(u, m, s, k + 1)
    <3>1. u = [j \in 0 .. k + 1 |-> u[j]] OBVIOUS
    <3> HIDE DEF u
    <3>2. QED BY <2>3, <3>1 DEF IsRun
  <2>5. QED BY <2>4
<1> HIDE DEF P
<1>3. Nat \subseteq P BY <1>1, <1>2, NatInd
<1>4. QED BY <1>3 DEF P

LEMMA RunUnique ==
  ASSUME NEW m, NEW s, NEW n \in Nat, NEW t, IsRun(t, m, s, n),
         NEW z, NEW l \in Nat, NEW u, IsRun(u, m, z, l),
         n <= l, \A k \in 1 .. n : s[k] = z[k]
  PROVE  t[n] = u[n]
<1> DEFINE P == {k \in Nat : k <= n => t[k] = u[k]}
<1>1. \A k \in 0 .. n : t[k] = IF k = 0 THEN m ELSE Run(t[k - 1], s[k]) BY DEF IsRun
<1>2. \A k \in 0 .. l : u[k] = IF k = 0 THEN m ELSE Run(u[k - 1], z[k]) BY DEF IsRun
<1>3. 0 \in P BY <1>1, <1>2
<1>4. ASSUME NEW k \in Nat, k \in P PROVE k + 1 \in P
  <2>1. SUFFICES ASSUME k + 1 <= n PROVE t[k + 1] = u[k + 1] OBVIOUS
  <2>2. k + 1 \in 0 .. n /\ k + 1 \in 0 .. l /\ k + 1 # 0 /\ (k + 1) - 1 = k /\ k + 1 \in 1 .. n BY <2>1
  <2>3. t[k] = u[k] BY <1>4, <2>1
  <2>4. t[k + 1] = Run(t[k], s[k + 1]) /\ u[k + 1] = Run(u[k], z[k + 1]) BY <1>1, <1>2, <2>2
  <2>5. QED BY <2>2, <2>3, <2>4
<1> HIDE DEF P
<1>5. Nat \subseteq P BY <1>3, <1>4, NatInd
<1>6. QED BY <1>5 DEF P

LEMMA RunAllIsRun ==
  ASSUME NEW m, NEW S, NEW s \in Seq(S)
  PROVE  \E t : IsRun(t, m, s, Len(s)) /\ RunAll(m, s) = t[Len(s)]
<1> DEFINE run == CHOOSE t : IsRun(t, m, s, Len(s))
<1>1. Len(s) \in Nat OBVIOUS
<1>2. IsRun(run, m, s, Len(s)) BY <1>1, RunExists
<1>3. RunAll(m, s) = run[Len(s)] BY DEF RunAll, IsRun
<1>4. QED BY <1>2, <1>3

LEMMA RunNone == ASSUME NEW m PROVE RunAll(m, <<>>) = m
<1>1. PICK t : IsRun(t, m, <<>>, Len(<<>>)) /\ RunAll(m, <<>>) = t[Len(<<>>)]
  BY RunAllIsRun, EmptySeq
<1>2. QED BY <1>1 DEF IsRun

LEMMA RunAppend ==
  ASSUME NEW m, NEW S, NEW s \in Seq(S), NEW c \in S
  PROVE  RunAll(m, Append(s, c)) = Run(RunAll(m, s), c)
<1> DEFINE z == Append(s, c)
           n == Len(s)
<1>1. z \in Seq(S) /\ Len(z) = n + 1 /\ n \in Nat /\ z[n + 1] = c
      /\ \A k \in 1 .. n : s[k] = z[k]
  OBVIOUS
<1> HIDE DEF z, n
<1>2. PICK t : IsRun(t, m, s, n) /\ RunAll(m, s) = t[n] BY RunAllIsRun DEF n
<1>3. PICK u : IsRun(u, m, z, n + 1) /\ RunAll(m, z) = u[n + 1]
  BY <1>1, RunAllIsRun
<1>4. t[n] = u[n]
  <2>1. n + 1 \in Nat /\ n <= n + 1 BY <1>1
  <2>2. QED BY <1>1, <1>2, <1>3, <2>1, RunUnique
<1>5. u[n + 1] = Run(u[n], z[n + 1])
  <2>1. n + 1 \in 0 .. n + 1 /\ n + 1 # 0 /\ (n + 1) - 1 = n BY <1>1
  <2>2. \A k \in 0 .. n + 1 : u[k] = IF k = 0 THEN m ELSE Run(u[k - 1], z[k]) BY <1>3 DEF IsRun
  <2>3. QED BY <2>1, <2>2
<1>6. QED BY <1>1, <1>2, <1>3, <1>4, <1>5 DEF z

LEMMA StoredContent ==
  ASSUME NEW x \in Content
  PROVE  Stored(x) \in Content
<1>1. CASE x = Garbage BY <1>1 DEF Stored, Content
<1>2. CASE x # Garbage
  <2>1. x \in 0 .. N - 1 /\ N \in Nat \ {0} BY <1>2, GfxAssumption DEF Content, Values
  <2>2. \A a \in Int, b \in Nat \ {0} : a % b \in 0 .. b - 1 OBVIOUS
  <2>3. (x + 1) % N \in 0 .. N - 1 BY <2>1, <2>2
  <2>4. QED BY <1>2, <2>3 DEF Stored, Content, Values
<1>3. QED BY <1>1, <1>2

LEMMA RunMem ==
  ASSUME NEW m \in Mem, NEW c \in Cmd
  PROVE  /\ Run(m, c) \in Mem
         /\ c.in \in Ids /\ c.out \in Ids
         /\ \A i \in Ids : Run(m, c)[i] = IF i = c.out THEN Stored(m[c.in]) ELSE m[i]
<1>1. c.in \in Ids /\ c.out \in Ids BY DEF Cmd
<1>2. Stored(m[c.in]) \in Content BY <1>1, StoredContent DEF Mem
<1>3. /\ m \in [Ids -> Content]
      /\ Run(m, c) = [m EXCEPT ![c.out] = Stored(m[c.in])]
  BY DEF Run, Mem
<1>4. Run(m, c) \in [Ids -> Content] BY <1>1, <1>2, <1>3
<1>5. \A i \in Ids : Run(m, c)[i] = IF i = c.out THEN Stored(m[c.in]) ELSE m[i]
  BY <1>1, <1>3
<1>6. QED BY <1>1, <1>4, <1>5 DEF Mem

LEMMA RunAllMem ==
  ASSUME NEW m \in Mem, NEW s \in Seq(Cmd)
  PROVE  RunAll(m, s) \in Mem
<1> DEFINE P == {z \in Seq(Cmd) : RunAll(m, z) \in Mem}
<1>1. <<>> \in P BY RunNone, EmptySeq
<1>2. ASSUME NEW z \in Seq(Cmd), NEW c \in Cmd, z \in P PROVE Append(z, c) \in P
  <2>1. RunAll(m, Append(z, c)) = Run(RunAll(m, z), c) BY RunAppend
  <2>2. Append(z, c) \in Seq(Cmd) OBVIOUS
  <2>3. QED BY <1>2, <2>1, <2>2, RunMem
<1> HIDE DEF P
<1>3. Seq(Cmd) \subseteq P BY <1>1, <1>2, SeqInd
<1>4. QED BY <1>3 DEF P

LEMMA RunConcat ==
  ASSUME NEW m, NEW S, NEW s \in Seq(S), NEW t \in Seq(S)
  PROVE  RunAll(m, s \o t) = RunAll(RunAll(m, s), t)
<1> DEFINE P == {z \in Seq(S) : RunAll(m, s \o z) = RunAll(RunAll(m, s), z)}
<1>1. <<>> \in P
  <2>1. s \o <<>> = s BY ConcatEmptySeq
  <2>2. QED BY <2>1, RunNone, EmptySeq
<1>2. ASSUME NEW z \in Seq(S), NEW c \in S, z \in P PROVE Append(z, c) \in P
  <2>1. /\ s \o Append(z, c) = Append(s \o z, c)
        /\ s \o z \in Seq(S) /\ Append(z, c) \in Seq(S)
    OBVIOUS
  <2>2. RunAll(m, Append(s \o z, c)) = Run(RunAll(m, s \o z), c)
    <3> DEFINE y == s \o z
    <3>1. y \in Seq(S) BY <2>1
    <3> HIDE DEF y
    <3>2. RunAll(m, Append(y, c)) = Run(RunAll(m, y), c) BY <3>1, RunAppend
    <3>3. QED BY <3>2 DEF y
  <2>3. RunAll(RunAll(m, s), Append(z, c)) = Run(RunAll(RunAll(m, s), z), c) BY RunAppend
  <2>4. QED BY <1>2, <2>1, <2>2, <2>3
<1> HIDE DEF P
<1>3. Seq(S) \subseteq P BY <1>1, <1>2, SeqInd
<1>4. QED BY <1>3 DEF P

LEMMA RunHead ==
  ASSUME NEW m, NEW S, NEW s \in Seq(S), s # <<>>
  PROVE  RunAll(m, s) = RunAll(Run(m, Head(s)), Tail(s))
<1> DEFINE h == Head(s)
           t == Tail(s)
           e == Append(<<>>, h)
<1>1. h \in S /\ t \in Seq(S) /\ <<>> \in Seq(S) /\ e \in Seq(S) /\ s = e \o t
  OBVIOUS
<1> HIDE DEF h, t, e
<1>2. RunAll(m, e) = Run(RunAll(m, <<>>), h) BY <1>1, RunAppend DEF e
<1>3. RunAll(m, e \o t) = RunAll(RunAll(m, e), t) BY <1>1, RunConcat
<1>4. RunAll(m, s) = RunAll(Run(m, h), t) BY <1>1, <1>2, <1>3, RunNone
<1>5. QED BY <1>4 DEF h, t

Agree(H, m1, m2) == \A i \in H : m1[i] = m2[i]
LoadsFrom(H, cmds) == \A c \in cmds : c.in \in H

(* Memories that agree on H, where all commands load from, agree on H when  *)
(* these have run.                                                          *)
LEMMA RunAgree ==
  ASSUME NEW H, H \subseteq Ids, NEW m1 \in Mem, NEW m2 \in Mem, Agree(H, m1, m2),
         NEW s \in Seq(Cmd), LoadsFrom(H, Range(s))
  PROVE  Agree(H, RunAll(m1, s), RunAll(m2, s))
<1> DEFINE P == {z \in Seq(Cmd) : (\A c \in Range(z) : c.in \in H) =>
                    \A i \in H : RunAll(m1, z)[i] = RunAll(m2, z)[i]}
<1>1. <<>> \in P BY RunNone, EmptySeq DEF Agree
<1>2. ASSUME NEW z \in Seq(Cmd), NEW c \in Cmd, z \in P PROVE Append(z, c) \in P
  <2>1. Append(z, c) \in Seq(Cmd) /\ Range(Append(z, c)) = Range(z) \cup {c}
    BY AppendRange
  <2>2. SUFFICES ASSUME \A d \in Range(Append(z, c)) : d.in \in H, NEW i \in H
                 PROVE  RunAll(m1, Append(z, c))[i] = RunAll(m2, Append(z, c))[i]
    BY <2>1
  <2>3. /\ c.in \in H
        /\ \A j \in H : RunAll(m1, z)[j] = RunAll(m2, z)[j]
    BY <1>2, <2>1, <2>2
  <2>4. RunAll(m1, z) \in Mem /\ RunAll(m2, z) \in Mem BY RunAllMem
  <2>5. /\ Run(RunAll(m1, z), c)[i] = IF i = c.out THEN Stored(RunAll(m1, z)[c.in]) ELSE RunAll(m1, z)[i]
        /\ Run(RunAll(m2, z), c)[i] = IF i = c.out THEN Stored(RunAll(m2, z)[c.in]) ELSE RunAll(m2, z)[i]
    BY <2>4, RunMem
  <2>6. /\ RunAll(m1, Append(z, c)) = Run(RunAll(m1, z), c)
        /\ RunAll(m2, Append(z, c)) = Run(RunAll(m2, z), c)
    BY RunAppend
  <2>7. QED BY <2>3, <2>5, <2>6
<1> HIDE DEF P
<1>3. Seq(Cmd) \subseteq P BY <1>1, <1>2, SeqInd
<1>4. QED BY <1>3 DEF P, Agree, LoadsFrom

(* What no command stores to stays.                                         *)
LEMMA RunApart ==
  ASSUME NEW m \in Mem, NEW s \in Seq(Cmd), NEW i \in Ids,
         \A c \in Range(s) : c.out # i
  PROVE  RunAll(m, s)[i] = m[i]
<1> DEFINE P == {z \in Seq(Cmd) : (\A c \in Range(z) : c.out # i) => RunAll(m, z)[i] = m[i]}
<1>1. <<>> \in P BY RunNone, EmptySeq
<1>2. ASSUME NEW z \in Seq(Cmd), NEW c \in Cmd, z \in P PROVE Append(z, c) \in P
  <2>1. Append(z, c) \in Seq(Cmd) /\ Range(Append(z, c)) = Range(z) \cup {c}
    BY AppendRange
  <2>2. SUFFICES ASSUME \A d \in Range(Append(z, c)) : d.out # i
                 PROVE  RunAll(m, Append(z, c))[i] = m[i]
    BY <2>1
  <2>3. c.out # i /\ RunAll(m, z)[i] = m[i] BY <1>2, <2>1, <2>2
  <2>4. RunAll(m, z) \in Mem BY RunAllMem
  <2>5. Run(RunAll(m, z), c)[i] = RunAll(m, z)[i] BY <2>3, <2>4, RunMem
  <2>6. RunAll(m, Append(z, c)) = Run(RunAll(m, z), c) BY RunAppend
  <2>7. QED BY <2>3, <2>5, <2>6
<1> HIDE DEF P
<1>3. Seq(Cmd) \subseteq P BY <1>1, <1>2, SeqInd
<1>4. QED BY <1>3 DEF P

-----------------------------------------------------------------------------
(* The program order                                                       *)

(* Memory after everything that is pending.                                 *)
Final(r) == RunAll(RunAll(r.mem, r.submitted), r.cmds)

Ordered(r, at, w) ==
  /\ r.mem \in Mem
  /\ \A o \in Objects : at[o] # None => Final(r)[at[o]] = w[o]

(* q is as r to the commands and will be.                                   *)
Alike(q, r) == q.mem \in Mem /\ Final(q) = Final(r)

(* The device is idle and has run everything.                               *)
Done(q, r) == /\ q.mem = Final(r) /\ q.mem \in Mem /\ Final(q) = Final(r)
              /\ q.submitted = <<>> /\ q.cmds = <<>>

OrderInv ==
  /\ IInv
  /\ want \in [Objects -> Content]
  /\ Ordered(rt, addr, want)
  /\ HostReads

LEMMA FinalMem ==
  ASSUME NEW r, Typed(r), r.mem \in Mem
  PROVE  Final(r) \in Mem
BY RunAllMem DEF Final, Typed

LEMMA ClearCtxFinal ==
  ASSUME NEW r, Typed(r), r.mem \in Mem
  PROVE  /\ Alike(ClearCtx(r), r)
         /\ ClearCtx(r).mem = r.mem /\ ClearCtx(r).submitted = r.submitted
         /\ ClearCtx(r).cmds = r.cmds
<1> DEFINE q == ClearCtx(r)
<1>1. q.mem = r.mem /\ q.submitted = r.submitted /\ q.cmds = r.cmds
  BY DEF Typed, Names, ClearCtx
<1>2. QED BY <1>1 DEF Alike, Final

LEMMA IdleFinal ==
  ASSUME NEW r, Typed(r), r.mem \in Mem
  PROVE  /\ Alike(Idle(r), r)
         /\ Idle(r).mem = RunAll(r.mem, r.submitted)
         /\ Idle(r).submitted = <<>> /\ Idle(r).cmds = r.cmds
<1> DEFINE q == Idle(r)
<1>1. q.mem = RunAll(r.mem, r.submitted) /\ q.submitted = <<>> /\ q.cmds = r.cmds
  BY DEF Typed, Names, Idle
<1>2. q.mem \in Mem BY <1>1, RunAllMem DEF Typed
<1>3. QED BY <1>1, <1>2, RunNone DEF Alike, Final

LEMMA DropListFields ==
  ASSUME NEW r, DOMAIN r = Names
  PROVE  /\ DropList(r).mem = r.mem
         /\ DropList(r).submitted = r.submitted
         /\ DropList(r).cmds = <<>>
BY DEF Names, DropList, ClearCtx

LEMMA SubmitFields ==
  ASSUME NEW r, Typed(r), backend \in {"vulkan", "opengl"}
  PROVE  /\ DOMAIN Submit(r) = Names
         /\ backend = "vulkan" => /\ Submit(r).mem = r.mem
                                  /\ Submit(r).submitted = r.submitted \o r.cmds
         /\ backend = "opengl" => /\ Submit(r).mem = RunAll(r.mem, r.cmds)
                                  /\ Submit(r).submitted = r.submitted
BY DEF Typed, Names, Submit

(* What is submitted on the one device, or run at once on the other, gives  *)
(* what the list would have given.                                          *)
LEMMA SubmitFinal ==
  ASSUME NEW r, NEW at, Good(r, at), r.mem \in Mem, backend \in {"vulkan", "opengl"}
  PROVE  LET q == Submit(r) IN
         /\ q.mem \in Mem /\ q.submitted \in Seq(Cmd)
         /\ RunAll(q.mem, q.submitted) = Final(r)
<1> DEFINE q == Submit(r)
<1>1. Typed(r) /\ r.submitted \in Seq(Cmd) /\ r.cmds \in Seq(Cmd) BY DEF Good, Typed
<1>2. CASE backend = "vulkan"
  <2>1. q.mem = r.mem /\ q.submitted = r.submitted \o r.cmds BY <1>1, <1>2, SubmitFields
  <2>2. r.submitted \o r.cmds \in Seq(Cmd) BY <1>1
  <2>3. RunAll(r.mem, r.submitted \o r.cmds) = Final(r) BY <1>1, RunConcat DEF Final
  <2> HIDE DEF q
  <2>4. QED BY <2>1, <2>2, <2>3 DEF q
<1>3. CASE backend = "opengl"
  <2>1. q.mem = RunAll(r.mem, r.cmds) /\ q.submitted = r.submitted
    BY <1>1, <1>3, SubmitFields
  <2>2. r.submitted = <<>> BY <1>3 DEF Good, Counted
  <2>3. RunAll(r.mem, r.cmds) \in Mem BY <1>1, RunAllMem
  <2>4. Final(r) = RunAll(r.mem, r.cmds) BY <2>2, RunNone DEF Final
  <2> HIDE DEF q
  <2>5. QED BY <1>1, <2>1, <2>2, <2>3, <2>4, RunNone DEF q
<1>4. QED BY <1>2, <1>3

LEMMA FlushedFinal ==
  ASSUME NEW r, NEW at, Good(r, at), r.mem \in Mem, backend \in {"vulkan", "opengl"}
  PROVE  Alike(Flushed(r), r) /\ Flushed(r).cmds = <<>>
<1>1. Typed(r) BY DEF Good
<1>2. CASE r.open
  <2> DEFINE s == Submit(r)
             q == DropList(s)
  <2>1. DOMAIN s = Names BY <1>1, SubmitFields
  <2>2. s.mem \in Mem /\ RunAll(s.mem, s.submitted) = Final(r) BY SubmitFinal
  <2> HIDE DEF s
  <2>3. q.mem = s.mem /\ q.submitted = s.submitted /\ q.cmds = <<>>
    BY <2>1, DropListFields
  <2> HIDE DEF q
  <2>4. Alike(q, r) BY <2>2, <2>3, RunNone DEF Alike, Final
  <2>5. QED BY <1>2, <2>3, <2>4 DEF Flushed, q, s
<1>3. CASE ~r.open BY <1>1, <1>3 DEF Flushed, Typed, Alike
<1>4. QED BY <1>2, <1>3

LEMMA SyncedFinal ==
  ASSUME NEW r, NEW at, Good(r, at), r.mem \in Mem, backend \in {"vulkan", "opengl"}
  PROVE  Done(Synced(r), r)
<1> DEFINE fl == Flushed(r)
           id == Idle(fl)
           cl == ClearCtx(id)
           q == Synced(r)
<1>1. Good(fl, at) /\ fl.cmds = <<>> /\ Alike(fl, r) BY FlushedGood, FlushedFinal
<1>2. Good(id, at) BY <1>1, IdleGood
<1> HIDE DEF fl
<1>3. /\ Alike(id, fl) /\ id.mem = RunAll(fl.mem, fl.submitted)
      /\ id.submitted = <<>> /\ id.cmds = fl.cmds
  BY <1>1, IdleFinal DEF Good, Alike
<1> HIDE DEF id
<1>4. Good(cl, at) BY <1>1, <1>2, <1>3, ClearCtxGood
<1>5. cl.mem = id.mem /\ cl.submitted = <<>> /\ cl.cmds = <<>>
  BY <1>1, <1>2, <1>3, ClearCtxFinal DEF Good, Alike
<1> HIDE DEF cl
<1>6. q = [cl EXCEPT !.ndarrays_in_use_ = {}] BY DEF Synced, cl, id, fl
<1>7. q.mem = cl.mem /\ q.submitted = <<>> /\ q.cmds = <<>>
  BY <1>4, <1>5, <1>6 DEF Good, Typed, Names
<1> HIDE DEF q
<1>8. Final(fl) = RunAll(fl.mem, fl.submitted) BY <1>1, RunNone DEF Final
<1>9. q.mem = Final(r) /\ q.mem \in Mem BY <1>1, <1>3, <1>5, <1>7, <1>8 DEF Alike
<1>10. Final(q) = Final(r) BY <1>7, <1>9, RunNone DEF Final
<1>11. QED BY <1>7, <1>9, <1>10 DEF Done, q

LEMMA DropIdleFinal ==
  ASSUME NEW r, NEW at, Good(r, at), r.mem \in Mem, backend \in {"vulkan", "opengl"}
  PROVE  /\ Alike(DropList(Idle(Submit(r))), r)
         /\ Idle(Submit(r)).mem = Final(r)
<1> DEFINE s == Submit(r)
           id == Idle(s)
           q == DropList(id)
<1>1. DOMAIN s = Names BY SubmitFields DEF Good
<1>2. s.mem \in Mem /\ s.submitted \in Seq(Cmd) /\ RunAll(s.mem, s.submitted) = Final(r)
  BY SubmitFinal
<1> HIDE DEF s
<1>3. DOMAIN id = Names /\ id.mem = RunAll(s.mem, s.submitted) /\ id.submitted = <<>>
  BY <1>1 DEF Idle, Names
<1> HIDE DEF id
<1>4. q.mem = id.mem /\ q.submitted = <<>> /\ q.cmds = <<>> BY <1>3, DropListFields
<1> HIDE DEF q
<1>5. id.mem = Final(r) /\ id.mem \in Mem BY <1>2, <1>3, RunAllMem
<1>6. Alike(q, r) BY <1>4, <1>5, RunNone DEF Alike, Final
<1>7. QED BY <1>5, <1>6 DEF q, id, s

(* The buffers of what is pending and of the objects are held.              *)
Pending(r) == Range(r.submitted) \cup Range(r.cmds)

LEMMA PendingHeld ==
  ASSUME NEW r, NEW at, Good(r, at), backend \in {"vulkan", "opengl"}
  PROVE  /\ \A c \in Pending(r) : {c.in, c.out} \subseteq Held(r) \cap Ids
         /\ \A o \in Objects : at[o] # None => at[o] \in Held(r)
<1>1. Typed(r) /\ Apart(r, at) /\ Counted(r, at) BY DEF Good
<1>2. Live(at, Objects) \cup r.ctx_buffers_ \cup InUse(r) \subseteq Held(r)
  BY <1>1 DEF Apart, Held
<1>3. Live(at, Fields) \subseteq Live(at, Objects) BY DEF Live, Objects
<1>4. \A c \in Pending(r) : c.names \subseteq Held(r)
  <2>1. CASE backend = "vulkan" BY <1>1, <2>1 DEF Counted, Held, Pending
  <2>2. CASE backend = "opengl"
    <3>1. r.submitted = <<>> /\ \A c \in Range(r.cmds) :
             c.names \subseteq r.ctx_buffers_ \cup InUse(r) \cup Live(at, Fields)
      BY <1>1, <2>2 DEF Counted
    <3>2. QED BY <1>2, <1>3, <3>1, EmptyRange DEF Pending
  <2>3. QED BY <2>1, <2>2
<1>5. Pending(r) \subseteq Cmd BY <1>1 DEF Pending, Typed, Range
<1>6. \A c \in Pending(r) : {c.in, c.out} \subseteq c.names \cap Ids
  BY <1>5 DEF Cmd
<1>7. \A o \in Objects : at[o] # None => at[o] \in Held(r) BY <1>2 DEF Live
<1>8. QED BY <1>4, <1>6, <1>7

(* Memories that agree on H, where all that is pending loads from, are      *)
(* going to agree on H.                                                     *)
LEMMA FinalAgree ==
  ASSUME NEW r, Typed(r), r.mem \in Mem, NEW q, Typed(q), q.mem \in Mem,
         q.submitted = r.submitted, q.cmds = r.cmds,
         NEW H, H \subseteq Ids, Agree(H, q.mem, r.mem), LoadsFrom(H, Pending(r))
  PROVE  Agree(H, Final(q), Final(r))
<1>1. r.submitted \in Seq(Cmd) /\ r.cmds \in Seq(Cmd) BY DEF Typed
<1> DEFINE a == RunAll(q.mem, r.submitted)
           b == RunAll(r.mem, r.submitted)
<1>2. LoadsFrom(H, Range(r.submitted)) BY DEF LoadsFrom, Pending
<1>3. Agree(H, a, b) BY <1>2, <1>1, RunAgree
<1>4. a \in Mem /\ b \in Mem BY <1>1, RunAllMem
<1>5. Final(q) = RunAll(a, r.cmds) /\ Final(r) = RunAll(b, r.cmds) BY DEF Final
<1>6. LoadsFrom(H, Range(r.cmds)) BY DEF LoadsFrom, Pending
<1> HIDE DEF a, b
<1>7. Agree(H, RunAll(a, r.cmds), RunAll(b, r.cmds))
  BY <1>1, <1>3, <1>4, <1>6, RunAgree
<1>8. QED BY <1>5, <1>7

(* What nothing pending stores to stays.                                    *)
LEMMA FinalApart ==
  ASSUME NEW r, Typed(r), r.mem \in Mem, NEW i \in Ids,
         \A c \in Pending(r) : c.out # i
  PROVE  Final(r)[i] = r.mem[i]
<1>1. r.submitted \in Seq(Cmd) /\ r.cmds \in Seq(Cmd) BY DEF Typed
<1>2. RunAll(r.mem, r.submitted)[i] = r.mem[i] BY <1>1, RunApart DEF Pending
<1>3. RunAll(r.mem, r.submitted) \in Mem BY <1>1, RunAllMem
<1>4. QED BY <1>1, <1>2, <1>3, RunApart DEF Final, Pending

(* Memory that nobody holds has no content, and none that matters.          *)
LEMMA BecomeOrdered ==
  ASSUME NEW r, NEW at, Good(r, at), NEW w, Ordered(r, at, w), Become(r),
         at \in [Objects -> Ids \cup {None}], backend \in {"vulkan", "opengl"}
  PROVE  Ordered(rt', at, w)
<1> DEFINE q == rt'
           H == Held(r) \cap Ids
<1>1. Typed(r) /\ r.mem \in Mem BY DEF Good, Ordered
<1>2. /\ q.mem = [i \in Ids |-> IF i \in Held(r) THEN r.mem[i] ELSE Garbage]
      /\ q.submitted = r.submitted /\ q.cmds = r.cmds
  BY <1>1 DEF Become, Typed, Names
<1>3. Typed(q) BY BecomeGood DEF Good
<1> HIDE DEF q
<1>4. q.mem \in Mem BY <1>1, <1>2 DEF Mem, Content
<1>5. Agree(H, q.mem, r.mem) BY <1>2 DEF Agree
<1>6. LoadsFrom(H, Pending(r)) BY PendingHeld DEF LoadsFrom
<1>7. \A o \in Objects : at[o] # None => at[o] \in H BY PendingHeld, GfxAssumption
<1> HIDE DEF H
<1>8. H \subseteq Ids BY DEF H
<1>9. Agree(H, Final(q), Final(r))
  <2>1. q.submitted = r.submitted /\ q.cmds = r.cmds BY <1>2
  <2>2. QED BY <1>1, <1>3, <1>4, <1>5, <1>6, <1>8, <2>1, FinalAgree
<1>10. \A o \in Objects : at[o] # None => Final(q)[at[o]] = w[o]
  BY <1>7, <1>9 DEF Ordered, Agree
<1>11. QED BY <1>4, <1>10 DEF Ordered, q

LEMMA AlikeOrdered ==
  ASSUME NEW r, NEW at, NEW w, Ordered(r, at, w), NEW q, Alike(q, r)
  PROVE  Ordered(q, at, w)
BY DEF Alike, Ordered

(* A copy into a buffer that nothing in the open list works on.             *)
LEMMA CopiedFinal ==
  ASSUME NEW r, NEW at, Good(r, at), r.mem \in Mem, NEW i \in Ids, NEW v \in Content,
         \A c \in Range(r.cmds) : c.in # i /\ c.out # i
  PROVE  /\ Copied(r, i, v).mem \in Mem
         /\ \A j \in Ids : Final(Copied(r, i, v))[j] = IF j = i THEN v ELSE Final(r)[j]
<1> DEFINE p == Idle(r)
           q == Copied(r, i, v)
<1>1. Typed(r) BY DEF Good
<1>2. Alike(p, r) /\ p.submitted = <<>> /\ p.cmds = r.cmds BY <1>1, IdleFinal
<1>3. Typed(p) BY IdleGood DEF Good
<1>4. Typed(q) BY CopiedGood DEF Good
<1>5. q = [p EXCEPT !.mem[i] = v] BY DEF Copied
<1> HIDE DEF p, q
<1>6. /\ q.mem = [p.mem EXCEPT ![i] = v]
      /\ q.submitted = p.submitted /\ q.cmds = p.cmds
  BY <1>3, <1>5 DEF Typed, Names
<1>7. p.mem \in Mem BY <1>2 DEF Alike
<1>8. q.mem \in Mem /\ q.mem[i] = v /\ \A j \in Ids \ {i} : q.mem[j] = p.mem[j]
  BY <1>6, <1>7 DEF Mem
<1>9. Pending(p) = Range(r.cmds) /\ Pending(q) = Range(r.cmds)
  BY <1>2, <1>6, EmptyRange DEF Pending
<1>10. r.cmds \in Seq(Cmd) BY <1>1 DEF Typed
<1>11. \A c \in Range(r.cmds) : c.in \in Ids \ {i}
  BY <1>10 DEF Range, Cmd
<1>12. \A j \in Ids \ {i} : Final(q)[j] = Final(p)[j]
  <2> DEFINE H == Ids \ {i}
  <2>1. H \subseteq Ids OBVIOUS
  <2>2. Agree(H, q.mem, p.mem) BY <1>8 DEF Agree
  <2>3. LoadsFrom(H, Pending(p)) BY <1>9, <1>11 DEF LoadsFrom
  <2>4. q.mem \in Mem BY <1>8
  <2> HIDE DEF H
  <2>5. Agree(H, Final(q), Final(p))
    BY <1>3, <1>4, <1>6, <1>7, <2>1, <2>2, <2>3, <2>4, FinalAgree
  <2>6. QED BY <2>5 DEF Agree, H
<1>13. Final(q)[i] = v BY <1>4, <1>8, <1>9, FinalApart
<1>14. QED BY <1>2, <1>8, <1>12, <1>13 DEF Alike, q

(* What is pending in q has the effect that a kernel stored x to dst.       *)
Effect(q, bufs, dst, x, done) ==
  /\ Ordered(q, addr, IF done /\ dst \in Objects THEN [want EXCEPT ![dst] = x] ELSE want)
  /\ done /\ dst \in {"ret", "ext"} => Final(q)[bufs[dst]] = x

(* A kernel that is recorded adds its effect to what is pending.            *)
LEMMA RecordedFinal ==
  ASSUME NEW r, Good(r, addr), Ordered(r, addr, want),
         addr \in [Objects -> Ids \cup {None}], want \in [Objects -> Content],
         backend \in {"vulkan", "opengl"},
         NEW src \in Sources, NEW dst \in Targets, NEW v \in Values,
         NEW done \in BOOLEAN, Ready(r, src, dst),
         NEW bufs \in Injection(Needs(src, dst), Free(r))
  PROVE  Effect(Recorded(r, bufs, src, dst, v, done), bufs, dst, Stored(Loaded(src, v)), done)
<1> DEFINE q == Recorded(r, bufs, src, dst, v, done)
           x == Stored(Loaded(src, v))
           c == Command(bufs, src, dst)
           p == [r EXCEPT !.mem = Uploaded(@, bufs, src, v)]
           up == src \in {"args", "ext"}
           b == bufs[src]
<1>1. IsNew(r, bufs, src, dst) BY CommandFacts
<1>2. Typed(r) /\ Apart(r, addr) /\ r.mem \in Mem BY DEF Good, Ordered
<1>3. DOMAIN r = Names /\ r.submitted \in Seq(Cmd) /\ r.cmds \in Seq(Cmd)
  BY <1>2 DEF Typed
<1>4. /\ q.mem = Uploaded(r.mem, bufs, src, v)
      /\ q.submitted = r.submitted
      /\ q.cmds = IF done THEN Append(r.cmds, c) ELSE r.cmds
  BY <1>3 DEF Recorded, Names
<1>5. /\ DOMAIN p = Names /\ p.mem = Uploaded(r.mem, bufs, src, v)
      /\ p.submitted = r.submitted /\ p.cmds = r.cmds /\ p.open = r.open
  BY <1>3 DEF Names
<1>6. c \in Cmd BY <1>1 DEF IsNew
<1>7. c.in = Place(bufs, src) /\ c.out = Place(bufs, dst) BY DEF Command
<1>8. bufs \in [Needs(src, dst) -> Free(r)]
      /\ \A o1, o2 \in Needs(src, dst) : bufs[o1] = bufs[o2] => o1 = o2
  BY DEF Injection, IsInjective
<1>9. /\ up => src \in Needs(src, dst) /\ src \notin Objects
      /\ ~up => src \in Objects
      /\ dst \in {"ret", "ext"} <=> dst \notin Objects
      /\ dst \notin Objects => dst \in Needs(src, dst)
  BY GfxAssumption DEF Needs, Sources, Targets, Objects
<1>10. \A o \in Objects : addr[o] # None => addr[o] \in Held(r) /\ addr[o] \in Ids
  BY PendingHeld, GfxAssumption
<1>11. \A o \in Needs(src, dst) : bufs[o] \in Ids /\ bufs[o] \notin Held(r)
  BY <1>8 DEF Free
<1>12. \A d \in Pending(r) : {d.in, d.out} \subseteq Held(r) \cap Ids BY PendingHeld
<1> HIDE DEF q, p, c
<1>13. Typed(p) BY <1>2, <1>5 DEF Typed
<1>14. /\ p.mem \in Mem
       /\ up => p.mem[b] = v
       /\ \A i \in Ids : ~(up /\ i = b) => p.mem[i] = r.mem[i]
  <2>1. CASE up
    <3>1. p.mem = [r.mem EXCEPT ![b] = v] BY <1>5, <2>1 DEF Uploaded
    <3>2. b \in Ids /\ v \in Content BY <1>9, <1>11, <2>1 DEF Content
    <3>3. QED BY <1>2, <2>1, <3>1, <3>2 DEF Mem
  <2>2. CASE ~up
    <3>1. p.mem = r.mem BY <1>5, <2>2 DEF Uploaded
    <3>2. QED BY <1>2, <2>2, <3>1
  <2>3. QED BY <2>1, <2>2
<1>15. \A i \in Ids : ~(up /\ i = b) => Final(p)[i] = Final(r)[i]
  <2> DEFINE H == {i \in Ids : ~(up /\ i = b)}
  <2>1. LoadsFrom(H, Pending(r)) BY <1>9, <1>11, <1>12 DEF LoadsFrom
  <2>2. Agree(H, p.mem, r.mem) BY <1>14 DEF Agree
  <2>3. H \subseteq Ids OBVIOUS
  <2> HIDE DEF H
  <2>4. Agree(H, Final(p), Final(r))
    BY <1>2, <1>5, <1>13, <1>14, <2>1, <2>2, <2>3, FinalAgree
  <2>5. QED BY <2>4 DEF Agree, H
<1>16. up => Final(p)[b] = v
  <2>1. SUFFICES ASSUME up PROVE Final(p)[b] = v OBVIOUS
  <2>2. Pending(p) = Pending(r) BY <1>5 DEF Pending
  <2>3. \A d \in Pending(p) : d.out # b BY <1>9, <1>11, <1>12, <2>1, <2>2
  <2>4. b \in Ids BY <1>9, <1>11, <2>1
  <2>5. QED BY <1>13, <1>14, <2>1, <2>3, <2>4, FinalApart
<1>17. \A o \in Objects : addr[o] # None => Final(p)[addr[o]] = want[o]
  BY <1>9, <1>10, <1>11, <1>15 DEF Ordered
<1>18. Final(p) \in Mem BY <1>13, <1>14, FinalMem
<1>19. Final(p)[c.in] = Loaded(src, v)
  <2>1. CASE up BY <1>7, <1>9, <1>16, <2>1 DEF Place, Loaded
  <2>2. CASE ~up
    <3>1. src \in Objects /\ addr[src] # None BY <1>9, <2>2 DEF Ready
    <3>2. QED BY <1>7, <1>17, <3>1 DEF Place, Loaded
  <2>3. QED BY <2>1, <2>2
<1>20. q.mem \in Mem BY <1>4, <1>5, <1>14
<1>21. CASE ~done
  <2>1. Final(q) = Final(p) BY <1>4, <1>5, <1>21 DEF Final
  <2>2. QED BY <1>17, <1>20, <1>21, <2>1 DEF Ordered, Effect, q
<1>22. CASE done
  <2>1. Final(q) = Run(Final(p), c)
    <3>1. q.mem = p.mem /\ q.submitted = p.submitted /\ q.cmds = Append(r.cmds, c)
          /\ p.cmds = r.cmds
      BY <1>4, <1>5, <1>22
    <3>2. RunAll(RunAll(p.mem, p.submitted), Append(r.cmds, c))
            = Run(RunAll(RunAll(p.mem, p.submitted), r.cmds), c)
      BY <1>3, <1>6, RunAppend
    <3>3. QED BY <3>1, <3>2 DEF Final
  <2>2. \A i \in Ids : Final(q)[i] = IF i = c.out THEN x ELSE Final(p)[i]
    BY <1>6, <1>18, <1>19, <2>1, RunMem
  <2>3. c.out \in Ids BY <1>6 DEF Cmd
  <2>4. CASE dst \in Objects
    <3>1. c.out = addr[dst] /\ addr[dst] # None BY <1>7, <2>4 DEF Place, Ready
    <3>2. \A o \in Objects : addr[o] # None /\ addr[o] = addr[dst] => o = dst
      BY <1>2, <2>4 DEF Apart
    <3>3. \A o \in Objects : addr[o] # None =>
            Final(q)[addr[o]] = [want EXCEPT ![dst] = x][o]
      <4>1. SUFFICES ASSUME NEW o \in Objects, addr[o] # None
                     PROVE  Final(q)[addr[o]] = IF o = dst THEN x ELSE want[o]
        OBVIOUS
      <4>2. CASE o = dst BY <1>10, <2>2, <3>1, <4>1, <4>2
      <4>3. CASE o # dst
        <5>1. addr[o] # c.out BY <3>1, <3>2, <4>1, <4>3
        <5>2. QED BY <1>10, <1>17, <2>2, <4>1, <4>3, <5>1
      <4>4. QED BY <4>2, <4>3
    <3> HIDE DEF x
    <3>4. QED BY <1>9, <1>20, <1>22, <2>4, <3>3 DEF Ordered, Effect, q, x
  <2>5. CASE dst \notin Objects
    <3>1. c.out = bufs[dst] /\ dst \in Needs(src, dst) BY <1>7, <1>9, <2>5 DEF Place
    <3>2. \A o \in Objects : addr[o] # None => addr[o] # c.out BY <1>10, <1>11, <3>1
    <3>3. \A o \in Objects : addr[o] # None => Final(q)[addr[o]] = want[o]
      BY <1>10, <1>17, <2>2, <3>2
    <3>4. Final(q)[bufs[dst]] = x BY <2>2, <2>3, <3>1
    <3> HIDE DEF x
    <3>5. QED BY <1>20, <2>5, <3>3, <3>4 DEF Ordered, Effect, q, x
  <2>6. QED BY <2>4, <2>5
<1>23. QED BY <1>21, <1>22

LEMMA LaunchOrdered ==
  ASSUME NEW r, Good(r, addr), Ordered(r, addr, want),
         addr \in [Objects -> Ids \cup {None}], want \in [Objects -> Content],
         backend \in {"vulkan", "opengl"},
         NEW src \in Sources, NEW dst \in Targets, NEW v \in Values,
         LaunchOn(r, src, dst, v)
  PROVE  /\ want' \in [Objects -> Content]
         /\ Ordered(rt', addr, want')
         /\ HostReads'
<1> DEFINE x == Stored(Loaded(src, v))
<1>1. Ready(r, src, dst) BY DEF LaunchOn
<1>2. x \in Content
  <2>1. Loaded(src, v) \in Content
    BY DEF Loaded, Content
  <2>2. QED BY <2>1, StoredContent
<1>3. dst \in {"ret", "ext"} <=> dst \notin Objects
  BY GfxAssumption DEF Targets, Objects
<1>4. PICK bufs \in Injection(Needs(src, dst), Free(r)) :
        LET kept == Kept(Recorded(r, bufs, src, dst, v, TRUE), bufs) IN
        \/ /\ dst \in {"ret", "ext"}
           /\ Become(DropList(Idle(Submit(kept))))
           /\ got' = [value |-> Idle(Submit(kept)).mem[bufs[dst]], want |-> x]
           /\ want' = want
        \/ /\ dst \notin {"ret", "ext"}
           /\ Become(kept) \/ Become(Flushed(kept))
           /\ want' = [want EXCEPT ![dst] = x]
           /\ got' = Nothing
  BY DEF LaunchOn, Kept
<1> DEFINE recorded == Recorded(r, bufs, src, dst, v, TRUE)
           kept == Kept(recorded, bufs)
           w == IF dst \in Objects THEN [want EXCEPT ![dst] = x] ELSE want
<1>5. /\ Ordered(recorded, addr, w)
      /\ dst \in {"ret", "ext"} => Final(recorded)[bufs[dst]] = x
  <2>1. Effect(recorded, bufs, dst, x, TRUE) BY <1>1, RecordedFinal
  <2>2. QED BY <2>1 DEF Effect
<1>6. DOMAIN recorded = Names
  BY DEF Recorded, Names, Good, Typed
<1>7. Good(kept, addr) BY <1>1, KeptGood
<1> HIDE DEF recorded, x
<1>8. kept.mem = recorded.mem /\ kept.submitted = recorded.submitted /\ kept.cmds = recorded.cmds
  BY <1>6 DEF Kept, Names
<1> HIDE DEF kept
<1>9. Final(kept) = Final(recorded) /\ kept.mem \in Mem BY <1>5, <1>8 DEF Final, Ordered
<1>10. Ordered(kept, addr, w) BY <1>5, <1>9 DEF Ordered
<1>11. w \in [Objects -> Content] BY <1>2
<1> HIDE DEF w
<1>12. CASE dst \in {"ret", "ext"}
  <2> DEFINE q == DropList(Idle(Submit(kept)))
  <2>1. /\ Become(q)
        /\ got' = [value |-> Idle(Submit(kept)).mem[bufs[dst]], want |-> x]
        /\ want' = w
    BY <1>3, <1>4, <1>12 DEF kept, recorded, w
  <2>2. Good(q, addr) BY <1>7, DropIdleGood
  <2>3. Alike(q, kept) /\ Idle(Submit(kept)).mem = Final(kept) BY <1>7, <1>9, DropIdleFinal
  <2> HIDE DEF q
  <2>4. Ordered(q, addr, w) BY <1>10, <2>3, AlikeOrdered
  <2>5. Ordered(rt', addr, w) BY <2>1, <2>2, <2>4, BecomeOrdered
  <2>6. got'.value = x /\ got'.want = x BY <1>5, <1>9, <1>12, <2>1, <2>3
  <2>7. QED BY <1>11, <2>1, <2>5, <2>6 DEF HostReads
<1>13. CASE dst \notin {"ret", "ext"}
  <2>1. (Become(kept) \/ Become(Flushed(kept))) /\ want' = w /\ got' = Nothing
    BY <1>3, <1>4, <1>13 DEF kept, recorded, w
  <2>2. Good(Flushed(kept), addr) BY <1>7, FlushedGood
  <2>3. Ordered(Flushed(kept), addr, w) BY <1>7, <1>9, <1>10, FlushedFinal, AlikeOrdered
  <2>4. Ordered(rt', addr, w) BY <1>7, <1>10, <2>1, <2>2, <2>3, BecomeOrdered
  <2>5. got'.value = got'.want BY <2>1 DEF Nothing
  <2>6. QED BY <1>11, <2>1, <2>4, <2>5 DEF HostReads
<1>14. QED BY <1>12, <1>13

LEMMA DeviceRunsOrdered ==
  ASSUME Good(rt, addr), Ordered(rt, addr, want), DeviceRuns
  PROVE  Ordered(rt', addr, want)
<1>1. Typed(rt) /\ rt.mem \in Mem BY DEF Good, Ordered
<1>2. /\ rt'.mem = Run(rt.mem, Head(rt.submitted))
      /\ rt'.submitted = Tail(rt.submitted) /\ rt'.cmds = rt.cmds
  BY <1>1 DEF DeviceRuns, Typed, Names
<1>3. rt.submitted \in Seq(Cmd) /\ rt.submitted # <<>> BY <1>1 DEF Typed, DeviceRuns
<1>4. Head(rt.submitted) \in Cmd BY <1>3
<1>5. rt'.mem \in Mem BY <1>1, <1>2, <1>4, RunMem
<1>6. RunAll(rt.mem, rt.submitted) = RunAll(rt'.mem, rt'.submitted) BY <1>2, <1>3, RunHead
<1>7. Final(rt') = Final(rt) BY <1>2, <1>6 DEF Final
<1>8. QED BY <1>5, <1>7 DEF Ordered

(* A new object starts with the value it is filled with.                    *)
LEMMA CreatedOrdered ==
  ASSUME NEW r, Good(r, addr), Ordered(r, addr, want),
         addr \in [Objects -> Ids \cup {None}], want \in [Objects -> Content],
         backend \in {"vulkan", "opengl"},
         NEW o \in Objects, addr[o] = None, NEW i \in Free(r), NEW v \in Content
  PROVE  LET q == Copied(Fresh(r, i), i, v)
             at == [addr EXCEPT ![o] = i] IN
         /\ Good(q, at) /\ at \in [Objects -> Ids \cup {None}]
         /\ Ordered(q, at, [want EXCEPT ![o] = v])
         /\ [want EXCEPT ![o] = v] \in [Objects -> Content]
<1> DEFINE p == Fresh(r, i)
           q == Copied(p, i, v)
           at == [addr EXCEPT ![o] = i]
           w == [want EXCEPT ![o] = v]
<1>1. i \in Ids /\ i \notin Held(r) BY DEF Free
<1>2. Good(p, at) BY FreshGood
<1>3. Typed(r) /\ r.mem \in Mem BY DEF Good, Ordered
<1>4. p.mem = r.mem /\ p.submitted = r.submitted /\ p.cmds = r.cmds
  BY <1>3 DEF Fresh, Typed, Names
<1>5. at \in [Objects -> Ids \cup {None}] /\ w \in [Objects -> Content] BY <1>1
<1>6. \A o1 \in Objects : /\ at[o1] = IF o1 = o THEN i ELSE addr[o1]
                          /\ w[o1] = IF o1 = o THEN v ELSE want[o1]
  OBVIOUS
<1> HIDE DEF p, at, w
<1>7. Good(q, at) BY <1>2, CopiedGood
<1>8. Final(p) = Final(r) BY <1>4 DEF Final
<1>9. \A c \in Range(p.cmds) : c.in # i /\ c.out # i
  <2>1. \A c \in Range(r.cmds) : {c.in, c.out} \subseteq Held(r)
    BY PendingHeld DEF Pending
  <2>2. QED BY <1>1, <1>4, <2>1
<1>10. p.mem \in Mem BY <1>3, <1>4
<1>11. /\ q.mem \in Mem
       /\ \A j \in Ids : Final(q)[j] = IF j = i THEN v ELSE Final(r)[j]
  BY <1>1, <1>2, <1>8, <1>9, <1>10, CopiedFinal
<1> HIDE DEF q
<1>12. \A o1 \in Objects : addr[o1] # None => addr[o1] # i /\ addr[o1] \in Ids
  BY <1>1, PendingHeld
<1>13. \A o1 \in Objects : at[o1] # None => Final(q)[at[o1]] = w[o1]
  BY <1>1, <1>6, <1>11, <1>12 DEF Ordered
<1>14. Ordered(q, at, w) BY <1>11, <1>13 DEF Ordered
<1>15. QED BY <1>5, <1>7, <1>14 DEF q, p, at, w

(* An object that is dropped leaves the others as they are.                 *)
LEMMA GoneOrdered ==
  ASSUME NEW r, Typed(r), Ordered(r, addr, want),
         addr \in [Objects -> Ids \cup {None}], want \in [Objects -> Content],
         NEW o \in Objects, NEW a
  PROVE  LET w == [want EXCEPT ![o] = Garbage] IN
         /\ Ordered([r EXCEPT !.alloc = a], [addr EXCEPT ![o] = None], w)
         /\ w \in [Objects -> Content]
<1> DEFINE q == [r EXCEPT !.alloc = a]
           at == [addr EXCEPT ![o] = None]
           w == [want EXCEPT ![o] = Garbage]
<1>1. q.mem = r.mem /\ q.submitted = r.submitted /\ q.cmds = r.cmds
  BY DEF Typed, Names
<1>2. Garbage \in Content BY DEF Content
<1>3. \A o1 \in Objects : at[o1] # None => at[o1] = addr[o1] /\ w[o1] = want[o1]
  OBVIOUS
<1>4. w \in [Objects -> Content] BY <1>2
<1> HIDE DEF q, at, w
<1>5. Final(q) = Final(r) BY <1>1 DEF Final
<1>6. Ordered(q, at, w) BY <1>1, <1>3, <1>5 DEF Ordered
<1>7. QED BY <1>4, <1>6 DEF q, at, w

LEMMA SyncedOrdered ==
  ASSUME NEW r, NEW at, Good(r, at), NEW w, Ordered(r, at, w),
         backend \in {"vulkan", "opengl"}
  PROVE  Good(Synced(r), at) /\ Ordered(Synced(r), at, w) /\ Done(Synced(r), r)
<1>1. r.mem \in Mem BY DEF Ordered
<1>2. Good(Synced(r), at) BY SyncedGood
<1>3. Done(Synced(r), r) BY <1>1, SyncedFinal
<1>4. Alike(Synced(r), r) BY <1>3 DEF Done, Alike
<1>5. Ordered(Synced(r), at, w) BY <1>4, AlikeOrdered
<1>6. QED BY <1>2, <1>3, <1>5

(* An element is written when nothing is pending.                           *)
LEMMA WrittenOrdered ==
  ASSUME NEW r, Good(r, addr), Ordered(r, addr, want), r.cmds = <<>>,
         addr \in [Objects -> Ids \cup {None}], want \in [Objects -> Content],
         backend \in {"vulkan", "opengl"},
         NEW o \in Objects, addr[o] # None, NEW v \in Content
  PROVE  LET w == [want EXCEPT ![o] = v] IN
         /\ Good(Copied(r, addr[o], v), addr)
         /\ Ordered(Copied(r, addr[o], v), addr, w)
         /\ w \in [Objects -> Content]
<1> DEFINE i == addr[o]
           q == Copied(r, i, v)
           w == [want EXCEPT ![o] = v]
<1>1. r.mem \in Mem BY DEF Ordered
<1>2. i \in Ids /\ \A o1 \in Objects : addr[o1] = i => o1 = o BY DEF Good, Apart
<1>3. \A c \in Range(r.cmds) : c.in # i /\ c.out # i BY EmptyRange
<1>4. \A o1 \in Objects : addr[o1] # None => addr[o1] \in Ids OBVIOUS
<1>5. w \in [Objects -> Content] OBVIOUS
<1>6. \A o1 \in Objects : w[o1] = IF o1 = o THEN v ELSE want[o1] OBVIOUS
<1> HIDE DEF i, w
<1>7. Good(q, addr) BY CopiedGood
<1>8. q.mem \in Mem /\ \A j \in Ids : Final(q)[j] = IF j = i THEN v ELSE Final(r)[j]
  BY <1>1, <1>2, <1>3, CopiedFinal
<1> HIDE DEF q
<1>9. \A o1 \in Objects : addr[o1] # None => Final(q)[addr[o1]] = w[o1]
  <2>1. SUFFICES ASSUME NEW o1 \in Objects, addr[o1] # None
                 PROVE  Final(q)[addr[o1]] = w[o1]
    OBVIOUS
  <2>2. CASE o1 = o
    <3>1. addr[o1] = i BY <2>2 DEF i
    <3>2. QED BY <1>2, <1>6, <1>8, <2>2, <3>1
  <2>3. CASE o1 # o
    <3>1. addr[o1] # i BY <1>2, <2>3
    <3>2. QED BY <1>4, <1>6, <1>8, <2>1, <2>3, <3>1 DEF Ordered
  <2>4. QED BY <2>2, <2>3
<1>10. QED BY <1>5, <1>7, <1>8, <1>9 DEF Ordered, i, q, w

LEMMA StepOrdered ==
  ASSUME OrderInv, WritersSync, [Next]_vars
  PROVE  /\ want' \in [Objects -> Content]
         /\ Ordered(rt', addr', want')
         /\ HostReads'
<1> USE DEF HostReads
<1>1. /\ backend \in {"vulkan", "opengl"}
      /\ addr \in [Objects -> Ids \cup {None}]
      /\ Good(rt, addr)
      /\ want \in [Objects -> Content]
      /\ Ordered(rt, addr, want)
      /\ got.value = got.want
  BY DEF OrderInv, IInv
<1>2. Typed(rt) /\ rt.mem \in Mem BY <1>1 DEF Good, Ordered
<1>3. /\ Good(Synced(rt), addr) /\ Ordered(Synced(rt), addr, want) /\ Done(Synced(rt), rt)
  BY <1>1, SyncedOrdered
<1>4. \A v \in Values : v \in Content BY DEF Content
<1>5. Nothing.value = Nothing.want BY DEF Nothing
<1>6. CASE UNCHANGED vars BY <1>1, <1>6 DEF vars
<1>7. ASSUME NEW src \in Sources, NEW dst \in Targets, NEW v \in Values, Launch(src, dst, v)
      PROVE  want' \in [Objects -> Content] /\ Ordered(rt', addr', want') /\ HostReads'
  <2>1. LaunchOn(rt, src, dst, v) BY <1>7 DEF Launch
  <2>2. addr' = addr BY <2>1 DEF LaunchOn
  <2>3. QED BY <1>1, <2>1, <2>2, LaunchOrdered
<1>8. ASSUME NEW src \in Sources, NEW dst \in Targets, NEW v \in Values,
             NEW done \in BOOLEAN, LaunchFails(src, dst, v, done)
      PROVE  want' \in [Objects -> Content] /\ Ordered(rt', addr', want') /\ HostReads'
  <2> DEFINE x == Stored(Loaded(src, v))
             w == IF done /\ dst \in Objects THEN [want EXCEPT ![dst] = x] ELSE want
  <2>1. /\ backend = "vulkan" /\ Ready(rt, src, dst) /\ want' = w
        /\ got' = Nothing /\ addr' = addr
    BY <1>8 DEF LaunchFails
  <2>2. PICK bufs \in Injection(Needs(src, dst), Free(rt)) :
          Become(Thrown(Recorded(rt, bufs, src, dst, v, done), bufs))
    BY <1>8 DEF LaunchFails, Thrown
  <2> DEFINE p == Recorded(rt, bufs, src, dst, v, done)
             q == Thrown(p, bufs)
  <2>3. Good(q, addr) BY <1>1, <2>1, ThrownGood
  <2>4. Effect(p, bufs, dst, x, done) BY <1>1, <2>1, RecordedFinal
  <2>5. DOMAIN p = Names BY <1>2 DEF Recorded, Names, Typed
  <2>6. Loaded(src, v) \in Content BY <1>1, <1>4 DEF Loaded
  <2>7. x \in Content BY <2>6, StoredContent
  <2> HIDE DEF p, x
  <2>8. q.mem = p.mem /\ q.submitted = p.submitted /\ q.cmds = p.cmds
    BY <2>5 DEF Thrown, Names
  <2>9. Ordered(q, addr, w) BY <2>4, <2>8 DEF Effect, Ordered, Final
  <2>10. w \in [Objects -> Content] BY <1>1, <2>7
  <2> HIDE DEF q, w
  <2>11. Become(q) BY <2>2 DEF q, p
  <2>12. Ordered(rt', addr, w) BY <1>1, <2>3, <2>9, <2>11, BecomeOrdered
  <2>13. QED BY <1>5, <2>1, <2>10, <2>12
<1>9. ASSUME Flush
      PROVE  want' \in [Objects -> Content] /\ Ordered(rt', addr', want') /\ HostReads'
  <2>1. Good(Flushed(rt), addr) /\ Alike(Flushed(rt), rt)
    BY <1>1, <1>2, FlushedGood, FlushedFinal
  <2>2. Ordered(Flushed(rt), addr, want) BY <1>1, <2>1, AlikeOrdered
  <2>3. Become(Flushed(rt)) /\ got' = Nothing /\ addr' = addr /\ want' = want
    BY <1>9 DEF Flush
  <2>4. QED BY <1>1, <1>5, <2>1, <2>2, <2>3, BecomeOrdered
<1>10. ASSUME Synchronize
       PROVE  want' \in [Objects -> Content] /\ Ordered(rt', addr', want') /\ HostReads'
  <2>1. Become(Synced(rt)) /\ got' = Nothing /\ addr' = addr /\ want' = want
    BY <1>10 DEF Synchronize
  <2>2. QED BY <1>1, <1>3, <1>5, <2>1, BecomeOrdered
<1>11. ASSUME NEW o \in Arrays \cup Fields, NEW i \in Ids, Create(o, i)
       PROVE  want' \in [Objects -> Content] /\ Ordered(rt', addr', want') /\ HostReads'
  <2>1. /\ o \in Objects /\ addr[o] = None /\ i \in Free(rt)
        /\ addr' = [addr EXCEPT ![o] = i] /\ want' = [want EXCEPT ![o] = 0]
        /\ Become(Copied(Fresh(rt, i), i, 0)) /\ got' = Nothing
    BY <1>11 DEF Create, Objects
  <2>2. 0 \in Content BY GfxAssumption DEF Content, Values
  <2>3. /\ Good(Copied(Fresh(rt, i), i, 0), addr')
        /\ addr' \in [Objects -> Ids \cup {None}]
        /\ Ordered(Copied(Fresh(rt, i), i, 0), addr', want')
        /\ want' \in [Objects -> Content]
    BY <1>1, <2>1, <2>2, CreatedOrdered
  <2>4. Ordered(rt', addr', want') BY <1>1, <2>1, <2>3, BecomeOrdered
  <2>5. QED BY <1>5, <2>1, <2>3, <2>4
<1>12. ASSUME NEW p \in Packs, NEW i \in Ids, NEW v \in Values, CreatePack(p, i, v)
       PROVE  want' \in [Objects -> Content] /\ Ordered(rt', addr', want') /\ HostReads'
  <2> DEFINE q == Copied(Fresh(rt, i), i, v)
  <2>1. /\ p \in Objects /\ addr[p] = None /\ i \in Free(rt)
        /\ addr' = [addr EXCEPT ![p] = i] /\ want' = [want EXCEPT ![p] = v]
        /\ Become(Synced(q)) /\ got' = Nothing
    BY <1>12 DEF CreatePack, Objects
  <2>2. /\ Good(q, addr') /\ addr' \in [Objects -> Ids \cup {None}]
        /\ Ordered(q, addr', want')
        /\ want' \in [Objects -> Content]
    BY <1>1, <1>4, <2>1, CreatedOrdered
  <2> HIDE DEF q
  <2>3. Good(Synced(q), addr') /\ Ordered(Synced(q), addr', want')
    BY <1>1, <2>2, SyncedOrdered
  <2>4. Ordered(rt', addr', want') BY <1>1, <2>1, <2>2, <2>3, BecomeOrdered
  <2>5. QED BY <1>5, <2>1, <2>2, <2>4
<1>13. ASSUME NEW o \in Arrays \cup Packs, Delete(o)
       PROVE  want' \in [Objects -> Content] /\ Ordered(rt', addr', want') /\ HostReads'
  <2> DEFINE a == IF used_in_kernel(addr[o]) THEN rt.alloc ELSE rt.alloc \ {addr[o]}
  <2>1. /\ o \in Objects /\ o \notin Fields /\ addr[o] # None
        /\ addr' = [addr EXCEPT ![o] = None] /\ want' = [want EXCEPT ![o] = Garbage]
        /\ Become([rt EXCEPT !.alloc = a]) /\ got' = Nothing
    BY <1>13, GfxAssumption DEF Delete, Gone, Objects
  <2>2. a = rt.alloc \/ (a = rt.alloc \ {addr[o]} /\ addr[o] \notin InUse(rt))
    BY DEF used_in_kernel, InUse
  <2> HIDE DEF a
  <2>3. Good([rt EXCEPT !.alloc = a], addr') BY <1>1, <2>1, <2>2, GoneGood
  <2>4. /\ Ordered([rt EXCEPT !.alloc = a], addr', want')
        /\ want' \in [Objects -> Content]
    BY <1>1, <1>2, <2>1, GoneOrdered
  <2>5. addr' \in [Objects -> Ids \cup {None}] BY <1>1, <2>1
  <2>6. Ordered(rt', addr', want') BY <1>1, <2>1, <2>3, <2>4, <2>5, BecomeOrdered
  <2>7. QED BY <1>5, <2>1, <2>4, <2>6
<1>14. ASSUME NEW f \in Fields, DestroyField(f)
       PROVE  want' \in [Objects -> Content] /\ Ordered(rt', addr', want') /\ HostReads'
  <2> DEFINE a == rt.alloc \ {addr[f]}
  <2>1. /\ f \in Objects /\ addr[f] # None /\ backend = "vulkan"
        /\ addr' = [addr EXCEPT ![f] = None] /\ want' = [want EXCEPT ![f] = Garbage]
        /\ Become([rt EXCEPT !.alloc = a]) /\ got' = Nothing
    BY <1>14 DEF DestroyField, Gone, Objects
  <2>2. addr[f] \in Live(addr, Fields) BY <2>1 DEF Live
  <2>3. addr[f] \notin InUse(rt) BY <1>1, <2>2 DEF Good, Apart
  <2>4. Good([rt EXCEPT !.alloc = a], addr') BY <1>1, <2>1, <2>3, GoneGood
  <2> HIDE DEF a
  <2>5. /\ Ordered([rt EXCEPT !.alloc = a], addr', want')
        /\ want' \in [Objects -> Content]
    BY <1>1, <1>2, <2>1, GoneOrdered
  <2>6. addr' \in [Objects -> Ids \cup {None}] BY <1>1, <2>1
  <2>7. Ordered(rt', addr', want') BY <1>1, <2>1, <2>4, <2>5, <2>6, BecomeOrdered
  <2>8. QED BY <1>5, <2>1, <2>5, <2>7
<1>15. ASSUME NEW o \in Objects, Read(o)
       PROVE  want' \in [Objects -> Content] /\ Ordered(rt', addr', want') /\ HostReads'
  <2>1. /\ addr[o] # None /\ Become(Synced(rt)) /\ addr' = addr /\ want' = want
        /\ got' = [value |-> Synced(rt).mem[addr[o]], want |-> want[o]]
    BY <1>15 DEF Read
  <2>2. Synced(rt).mem[addr[o]] = want[o] BY <1>1, <1>3, <2>1 DEF Done, Ordered
  <2>3. got'.value = got'.want BY <2>1, <2>2
  <2>4. Ordered(rt', addr, want) BY <1>1, <1>3, <2>1, BecomeOrdered
  <2>5. QED BY <1>1, <2>1, <2>3, <2>4
<1>16. ASSUME NEW o \in Arrays \cup Packs, NEW v \in Values, Write(o, v)
       PROVE  want' \in [Objects -> Content] /\ Ordered(rt', addr', want') /\ HostReads'
  <2> DEFINE q == Copied(Synced(rt), addr[o], v)
  <2>1. /\ o \in Objects /\ addr[o] # None /\ Become(Synced(q)) /\ addr' = addr
        /\ want' = [want EXCEPT ![o] = v] /\ got' = Nothing
    BY <1>16 DEF Write, Objects
  <2>2. Synced(rt).cmds = <<>> BY <1>3 DEF Done
  <2>3. Good(q, addr) /\ Ordered(q, addr, want') /\ want' \in [Objects -> Content]
    BY <1>1, <1>3, <1>4, <2>1, <2>2, WrittenOrdered
  <2> HIDE DEF q
  <2>4. Good(Synced(q), addr) /\ Ordered(Synced(q), addr, want')
    BY <1>1, <2>3, SyncedOrdered
  <2>5. Ordered(rt', addr, want') BY <1>1, <2>1, <2>4, BecomeOrdered
  <2>6. QED BY <1>5, <2>1, <2>3, <2>5
<1>17. ASSUME NEW f \in Fields, NEW v \in Values, WriteField(f, v)
       PROVE  want' \in [Objects -> Content] /\ Ordered(rt', addr', want') /\ HostReads'
  <2>1. LaunchOn(Synced(rt), "args", f, v) BY <1>17 DEF WriteField
  <2>2. "args" \in Sources /\ f \in Targets BY DEF Sources, Targets
  <2>3. addr' = addr BY <2>1 DEF LaunchOn
  <2>4. QED BY <1>1, <1>3, <2>1, <2>2, <2>3, LaunchOrdered
<1>18. ASSUME DeviceRuns
       PROVE  want' \in [Objects -> Content] /\ Ordered(rt', addr', want') /\ HostReads'
  <2>1. Ordered(rt', addr, want) BY <1>1, <1>18, DeviceRunsOrdered
  <2>2. got' = Nothing /\ addr' = addr /\ want' = want BY <1>18 DEF DeviceRuns
  <2>3. QED BY <1>1, <1>5, <2>1, <2>2
<1>19. QED
  BY <1>6, <1>7, <1>8, <1>9, <1>10, <1>11, <1>12, <1>13, <1>14, <1>15, <1>16,
     <1>17, <1>18 DEF Next

LEMMA InitOrderInv == Init => OrderInv
<1> SUFFICES ASSUME Init PROVE OrderInv OBVIOUS
<1>1. IInv BY InitIInv
<1>2. Garbage \in Content BY DEF Content
<1>3. rt.mem \in Mem BY <1>2 DEF Init, Mem
<1>4. want \in [Objects -> Content] BY <1>2 DEF Init
<1>5. \A o \in Objects : addr[o] = None BY DEF Init
<1>6. HostReads BY DEF Init, HostReads, Nothing
<1>7. QED BY <1>1, <1>3, <1>4, <1>5, <1>6 DEF OrderInv, Ordered

LEMMA StepOrderInv ==
  ASSUME WritersSync
  PROVE  OrderInv /\ [Next]_vars => OrderInv'
<1> SUFFICES ASSUME OrderInv, [Next]_vars PROVE OrderInv' OBVIOUS
<1>1. IInv' BY StepIInv DEF OrderInv
<1>2. /\ want' \in [Objects -> Content]
      /\ Ordered(rt', addr', want')
      /\ HostReads'
  BY StepOrdered
<1>3. Ordered(rt, addr, want)' BY <1>2 DEF Ordered, Final
<1>4. QED BY <1>1, <1>2, <1>3 DEF OrderInv

LEMMA OrderInvOrder == OrderInv => ProgramOrder /\ HostReads
BY DEF OrderInv, Ordered, Final, ProgramOrder

(* Where ti.sync() comes before an element is written, what is pending on   *)
(* the device never shows: every object holds what Python's order gives it  *)
(* once the recorded and submitted commands have run, whether they are      *)
(* queued or run at once, flushed early or late, and whatever objects are   *)
(* created, dropped and created again in the same memory meanwhile          *)
(* (GfxRuntime::launch_kernel, flush, synchronize; Ndarray::write).         *)
THEOREM ObjectsInOrder ==
  ASSUME WritersSync
  PROVE  Spec => []ProgramOrder
<1>1. Init => OrderInv BY InitOrderInv
<1>2. OrderInv /\ [Next]_vars => OrderInv' BY StepOrderInv
<1>3. OrderInv => ProgramOrder BY OrderInvOrder
<1>4. QED BY <1>1, <1>2, <1>3, PTL DEF Spec

(* Under the same assumption the host never reads a stale value: a result,  *)
(* an external array or an element is what the program order says.          *)
THEOREM HostInOrder ==
  ASSUME WritersSync
  PROVE  Spec => []HostReads
<1>1. Init => OrderInv BY InitOrderInv
<1>2. OrderInv /\ [Next]_vars => OrderInv' BY StepOrderInv
<1>3. OrderInv => HostReads BY OrderInvOrder
<1>4. QED BY <1>1, <1>2, <1>3, PTL DEF Spec
=============================================================================
