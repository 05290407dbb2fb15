-------------------------- MODULE ControlFlowGraph --------------------------
(* The control-flow graph of CHI IR and the optimisations on it               *)
(* (taichi/analysis/build_cfg.cpp, taichi/ir/control_flow_graph.cpp,          *)
(* taichi/analysis/alias_analysis.cpp, same_statements.cpp, value_diff.cpp).  *)
(* A graph has nodes 1..n, each a run of statements s of one block, and edges;*)
(* node 1 is the empty start node.  Container, continue and while-control     *)
(* statements are in no node.                                                 *)
EXTENDS ChiIR

-----------------------------------------------------------------------------
(* Do two statements have the same value, or the same effect?                 *)

(* basic_check: op and fields, and operands equal under the mapping m of the  *)
(* statements compared so far.                                                *)
SameHead(ir, x, y, m) ==
    LET s == ir.st[x]
        u == ir.st[y]
        Mapped(k) == IF k \in DOMAIN m THEN m[k] ELSE k
    IN x = y \/ (s.op = u.op /\ s.v = u.v /\ Mapped(s.a) = u.a /\ Mapped(s.b) = u.b)

(* IRNodeComparator on statements and blocks: the mapping after a successful  *)
(* comparison, or {} when they differ.  An absent block of the first          *)
(* statement is not compared with the block of the second.                    *)
RECURSIVE CompareStmt(_, _, _, _), CompareFrom(_, _, _, _, _)
CompareFrom(ir, p, q, i, m) ==
    IF i > Len(p) THEN {m}
    ELSE UNION {CompareFrom(ir, p, q, i + 1, m1) : m1 \in CompareStmt(ir, p[i], q[i], m)}
CompareBlock(ir, b, c, m) ==
    IF b = 0 THEN {m}
    ELSE IF c = 0 \/ Len(ir.body[b]) # Len(ir.body[c]) THEN {}
    ELSE CompareFrom(ir, ir.body[b], ir.body[c], 1, m)
CompareStmt(ir, x, y, m) ==
    IF ~SameHead(ir, x, y, m) THEN {}
    ELSE UNION {CompareBlock(ir, ir.st[x].f, ir.st[y].f, m1) :
                m1 \in CompareBlock(ir, ir.st[x].t, ir.st[y].t, (x :> y) @@ m)}

same_statements(ir, x, y) == x = y \/ (x # 0 /\ y # 0 /\ CompareStmt(ir, x, y, << >>) # {})

(* Do x and y certainly have the same value?                                  *)
same_value(ir, x, y) ==
    \/ x = y
    \/ /\ x # 0 /\ y # 0
       /\ CommonEliminable(ir.st[x])
       /\ SameHead(ir, x, y, << >>)

(* FindDirectValueBaseAndOffset: an index as base + offset (base 0: none).    *)
BaseOffset(ir, i) ==
    LET s == ir.st[i]
    IN CASE s.op = "const" -> {<<0, s.v>>}
         [] s.op \in {"add", "sub"} /\ ir.st[s.b].op = "const" ->
                {<<s.a, IF s.op = "add" THEN ir.st[s.b].v ELSE -ir.st[s.b].v>>}
         [] OTHER -> {}

(* value_diff_ptr_index: the set of the difference if it is certain.          *)
IndexDiff(ir, i, j) ==
    IF i = j THEN {0}
    ELSE {p[2] - q[2] : <<p, q>> \in {r \in BaseOffset(ir, i) \X BaseOffset(ir, j) : r[1][1] = r[2][1]}}

(* alias_analysis of two variables, each an alloca or a global pointer.       *)
Alias(ir, x, y) ==
    IF x = y THEN "same"
    ELSE IF ir.st[x].op # "gptr" \/ ir.st[y].op # "gptr" THEN "different"
    ELSE LET d == IndexDiff(ir, ir.st[x].a, ir.st[y].a)
         IN IF d = {} THEN "uncertain" ELSE IF d = {0} THEN "same" ELSE "different"
SameAddress(ir, x, y) == Alias(ir, x, y) = "same"
MaybeSame(ir, x, y) == Alias(ir, x, y) # "different"

contain_variable(ir, vars, x) == \E y \in vars : SameAddress(ir, x, y)
may_contain_variable(ir, vars, x) == \E y \in vars : MaybeSame(ir, x, y)

-----------------------------------------------------------------------------
(* CFGBuilder.  The state of the construction: the nodes and edges so far,    *)
(* the statements cur of the node being filled, the nodes prev that will have *)
(* an edge to the next node, and the continues and breaks of the current loop.*)
InNoNode(s) == IsContainer(s) \/ s.op \in {"cont", "wctl"}

LastNode(c) == Len(c.nodes)
NewNode(c) ==
    LET n == LastNode(c) + 1
    IN [c EXCEPT !.nodes = Append(@, [blk |-> c.blk, s |-> c.cur, par |-> c.par]),
                 !.edges = @ \cup {<<p, n>> : p \in c.prev},
                 !.prev = {}, !.cur = << >>]
Edge(c, p, q) == [c EXCEPT !.edges = @ \cup {<<p, q>>}]

RECURSIVE VisitBlock(_, _, _), VisitFrom(_, _, _, _), VisitStmt(_, _, _)

VisitFrom(ir, b, i, c) ==
    IF i > Len(ir.body[b]) THEN c
    ELSE VisitFrom(ir, b, i + 1, VisitStmt(ir, ir.body[b][i], c))

(* Each block has a last node of its own.                                     *)
VisitBlock(ir, b, c) ==
    [NewNode(VisitFrom(ir, b, 1, [c EXCEPT !.blk = b, !.cur = << >>])) EXCEPT !.blk = c.blk]

(* The nodes of branch b of an if after node before: the new state and, in    *)
(* ends, the last node of the branch; no branch at all falls through.         *)
Branch(ir, b, before, c) ==
    IF b = 0 THEN [c EXCEPT !.ends = @ \cup {before}]
    ELSE LET c1 == VisitBlock(ir, b, c)
         IN [Edge(c1, before, LastNode(c) + 1) EXCEPT !.ends = c.ends \cup {LastNode(c1)}]

VisitIf(ir, s, c) ==
    LET before == NewNode(c)
        both == Branch(ir, s.f, LastNode(before),
                       Branch(ir, s.t, LastNode(before), [before EXCEPT !.ends = {}]))
    IN [both EXCEPT !.prev = both.ends, !.ends = c.ends]

VisitLoop(ir, s, c) ==
    LET before == NewNode(c)
        first == LastNode(before) + 1
        body == VisitBlock(ir, s.t, [before EXCEPT !.conts = {}, !.brks = {},
                                                    !.par = @ \/ (s.op = "for" /\ ~c.offloaded)])
        back == {<<LastNode(before), first>>, <<LastNode(body), first>>} \cup (body.conts \X {first})
        after == IF s.op = "while" THEN {} ELSE {LastNode(before), LastNode(body)}
    IN [body EXCEPT !.edges = @ \cup back,
                    !.prev = after \cup body.conts \cup body.brks,
                    !.conts = c.conts, !.brks = c.brks, !.par = c.par]

VisitStmt(ir, id, c) ==
    LET s == ir.st[id]
    IN CASE s.op = "cont" ->
                LET c1 == NewNode(c) IN [c1 EXCEPT !.conts = @ \cup {LastNode(c1)}]
         [] s.op = "wctl" ->
                LET c1 == NewNode(c) IN [c1 EXCEPT !.brks = @ \cup {LastNode(c1)}, !.prev = {LastNode(c1)}]
         [] s.op = "if" -> VisitIf(ir, s, c)
         [] IsLoop(s) -> VisitLoop(ir, s, c)
         [] OTHER -> [c EXCEPT !.cur = Append(@, id)]

(* The start node is empty, and so is the final node.  Before offloading, the *)
(* body of every range-for counts as executed in parallel.                    *)
build_cfg(ir, offloaded) ==
    LET empty == [blk |-> 0, s |-> << >>, par |-> FALSE]
        c == VisitBlock(ir, 1, [nodes |-> <<empty>>, edges |-> {}, prev |-> {1}, conts |-> {},
                                brks |-> {}, ends |-> {}, blk |-> 0, cur |-> << >>,
                                par |-> FALSE, offloaded |-> offloaded])
        n == LastNode(c)
        whole == IF c.nodes[n].s = << >> THEN c
                 ELSE [c EXCEPT !.nodes = Append(@, empty), !.edges = @ \cup {<<n, n + 1>>}]
    IN [nodes |-> whole.nodes, edges |-> whole.edges, ir |-> ir]

Preds(g, n) == {e[1] : e \in {d \in g.edges : d[2] = n}}
Succs(g, n) == {e[2] : e \in {d \in g.edges : d[1] = n}}
AllInNodes(g) == UNION {ToSet(g.nodes[n].s) : n \in DOMAIN g.nodes}

-----------------------------------------------------------------------------
(* Reaching definitions.  A definition is a store, or a global pointer that   *)
(* stands for the value the field had before the kernel.                      *)

(* reach_gen of a node, scanning it backwards: the last store to each address.*)
RECURSIVE GenFrom(_, _, _, _)
GenFrom(ir, s, i, gen) ==
    IF i = 0 THEN gen
    ELSE LET killed == UNION {StoreDest(ir, k) : k \in gen}
             fresh == \E d \in StoreDest(ir, s[i]) : ~contain_variable(ir, killed, d)
         IN GenFrom(ir, s, i - 1, IF fresh THEN gen \cup {s[i]} ELSE gen)

ReachGen(g, n) ==
    IF n = 1 THEN {id \in AllInNodes(g) : g.ir.st[id].op = "gptr"}
    ELSE GenFrom(g.ir, g.nodes[n].s, Len(g.nodes[n].s), {})

Variables(ir, d) == IF StoreDest(ir, d) = {} THEN {d} ELSE StoreDest(ir, d)

(* The work lists of the two analyses end in the least fixed point of their   *)
(* equations.                                                                 *)
RECURSIVE Fixpoint(_, _, _, _)
Fixpoint(from, gen, kill, out) ==
    LET next == [n \in DOMAIN out |-> gen[n] \cup ((UNION {out[p] : p \in from[n]}) \ kill[n])]
    IN IF next = out THEN out ELSE Fixpoint(from, gen, kill, next)

reaching_definition_analysis(g) ==
    LET ns == DOMAIN g.nodes
        gen == [n \in ns |-> ReachGen(g, n)]
        defs == UNION {gen[n] : n \in ns}
        vars == [n \in ns |-> IF n = 1 THEN {} ELSE UNION {StoreDest(g.ir, d) : d \in gen[n]}]
        kill == [n \in ns |-> {d \in defs : \A x \in Variables(g.ir, d) : contain_variable(g.ir, vars[n], x)}]
        from == [n \in ns |-> Preds(g, n)]
        out == Fixpoint(from, gen, kill, gen)
    IN [gen |-> gen, in |-> [n \in ns |-> UNION {out[p] : p \in from[n]}]]

-----------------------------------------------------------------------------
(* Store-to-load forwarding.                                                  *)

MayStore(ir, id, x) == \E d \in StoreDest(ir, id) : MaybeSame(ir, x, d)

(* A statement at most as deep as the load: in an enclosing block, or earlier *)
(* in the load's own block.                                                   *)
Visible(ir, blk, load, id) ==
    LET b == BlockOf(ir, id)
    IN IF b = blk THEN Locate(ir.body[b], id) < Locate(ir.body[b], load)
       ELSE b \in ToSet(Enclosing(ir, blk))

(* Between positions lo and hi of block blk something else may be stored to x.*)
Disturbed(ir, blk, lo, hi, x, value) ==
    /\ ir.st[x].op # "alloca"
    /\ \E i \in lo .. hi - 1 :
          LET id == ir.body[blk][i]
          IN ~same_value(ir, value, StoreData(ir, id)) /\ MayStore(ir, id, x)

(* All definitions store the same value: the zero of an alloca also agrees    *)
(* with a constant zero found after it.                                       *)
Agree(ir, value, data) ==
    \/ same_value(ir, value, data)
    \/ ir.st[value].op = "alloca" /\ ir.st[data].op = "const" /\ ir.st[data].v = 0

(* update_result over the definitions of x in the order given: the value and  *)
(* whether it is visible, or {} when they do not agree.                       *)
RECURSIVE UpdateAll(_, _, _, _, _)
UpdateAll(ir, blk, load, defs, r) ==
    IF defs = << >> THEN r
    ELSE LET data == StoreData(ir, Head(defs))
             seen == data # 0 /\ Visible(ir, blk, load, data)
         IN UNION {UpdateAll(ir, blk, load, Tail(defs), r1) : r1 \in
                     IF data = 0 THEN {}
                     ELSE IF r = {} THEN {{<<data, seen>>}}
                     ELSE LET old == CHOOSE o \in r : TRUE
                          IN IF ~Agree(ir, old[1], data) THEN {}
                             ELSE IF ~old[2] /\ seen THEN {{<<data, TRUE>>}} ELSE {r}}

(* get_store_forwarding_data(x, position of the statement load in node n),    *)
(* 0 when nothing can be forwarded.  reach.in and reach.gen are unordered     *)
(* sets; their members are taken in the order of their ids.                   *)
Sorted(S) == SetToSortSeq(S, LAMBDA p, q : p < q)
get_store_forwarding_data(g, reach, n, load, x) ==
    LET ir == g.ir
        s == g.nodes[n].s
        blk == g.nodes[n].blk
        at == Locate(s, load)
        pos == Locate(ir.body[blk], load)
        Stores(i) == \E d \in StoreDest(ir, s[i]) : SameAddress(ir, x, d)
        near == {i \in 1 .. at - 1 : Stores(i)}
    IN IF near # {}
       THEN LET id == s[CHOOSE i \in near : \A j \in near : j <= i]
                value == StoreData(ir, id)
            IN IF Disturbed(ir, blk, Locate(ir.body[blk], id) + 1, pos, x, value) THEN 0 ELSE value
       ELSE LET far == {d \in reach.in[n] : d = x \/ MayStore(ir, d, x)}
                here == {d \in reach.gen[n] : MayStore(ir, d, x) /\ d \in ToSet(s) /\ Locate(s, d) < at}
                r == UpdateAll(ir, blk, load, Sorted(far) \o Sorted(here), {})
            IN IF far \cup here = {} \/ r = {} THEN 0
               ELSE LET v == CHOOSE o \in r : TRUE
                        lo == IF here = {} THEN 1
                              ELSE Locate(ir.body[blk], Sorted(here)[Cardinality(here)])
                    IN IF ~v[2] \/ Disturbed(ir, blk, lo, pos, x, v[1]) THEN 0 ELSE v[1]

(* CFGNode::erase *)
DropFrom(g, n, id) ==
    [g EXCEPT !.nodes[n].s = Remove(@, id), !.ir.body[g.nodes[n].blk] = Remove(@, id)]
ForwardTo(g, n, id, value) ==
    LET d == DropFrom(g, n, id) IN [d EXCEPT !.ir = ReplaceUsages(@, id, value)]

(* The stored zero of an alloca is known, and so is a stored constant zero.   *)
IsZero(ir, id) == ir.st[id].op = "const" /\ ir.st[id].v = 0

(* A load becomes the value its address is known to hold; a store of the      *)
(* value its address already holds goes away.                                 *)
ForwardStmt(g, reach, n, id) ==
    LET s == g.ir.st[id]
        value == get_store_forwarding_data(g, reach, n, id, s.a)
    IN CASE s.op \in {"lload", "gload"} /\ value # 0 ->
                IF g.ir.st[value].op = "alloca"
                THEN [g EXCEPT !.ir.st[id] = Stmt("const", 0, 0, 0)]
                ELSE ForwardTo(g, n, id, value)
         [] s.op \in {"lstore", "gstore"} /\ value # 0 ->
                IF \/ same_value(g.ir, value, s.b)
                   \/ s.op = "lstore" /\ g.ir.st[value].op = "alloca" /\ IsZero(g.ir, s.b)
                THEN DropFrom(g, n, id)
                ELSE g
         [] OTHER -> g

ForwardNode(g, reach, n) ==
    FoldLeft(LAMBDA h, id : ForwardStmt(h, reach, n, id), g, g.nodes[n].s)

store_to_load_forwarding(g) ==
    LET reach == reaching_definition_analysis(g)
    IN FoldLeftDomain(LAMBDA h, n : ForwardNode(h, reach, n), g, g.nodes)

-----------------------------------------------------------------------------
(* Dead store elimination.                                                    *)

(* live_gen and live_kill of a node: the addresses it loads before it stores  *)
(* to them, and those it stores to.                                           *)
LiveNode(ir, s) ==
    FoldLeft(LAMBDA r, id :
                LET loads == {x \in LoadPointers(ir, id) : ~contain_variable(ir, r.kill, x)}
                IN [gen |-> r.gen \cup loads, kill |-> r.kill \cup StoreDest(ir, id)],
             [gen |-> {}, kill |-> {}], s)

(* live_out of every node: after the kernel the field may be read, the local  *)
(* variables may not.                                                         *)
live_variable_analysis(g) ==
    LET ns == DOMAIN g.nodes
        final == Len(g.nodes)
        atEnd == {x \in UNION {StoreDest(g.ir, id) : id \in AllInNodes(g)} : g.ir.st[x].op # "alloca"}
        node == [n \in ns |-> IF n = final THEN [gen |-> atEnd, kill |-> {}]
                              ELSE LiveNode(g.ir, g.nodes[n].s)]
        gen == [n \in ns |-> node[n].gen]
        vars == UNION {gen[n] : n \in ns}
        kill == [n \in ns |-> {x \in vars : contain_variable(g.ir, node[n].kill, x)}]
        from == [n \in ns |-> Succs(g, n)]
        in == Fixpoint(from, gen, kill, gen)
    IN [n \in ns |-> UNION {in[q] : q \in from[n]}]

(* The scan of one node, backwards: the addresses loaded later in the node    *)
(* (live), those stored to later and not loaded since (killed), and the       *)
(* nearest later load from each address (next).                               *)
Load(d, id, x) ==
    [d EXCEPT !.live = @ \cup {x}, !.killed = @ \ {x}, !.next = (x :> id) @@ @]

(* Variant: asks for certain instead of possible aliases.                     *)
IsDeadExact(d, out, x) ==
    /\ contain_variable(d.g.ir, d.killed, x) \/ ~may_contain_variable(d.g.ir, out, x)
    /\ ~contain_variable(d.g.ir, d.live, x)
(* A store nobody reads: stored to later, or not live after the node, and not *)
(* loaded in between.                                                         *)
IsDead(d, out, x) ==
    /\ contain_variable(d.g.ir, d.killed, x) \/ ~may_contain_variable(d.g.ir, out, x)
    /\ ~may_contain_variable(d.g.ir, d.live, x)

(* A store: eliminated when dead, an atomic operation weakened to a load.     *)
StoreStep(d, out, n, id, x) ==
    LET s == d.g.ir.st[id]
        local == d.g.ir.st[x].op = "alloca"
        dead == s.op # "alloca" /\ IsDead(d, out, x)
    IN CASE dead /\ s.op # "atomic" -> [d EXCEPT !.g = DropFrom(@, n, id)]
         [] dead /\ s.op = "atomic" /\ (local \/ ~d.g.nodes[n].par) ->
                Load([d EXCEPT !.g.ir.st[id] = Stmt(IF local THEN "lload" ELSE "gload", x, 0, 0)], id, x)
         [] dead /\ s.op = "atomic" /\ ~local /\ d.g.nodes[n].par ->
                [d EXCEPT !.live = @ \cup {x}]
         [] ~dead ->
                LET loads == LoadPointers(d.g.ir, id)
                    again == \E y \in d.live : SameAddress(d.g.ir, x, y)
                IN [d EXCEPT !.killed = @ \cup {x},
                             !.live = (IF again THEN @ \ {x} ELSE @) \cup loads]

(* A load: it replaces the next load from the same pointer when nothing was   *)
(* stored there in between.                                                   *)
LoadStep(d, n, id, x) ==
    LET known == x \in DOMAIN d.next /\ ~may_contain_variable(d.g.ir, d.killed, x)
        same == known /\ same_statements(d.g.ir, id, d.next[x])
    IN Load(IF same THEN [d EXCEPT !.g = ForwardTo(@, n, d.next[x], id)] ELSE d, id, x)

EliminateStep(d, out, n, id) ==
    LET stores == StoreDest(d.g.ir, id)
        loads == LoadPointers(d.g.ir, id)
    IN IF stores # {} THEN StoreStep(d, out, n, id, CHOOSE x \in stores : TRUE)
       ELSE IF loads # {} THEN LoadStep(d, n, id, CHOOSE x \in loads : TRUE)
       ELSE d

EliminateNode(g, out, n) ==
    FoldRight(LAMBDA id, d : EliminateStep(d, out, n, id), g.nodes[n].s,
              [g |-> g, live |-> {}, killed |-> {}, next |-> << >>]).g

dead_store_elimination(g) ==
    LET out == live_variable_analysis(g)
    IN FoldLeftDomain(LAMBDA h, n : EliminateNode(h, out[n], n), g, g.nodes)

-----------------------------------------------------------------------------
(* die: statements without effect that nothing uses go away, and with them    *)
(* what only they used.                                                       *)
RECURSIVE die(_)
die(ir) ==
    LET all == Reachable(ir)
        used == UNION {Operands(ir.st[id]) : id \in all}
        dead == {id \in all : DeadEliminable(ir.st[id]) /\ id \notin used}
    IN IF dead = {} THEN ir ELSE die(EraseAll(ir, dead))

(* cfg_optimization.cpp: each pass works on the result of the one before it.  *)
cfg_optimization(ir, offloaded) ==
    LET graphs == {build_cfg(c, offloaded) : c \in {Collect(ir)}}
        forwarded == {store_to_load_forwarding(g) : g \in graphs}
        stored == {dead_store_elimination(g) : g \in forwarded}
    IN The({die(g.ir) : g \in stored})
=============================================================================
