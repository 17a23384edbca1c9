---------------------------------- MODULE Gc ----------------------------------
(***************************************************************************)
(* The generational, incremental collector of one isolate                  *)
(* (runtime/src/gc.c, gc.h, heap.c), with the mutator that stores through  *)
(* its barriers, the helper threads that trace while the mutator runs, and *)
(* the weak values (weak_collection.c, builtin_weak_ref.c).                *)
(*                                                                         *)
(* A cell has two words, key and val.  An "object" traces val from a copy  *)
(* of its edges when a helper traces it, an "env" is read in place, a      *)
(* "ref" (WeakRef) holds key weakly and a "map" (WeakMap of one entry)     *)
(* holds val as long as key lives.  Budgets and thresholds (which only     *)
(* choose when a collection runs and how much of it) are free choices.     *)
(***************************************************************************)
EXTENDS Naturals, FiniteSets

CONSTANTS
    Cells,           \* the addresses the allocator hands out
    Regs,            \* frame registers and globals: the roots of the mutator
    Kinds,           \* the kinds of cell the program allocates
    Nil,             \* a value that is no heap cell
    Helpers,         \* worker_limit > 0: may helper threads trace?
    MaxSpecial,      \* bound: cells of another kind than "object" at a time
    DerefsUnmarked   \* does the program deref() a target marking has not reached?

ASSUME KindsAssumption == Kinds \subseteq {"object", "env", "ref", "map"}

VARIABLES
    mem,    \* the heap's headers and words, and the collector's state
    regs,   \* the registers
    kept    \* vm->kept_objects: weak targets seen in this turn, a root

vars == <<mem, regs, kept>>

\* mal_gc_scan_roots, reduced to the registers of the running fiber and the kept objects.
Roots == ({regs[r] : r \in Regs} \ {Nil}) \union kept

\* The cells that register for the weak pass instead of being traced through.
WeakKinds == {"ref", "map"}

-------------------------------------------------------------------------------
\* Marking.  A mark state has the cells claimed (the colour bit of a major, the
\* old bit of a minor), the grey list, and the weak cells traced so far.

\* The edges a trace of cell c follows.
Strong(h, c) == IF h.kind[c] \in WeakKinds THEN {} ELSE {h.val[c]} \ {Nil}

\* mal_gc_shade: claim each cell not yet claimed, and queue it.
Claim(m, S) ==
    LET new == (S \ {Nil}) \ m.claimed
    IN  [m EXCEPT !.claimed = @ \union new, !.grey = @ \union new]

\* mal_gc_trace_cell on each cell of T: weak cells register themselves.
TraceCells(h, m, T) ==
    Claim([m EXCEPT !.grey = @ \ T,
                    !.weaks = @ \union {c \in T : h.kind[c] \in WeakKinds}],
          UNION {Strong(h, c) : c \in T})

RECURSIVE Drain(_, _)
Drain(h, m) == IF m.grey = {} THEN m ELSE Drain(h, TraceCells(h, m, m.grey))

\* The ephemeron half of the weak pass: index each registered map once; a value
\* whose key is unmarked waits for that key to leave the grey list.
RECURSIVE Ephemerons(_, _, _, _)
Ephemerons(h, m, indexed, waiting) ==
    LET fresh == {c \in m.weaks \ indexed : h.kind[c] = "map" /\ h.key[c] # Nil}
        ready == {c \in fresh : h.key[c] \in m.claimed}
        waits == {c \in fresh \ ready : h.val[c] \notin {Nil, h.key[c]} \union m.claimed}
    IN  IF fresh # {}
        THEN Ephemerons(h, Claim(m, {h.val[c] : c \in ready}), indexed \union fresh,
                        waiting \union {<<h.key[c], h.val[c]>> : c \in waits})
        ELSE IF m.grey # {}
        THEN LET cell == CHOOSE c \in m.grey : TRUE
                 woken == {w[2] : w \in {w \in waiting : w[1] = cell}}
             IN  Ephemerons(h, TraceCells(h, Claim(m, woken), {cell}), indexed, waiting)
        ELSE m

\* Mutant: only WeakMap entries are cleared.
ClearMapsOnlyBug(h, m) ==
    LET dead == {c \in m.weaks : h.kind[c] = "map" /\ h.key[c] \notin m.claimed}
        wipe(f) == [c \in Cells |-> IF c \in dead THEN Nil ELSE f[c]]
    IN  [h EXCEPT !.key = wipe(@), !.val = wipe(@)]

\* The clearing half: entries with an unmarked key go, WeakRef targets become undefined.
ClearDead(h, m) ==
    LET dead == {c \in m.weaks : h.key[c] \notin m.claimed}
        wipe(f) == [c \in Cells |-> IF c \in dead THEN Nil ELSE f[c]]
    IN  IF dead = {} THEN h
        ELSE [h EXCEPT !.key = wipe(@), !.val = wipe(@)]

\* A cell goes back to the allocator.
Free(h, S) ==
    LET wipe(f) == [c \in Cells |-> IF c \in S THEN Nil ELSE f[c]]
    IN  IF S = {} THEN h
        ELSE [h EXCEPT !.alloc = @ \ S, !.old = @ \ S, !.marked = @ \ S,
                       !.kind = wipe(@), !.key = wipe(@), !.val = wipe(@)]

-------------------------------------------------------------------------------
\* Collections that stop the mutator.

\* mal_gc_collect_sync(vm, false): from the roots and the remembered cells, promote
\* the young cells reached and reclaim the others.
Minor(h) ==
    LET m0 == Claim([claimed |-> h.old, grey |-> {}, weaks |-> {}], Roots)
        m == Ephemerons(h, Drain(h, TraceCells(h, m0, h.dirty)), {}, {})
    IN  [Free(ClearDead(h, m), h.alloc \ m.claimed)
            EXCEPT !.old = m.claimed, !.dirty = {}, !.marking = FALSE]

\* mal_gc_collect_sync(vm, true): flip the colour, mark everything, sweep.
Major(h) ==
    LET m0 == Claim([claimed |-> h.alloc \ h.marked, grey |-> {}, weaks |-> {}], Roots)
        m == Ephemerons(h, Drain(h, m0), {}, {})
    IN  [Free(ClearDead(h, m), h.alloc \ m.claimed)
            EXCEPT !.old = m.claimed, !.marked = m.claimed, !.dirty = {},
                   !.marking = FALSE]

-------------------------------------------------------------------------------
\* The incremental cycle.

\* The major's mark state as it stands in the collector, and back.
MarkOf(h) == [claimed |-> h.marked, grey |-> h.grey, weaks |-> h.weaks]

WithMark(h, m) == [h EXCEPT !.marked = m.claimed, !.grey = m.grey, !.weaks = m.weaks]

\* What a helper marks for one cell of its slice: the copied edges of an object, or
\* what an environment holds when it is read.
EdgesOf(h, item) == IF h.kind[item.cell] = "env" THEN Strong(h, item.cell) ELSE item.edges

\* mal_gc_helper_trace_slice on some of the batch.
HelperTrace(h, items) ==
    LET new == (UNION {EdgesOf(h, i) : i \in items}) \ h.marked
    IN  [h EXCEPT !.marked = @ \union new, !.found = @ \union new, !.batch = @ \ items]

\* mal_gc_workers_collect_batch: what the helpers discovered joins the grey list.
\* With wait, the slices nobody started run inline first.
CollectBatch(h) ==
    LET done == HelperTrace(h, h.batch)
    IN  [done EXCEPT !.grey = @ \union done.found, !.found = {}, !.active = FALSE]

\* Mutant: the barrier stays off after the minor.
BarrierLeftOffBug(h) == Minor(CollectBatch(h))

\* A minor while a major marks: the major's lists are set aside, and the barrier
\* that the minor's weak pass switched off is switched on again.
MinorDuringCycle(h) == [Minor(CollectBatch(h)) EXCEPT !.marking = TRUE]

CycleBegin(h) ==
    LET n == Minor(h)
    IN  WithMark([n EXCEPT !.dirty = {}, !.marking = TRUE, !.black = FALSE,
                           !.phase = "mark", !.satb = {}],
                 Claim([claimed |-> n.alloc \ n.marked, grey |-> {}, weaks |-> {}], Roots))

\* mal_gc_cycle_remark: join the helpers, rescan the roots, drain, settle the young
\* cells, run the major's weak pass and open the sweep.
Remark(h) ==
    LET joined == CollectBatch(h)
        m0 == Drain(h, Claim(MarkOf(joined), Roots))
        m1 == Drain(h, Claim(m0, h.satb))
        n == MinorDuringCycle(WithMark(joined, m1))
        m == Ephemerons(n, MarkOf(n), {}, {})
    IN  [WithMark(ClearDead(n, m), [m EXCEPT !.weaks = {}])
            EXCEPT !.marking = FALSE, !.black = TRUE, !.satb = {},
                   !.phase = "sweep", !.unswept = n.alloc]

\* mal_heap_sweep_block: marked cells become old, the others go.
SweepBlock(h, S) == [Free(h, S \ h.marked) EXCEPT !.old = @ \union (S \intersect h.marked)]

\* mal_gc_cycle_finish_sweep.
FinishSweep(h) == [h EXCEPT !.dirty = {}, !.black = FALSE, !.phase = "idle"]

\* mal_heap_sweep_step: the cursor passes the cells S; the last ones close the cycle.
Sweep(h, S) ==
    LET swept == [SweepBlock(h, S) EXCEPT !.unswept = @ \ S]
    IN  IF swept.unswept # {} THEN swept ELSE FinishSweep(swept)

\* mal_gc_cycle_finish_sync.
FinishSync(h) ==
    LET n == IF h.phase = "mark" THEN Remark(h) ELSE h
    IN  Sweep(n, n.unswept)

\* Mutant: a cycle in flight is finished and that is all.
CollectFinishOnlyBug(h) == IF h.phase = "idle" THEN Major(h) ELSE FinishSync(h)

\* mal_gc_collect, the gc() hook: finish the cycle in flight, then a fresh major.
CollectNow(h) == Major(IF h.phase = "idle" THEN h ELSE FinishSync(h))

-------------------------------------------------------------------------------
Init ==
    /\ mem = [alloc |-> {}, old |-> {}, marked |-> {}, dirty |-> {},
              kind |-> [c \in Cells |-> Nil], key |-> [c \in Cells |-> Nil],
              val |-> [c \in Cells |-> Nil],
              phase |-> "idle", marking |-> FALSE, black |-> FALSE,
              grey |-> {}, satb |-> {}, weaks |-> {}, unswept |-> {},
              batch |-> {}, found |-> {}, active |-> FALSE]
    /\ regs = [r \in Regs |-> Nil]
    /\ kept = {}

-------------------------------------------------------------------------------
\* The mutator.

\* Mutant: cells born during the sweep are young.
NeverBlackBug(h, c, kind, key) ==
    [h EXCEPT !.alloc = @ \union {c}, !.marked = @ \union {c},
              !.kind[c] = kind, !.key[c] = key]

\* The new cell has the current colour, and is old when allocation is black.
NewCell(h, c, kind, key) ==
    [h EXCEPT !.alloc = @ \union {c}, !.marked = @ \union {c},
              !.old = IF h.black THEN @ \union {c} ELSE @,
              !.kind[c] = kind, !.key[c] = key]

\* Mutant: a full buffer is emptied without marking what it held.
FlushForgetsBug(h, value, flush) ==
    LET n == IF flush THEN [h EXCEPT !.satb = {}] ELSE h
    IN  IF ~h.marking \/ value \in {Nil} \union h.marked THEN h
        ELSE [n EXCEPT !.satb = @ \union {value}]

\* mal_gc_write_barrier: while marking, an unmarked old value joins the buffer.  A
\* full buffer (flush) first marks what it holds.
WriteBarrier(h, value, flush) ==
    LET n == IF flush THEN [WithMark(h, Claim(MarkOf(h), h.satb)) EXCEPT !.satb = {}] ELSE h
    IN  IF ~h.marking \/ value \in {Nil} \union h.marked THEN h
        ELSE [n EXCEPT !.satb = @ \union ({value} \ n.marked)]

\* Only a buffer that holds something can be full, and only a value it takes flushes it.
Flushes(values) ==
    IF mem.marking /\ mem.satb # {} /\ ~(values \subseteq mem.marked \union {Nil})
    THEN BOOLEAN
    ELSE {FALSE}

\* mal_gc_card: an old owner given a young value is remembered.
Card(h, owner, value) ==
    IF owner \in h.old /\ value \in h.alloc \ h.old
    THEN [h EXCEPT !.dirty = @ \union {owner}]
    ELSE h

\* A store through the barriers; value may be Nil.
StoreField(h, owner, value, flush) ==
    Card([WriteBarrier(h, h.val[owner], flush) EXCEPT !.val[owner] = value], owner, value)

\* mal_weak_map_store and mal_weak_erase.
MapStore(h, map, key, value, flush) ==
    LET stored == [WriteBarrier(h, h.val[map], flush) EXCEPT !.key[map] = key, !.val[map] = value]
    IN  Card(Card(stored, map, key), map, value)

MapErase(h, map, flush) ==
    [WriteBarrier(WriteBarrier(h, h.key[map], flush), h.val[map], flush)
        EXCEPT !.key[map] = Nil, !.val[map] = Nil]

\* The bound on allocation.
MayAllocate(kind) ==
    kind = "object" \/ Cardinality({c \in mem.alloc : mem.kind[c] # "object"}) < MaxSpecial

\* A register holds a cell of one of these kinds.
Holds(r, kinds) == regs[r] # Nil /\ mem.kind[regs[r]] \in kinds

\* The register a result goes to: a free one, or the one it was computed from (a
\* longer-lived register is dropped first).  Two registers never need the same cell:
\* what one of them allows, the other does.
Into(r, s, value) ==
    /\ regs[r] = Nil \/ r = s
    /\ value = Nil \/ \A t \in Regs \ {r} : regs[t] # value

\* A value JavaScript can pass around: environments stay inside frames and closures.
Values == {"object", "ref", "map"}

New(r, kind) ==
    \E c \in Cells \ mem.alloc :
        /\ MayAllocate(kind)
        /\ regs[r] = Nil
        /\ mem' = NewCell(mem, c, kind, Nil)
        /\ regs' = [regs EXCEPT ![r] = c]
        /\ UNCHANGED kept

NewWeakRef(r, s) ==
    \E c \in Cells \ mem.alloc :
        /\ MayAllocate("ref")
        /\ Into(r, s, c)
        /\ Holds(s, Values)
        /\ mem' = NewCell(mem, c, "ref", regs[s])
        /\ regs' = [regs EXCEPT ![r] = c]
        /\ kept' = kept \union {regs[s]}

Load(r, s) ==
    /\ Holds(s, {"object", "env"})
    /\ Into(r, s, mem.val[regs[s]])
    /\ regs' = [regs EXCEPT ![r] = mem.val[regs[s]]]
    /\ UNCHANGED <<mem, kept>>

Store(r, value) ==
    /\ Holds(r, {"object", "env"})
    /\ \E flush \in Flushes({mem.val[regs[r]]}) : mem' = StoreField(mem, regs[r], value, flush)
    /\ UNCHANGED <<regs, kept>>

\* WeakRef.prototype.deref: a live target is kept to the end of the turn.
Deref(r, s) ==
    /\ Holds(s, {"ref"})
    /\ LET target == mem.key[regs[s]]
       IN  /\ Into(r, s, target)
           /\ mem.marking /\ target \in mem.alloc \ mem.marked => DerefsUnmarked
           /\ regs' = [regs EXCEPT ![r] = target]
           /\ kept' = kept \union ({target} \ {Nil})
    /\ UNCHANGED mem

\* WeakMap.prototype.set on the modelled entry: a second key would be a second row.
WeakMapSet(r, k, v) ==
    /\ Holds(r, {"map"})
    /\ Holds(k, Values)
    /\ mem.key[regs[r]] \in {Nil, regs[k]}
    /\ \E flush \in Flushes({mem.val[regs[r]]}) :
        mem' = MapStore(mem, regs[r], regs[k], regs[v], flush)
    /\ UNCHANGED <<regs, kept>>

WeakMapGet(r, s, k) ==
    /\ Holds(s, {"map"})
    /\ regs[k] # Nil
    /\ mem.key[regs[s]] = regs[k]
    /\ \E t \in {s, k} : Into(r, t, mem.val[regs[s]])
    /\ regs' = [regs EXCEPT ![r] = mem.val[regs[s]]]
    /\ UNCHANGED <<mem, kept>>

WeakMapDelete(r, k) ==
    /\ Holds(r, {"map"})
    /\ regs[k] # Nil
    /\ mem.key[regs[r]] = regs[k]
    /\ \E flush \in Flushes({regs[k], mem.val[regs[r]]}) : mem' = MapErase(mem, regs[r], flush)
    /\ UNCHANGED <<regs, kept>>

Drop(r) ==
    /\ regs[r] # Nil
    /\ regs' = [regs EXCEPT ![r] = Nil]
    /\ UNCHANGED <<mem, kept>>

\* mal_vm_clear_kept_objects at the microtask checkpoint.
EndTurn ==
    /\ kept # {}
    /\ kept' = {}
    /\ UNCHANGED <<mem, regs>>

-------------------------------------------------------------------------------
\* The collector, at the mutator's safepoints, and its helpers, at any time.

\* A helper traces one cell of the batch while the mutator runs.
Helper ==
    \E item \in mem.batch :
        /\ mem' = HelperTrace(mem, {item})
        /\ UNCHANGED <<regs, kept>>

Collecting == UNCHANGED <<regs, kept>>

MinorCollection ==
    /\ mem.phase = "idle"
    /\ mem' = Minor(mem)
    /\ Collecting

BeginCycle ==
    /\ mem.phase = "idle"
    /\ mem' = CycleBegin(mem)
    /\ Collecting

\* The helpers hold a batch.
Busy(h) == h.active /\ h.batch # {}

\* One bounded mark step: while the helpers hold a batch the mutator traces grey
\* cells; otherwise it merges, hands part of the grey cells out (handOut) or traces
\* them itself, then drains the barrier's buffer.
MarkStep(h, T, handOut) ==
    LET n == IF Busy(h) THEN h ELSE CollectBatch(h)
        given == IF handOut /\ ~Busy(h) THEN {c \in T : h.kind[c] \in {"object", "env"}} ELSE {}
        items == {[cell |-> c, edges |-> IF h.kind[c] = "env" THEN {} ELSE Strong(h, c)] : c \in given}
        m == MarkOf([n EXCEPT !.grey = @ \ given])
    IN  IF n.grey # {}
        THEN [WithMark(n, TraceCells(n, m, T \ given))
                EXCEPT !.batch = @ \union items, !.active = @ \/ given # {}]
        ELSE [WithMark(n, Claim(m, T)) EXCEPT !.satb = @ \ T]

\* The cells a mark step may take up: grey ones, or buffered ones when none is grey
\* and no batch is out.
Work(h) ==
    LET grey == h.grey \union h.found
    IN  IF Busy(h) THEN h.grey
        ELSE IF grey # {} THEN grey ELSE h.satb

Drained(h) == h.grey = {} /\ h.satb = {} /\ ~h.active

\* mal_gc_incremental_safepoint in a marking cycle: a due minor, then a mark step,
\* and the remark as soon as marking is drained.
MarkSafepoint ==
    /\ mem.phase = "mark"
    /\ \E h \in {mem, MinorDuringCycle(mem)} :
        \E T \in SUBSET Work(h), handOut \in {FALSE, Helpers /\ ~Busy(h)} :
            /\ T = {} => Work(h) = {}
            /\ LET n == MarkStep(h, T, handOut)
               IN  mem' = IF Drained(n) THEN Remark(n) ELSE n
    /\ Collecting

SweepSafepoint ==
    /\ mem.phase = "sweep"
    /\ \E S \in IF mem.unswept = {} THEN {{}} ELSE {{c} : c \in mem.unswept} :
        mem' = Sweep(mem, S)
    /\ Collecting

\* The allocation backstop, process pressure and the idle loop finish a cycle at once.
FinishCycle ==
    /\ mem.phase # "idle"
    /\ mem' = FinishSync(mem)
    /\ Collecting

Collect ==
    /\ mem' = CollectNow(mem)
    /\ Collecting

Mutator ==
    \/ \E r \in Regs, kind \in Kinds \ {"ref"} : New(r, kind)
    \/ \E r, s \in Regs : "ref" \in Kinds /\ NewWeakRef(r, s)
    \/ \E r, s \in Regs : Load(r, s)
    \/ \E r \in Regs, value \in {Nil} \union {regs[s] : s \in Regs} : Store(r, value)
    \/ \E r, s \in Regs : Deref(r, s)
    \/ \E r, k, v \in Regs : WeakMapSet(r, k, v)
    \/ \E r, s, k \in Regs : WeakMapGet(r, s, k)
    \/ \E r, k \in Regs : WeakMapDelete(r, k)
    \/ \E r \in Regs : Drop(r)
    \/ EndTurn

Collector ==
    \/ MinorCollection
    \/ BeginCycle
    \/ MarkSafepoint
    \/ SweepSafepoint
    \/ FinishCycle
    \/ Collect

Next == Mutator \/ Collector \/ Helper

Spec == Init /\ [][Next]_vars

-------------------------------------------------------------------------------
\* Properties.

\* The cells a program can still reach from S, a WeakMap's value through its key
\* included.
RECURSIVE Reach(_, _)
Reach(h, S) ==
    LET next == UNION {Strong(h, c) : c \in S} \union
                {h.val[c] : c \in {c \in S : h.kind[c] = "map" /\ h.key[c] \in S}}
    IN  IF next \subseteq S \union {Nil} THEN S ELSE Reach(h, S \union (next \ {Nil}))

Live == Reach(mem, Roots)

\* Nothing the program or the collector can still read has been reclaimed: not a
\* reachable cell, not the target of a reachable WeakRef or WeakMap entry, not a cell
\* on the grey list, in the barrier's buffer, in a helper's batch or remembered
\* (mal_gc_verify: "a surviving edge to a reclaimed cell means a root or trace edge
\* was missed").
NoDangling ==
    /\ Live \subseteq mem.alloc
    /\ {mem.key[c] : c \in Live} \subseteq mem.alloc \union {Nil}
    /\ mem.grey \union mem.satb \union mem.weaks \union mem.dirty \subseteq mem.alloc
    /\ {i.cell : i \in mem.batch} \union mem.found \subseteq mem.alloc

\* Every pointer from an old cell to a young one has its owner in the remembered
\* set, so a minor that traces only roots and remembered cells misses nothing
\* (gc.h: "any old->young pointer MUST be recorded here or the young target is swept
\* while still reachable").  Nothing is young while black allocation sweeps.
RememberedComplete ==
    /\ \A c \in mem.old \ mem.dirty :
        {mem.key[c], mem.val[c]} \intersect (mem.alloc \ mem.old) = {}
    /\ mem.phase = "sweep" => mem.alloc = mem.old

\* What the cycle still has to visit: queued cells, and unmarked ones in the buffer,
\* among the edges helpers hold, and among the roots, which the remark scans again.
Pending(h) ==
    h.grey \union h.found \union
        ((h.satb \union Roots \union UNION {EdgesOf(h, i) : i \in h.batch}) \ h.marked)

\* The unmarked cells that tracing S, and the weak pass after it, would find.
RECURSIVE Finds(_, _)
Finds(h, S) ==
    LET ready == {c \in S \union h.weaks : h.kind[c] = "map" /\ h.key[c] \in S \union h.marked}
        next == UNION {Strong(h, c) : c \in S} \union {h.val[c] : c \in ready}
    IN  IF next \subseteq S \union h.marked \union {Nil} THEN S
        ELSE Finds(h, S \union (next \ (h.marked \union {Nil})))

\* While a cycle marks, every reachable cell the collector has not marked is still on
\* an unmarked path from its queues, the barrier's buffer, a helper's copied edges or
\* a root, or is the value of a WeakMap whose turn comes in the weak pass: the remark
\* cannot miss it, whatever the mutator moved and deleted behind the collector.
NothingHidden ==
    mem.phase = "mark" => Live \ mem.marked \subseteq Finds(mem, Pending(mem))

\* gc() reclaims everything that is dead when it is called, floating garbage of the
\* cycle it finishes included, and nothing else (gc.c: "So gc() matches the STW
\* collector's 'reclaim everything dead now'").
CollectIsExact ==
    LET after == CollectNow(mem) IN after.alloc = Live /\ after.old = Live
===============================================================================
