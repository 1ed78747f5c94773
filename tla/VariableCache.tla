---------------------------- MODULE VariableCache ----------------------------
(***************************************************************************)
(* Environments and the caches of compiled variable references             *)
(* (microcode lookup.c).                                                   *)
(*                                                                         *)
(* An environment is a chain of frames.  Compiled code never searches the  *)
(* chain: each of its references owns a location that points to a cache of *)
(* the variable, and every operation on environments must keep the         *)
(* locations pointing to the cache that a search of the chain would find.  *)
(* A cell whose variable has a cache holds a trap; several cells may hold  *)
(* the same trap, and several traps may share a cache (link_variables).    *)
(***************************************************************************)
EXTENDS Naturals, Sequences, FiniteSets, SequencesExt, FiniteSetsExt, TLC

CONSTANTS Frames,      \* procedure frames
          Symbols,
          Programs,    \* the programs a run starts from: [chain, refs, links,
                       \* vars, inputs]
          Params,      \* [Frames -> SUBSET Symbols]: the lambda's parameters
          Values,      \* objects that are not reference traps
          Refs,        \* compiled references: [block, env, sym, kind], block the
                       \* block's frame, env the one the reference is looked up in
          Ids          \* bound: identities of traps and caches, 1 .. n

Global == "global"
Null == "null"                          \* no parent (NULL_FRAME_P)
Unassigned == <<"UNASSIGNED">>
Unbound == <<"UNBOUND">>
Macro == <<"MACRO">>
NoCell == <<"no cell">>
NotLinked == <<"not linked">>
Kinds == {"lookup", "assignment", "operator"}
Envs == Frames \cup {Global}

Trap(i) == <<"trap", i>>                \* TRAP_COMPILER_CACHED
CellTraps == {Trap(i) : i \in Ids}
Plain == Values \cup {Unassigned, Unbound, Macro}

(***************************************************************************)
(* program: the frame chain, the references compiled code may cache and    *)
(* the <<target frame, symbol, source frame, symbol>> it may link; the     *)
(* <<environment, symbol>> pairs it defines, assigns and unbinds, and with *)
(* what values; it never changes.                                          *)
(* heap: cell (what a frame binds a symbol to), trap (GET_TRAP_CACHE),     *)
(* cache (value, clone?, and an alist per kind of reference) and loc (what *)
(* the block holds at the reference's offset).                             *)
(* stale (auxiliary): references the code leaves behind on purpose or by   *)
(* omission: deleted ones, and UUO links not rewritten with the value.     *)
(***************************************************************************)
VARIABLES program, heap, stale
vars == <<program, heap, stale>>

ASSUME ChainAssumption ==
  \A p \in Programs, f \in Frames :
    LET c == p.chain[f]
    IN /\ c \in Seq(Envs) /\ Len(c) >= 1 /\ c[1] = f
       /\ Len(c) > 1 /\ c[2] \in Frames => Tail(c) = p.chain[c[2]]
       /\ Len(c) > 2 => c[2] # Global
ASSUME ProgramAssumption ==
  /\ {Global, Null} \cap Frames = {} /\ Symbols # {} /\ Ids \subseteq Nat \ {0}
  /\ Values \cap ({Unassigned, Unbound, Macro, NoCell} \cup CellTraps) = {}
  /\ Params \in [Frames -> SUBSET Symbols]
  /\ Refs \subseteq [block : Envs, env : Envs, sym : Symbols, kind : Kinds]
  /\ \A p \in Programs :
       /\ p.refs \subseteq Refs /\ p.vars \subseteq Envs \X Symbols
       /\ p.inputs \subseteq Values \cup {Unassigned, Macro}
       /\ p.links \subseteq Envs \X Symbols \X Envs \X Symbols

NoCache == [value |-> Unbound, clone |-> FALSE, alist |-> [k \in Kinds |-> <<>>]]

Init == /\ program \in Programs
        /\ \E v \in Values :
             heap = [cell |-> [f \in Envs |-> [s \in Symbols |->
                               IF f = Global THEN Unbound
                               ELSE IF s \in Params[f] THEN v ELSE NoCell]],
                   trap |-> [i \in Ids |-> 0],
                   cache |-> [i \in Ids |-> NoCache],
                   loc |-> [r \in Refs |-> NotLinked]]
        /\ stale = {}

-----------------------------------------------------------------------------
\* Searching the chain

\* The environments from f outwards, GET_FRAME_PARENT by GET_FRAME_PARENT
Chain(f) == IF f = Global THEN <<Global>> ELSE program.chain[f]
Parent(f) == IF Len(Chain(f)) = 1 THEN Null ELSE Chain(f)[2]
InUse == Frames \cup UNION {Range(Chain(f)) : f \in Frames}

\* scan_frame with find_unbound_p = 0: an unbound parameter is no binding
Binds(h, f, s) ==
  /\ h.cell[f][s] # NoCell
  /\ ~ (h.cell[f][s] = Unbound /\ f \in Frames /\ s \in Params[f])

\* find_binding_cell: the frame it stops at; a cell is found iff that frame binds s
BindingFrame(h, f, s) ==
  LET c == Chain(f)
      hits == {i \in DOMAIN c : Binds(h, c[i], s)}
  IN IF hits = {} THEN c[Len(c)] ELSE c[Min(hits)]

Contents(h, f, s) ==
  LET b == BindingFrame(h, f, s)
  IN IF f # Null /\ Binds(h, b, s) THEN h.cell[b][s] ELSE NoCell

CacheOf(h, content) == h.trap[content[2]]

\* lookup_variable_cache, lookup_variable: the value, or the error its trap stands for
LookupCache(h, i) == h.cache[i].value
LookupVariable(h, f, s) ==
  LET c == Contents(h, f, s)
  IN IF c = NoCell THEN Unbound
     ELSE IF c \in CellTraps THEN LookupCache(h, CacheOf(h, c)) ELSE c

-----------------------------------------------------------------------------
\* Caches and references

\* What install_cache writes into the block: the cache, its clone or a UUO link
Installed(h, i, k) ==
  CASE k = "lookup" -> <<"cache", i>>
    [] k = "assignment" -> <<IF h.cache[i].clone THEN "clone" ELSE "cache", i>>
    [] k = "operator" -> IF h.cache[i].value \in Values
                         THEN <<"link", h.cache[i].value>> ELSE <<"fake", i>>

SetCell(h, f, s, v) == [h EXCEPT !.cell[f][s] = v]
SetValue(h, i, v) == [h EXCEPT !.cache[i] = [@ EXCEPT !.value = v]]    \* SET_CACHE_VALUE
SetList(h, i, k, alist) == [h EXCEPT !.cache[i] = [@ EXCEPT !.alist[k] = alist]]
Install(h, i, refs) ==
  [h EXCEPT !.loc = [r \in Refs |-> IF r \in refs THEN Installed(h, i, r.kind) ELSE h.loc[r]]]

InAlist(alist) == UNION {alist[n].refs : n \in DOMAIN alist}
\* WALK_REFERENCES drops the entries that have become empty
Walked(alist) ==
  LET walk[n \in 0 .. Len(alist)] ==
        IF n = 0 THEN <<>>
        ELSE IF alist[n].refs = {} THEN walk[n - 1] ELSE Append(walk[n - 1], alist[n])
  IN walk[Len(alist)]
\* find_references_named: the first entry for s, 0 if there is none
Named(alist, s) == LET n == {m \in DOMAIN alist : alist[m].sym = s}
                   IN IF n = {} THEN 0 ELSE Min(n)
AddNamed(alist, s, refs) ==
  IF Named(alist, s) = 0 THEN <<[sym |-> s, refs |-> refs]>> \o alist
  ELSE [alist EXCEPT ![Named(alist, s)].refs = @ \cup refs]

\* Mutant: assignments never trap.
UpdateCloneNever(h, i) == h
\* update_clone: assignments trap when there are operator references to keep right
UpdateClone(h, i) ==
  LET want == /\ h.cache[i].alist["assignment"] # <<>>
              /\ h.cache[i].alist["operator"] # <<>>
      walked == Walked(h.cache[i].alist["assignment"])
      g == [SetList(h, i, "assignment", walked) EXCEPT !.cache[i] = [@ EXCEPT !.clone = want]]
  IN IF want = h.cache[i].clone THEN h ELSE Install(g, i, InAlist(walked))

\* The traps that cells hold, and the caches that locations point to
Traps(h) == {c[2] : c \in CellTraps \cap {h.cell[f][s] : f \in Envs, s \in Symbols}}
Installs(h) == {h.loc[r][2] : r \in {q \in Refs : h.loc[q][1] \in {"cache", "clone", "fake"}}}

\* make_cache and guarantee_cache: a trap and a cache for a cell that has none
Free(h) == Ids \ (Traps(h) \cup {h.trap[j] : j \in Ids} \cup Installs(h))
GuaranteeCache(h, f, s) ==
  IF h.cell[f][s] \in CellTraps THEN h
  ELSE LET i == Min(Free(h))
       IN [SetCell(h, f, s, Trap(i)) EXCEPT
             !.trap[i] = i, !.cache[i] = [NoCache EXCEPT !.value = h.cell[f][s]]]

\* move_ref_pair_p: the block's frame is env or inside it
Inside(r, env) == env \in Range(Chain(r.block))
\* The references ref_pairs_to_move counts
ToMove(alist, env, s) ==
  IF Named(alist, s) = 0 THEN {} ELSE {r \in alist[Named(alist, s)].refs : Inside(r, env)}
Less(alist, s, refs) ==
  IF Named(alist, s) = 0 THEN alist ELSE [alist EXCEPT ![Named(alist, s)].refs = @ \ refs]

\* move_ref_pairs for one kind
MoveRefPairs(h, from, to, k, env, s) ==
  LET moved == ToMove(h.cache[from].alist[k], env, s)
      g == SetList(h, from, k, Less(h.cache[from].alist[k], s, moved))
      joined == AddNamed(g.cache[to].alist[k], s, moved)
  IN IF moved = {} THEN h ELSE Install(SetList(g, to, k, joined), to, moved)
MoveKinds(h, from, to, env, s) ==
  MoveRefPairs(MoveRefPairs(MoveRefPairs(h, from, to, "lookup", env, s),
                            from, to, "assignment", env, s),
               from, to, "operator", env, s)
Deleted(h, i, env, s) == UNION {ToMove(h.cache[i].alist[k], env, s) : k \in Kinds}
\* delete_ref_pairs for the three kinds
DeleteRefPairs(h, i, env, s) ==
  [h EXCEPT !.cache[i] = [@ EXCEPT !.alist =
     [k \in Kinds |-> Less(h.cache[i].alist[k], s, ToMove(h.cache[i].alist[k], env, s))]]]

\* update_cache_references with a cell to move to
UpdateCacheReferences(h, from, f, env, s) ==
  LET g == GuaranteeCache(h, f, s)
      to == CacheOf(g, g.cell[f][s])
  IN UpdateClone(UpdateClone(MoveKinds(g, from, to, env, s), to), from)

-----------------------------------------------------------------------------
\* Storage that nothing reaches is reset: it is what the collector reclaims.
Reclaim(h) ==
  LET traps == Traps(h)
      caches == {h.trap[i] : i \in traps} \cup Installs(h)
  IN [h EXCEPT !.trap = [i \in Ids |-> IF i \in traps THEN h.trap[i] ELSE 0],
               !.cache = [i \in Ids |-> IF i \in caches THEN h.cache[i] ELSE NoCache]]

Becomes(h) == /\ heap' = Reclaim(h)
              /\ UNCHANGED program

\* Mutant: the UUO links are not updated.
AssignCacheOnly(h, i, v) == SetValue(h, i, v)
\* SET_CACHE_VALUE; update_uuo_links when there are operator references
AssignCache(h, i, v) ==
  LET walked == Walked(h.cache[i].alist["operator"])
      g == SetValue(SetList(h, i, "operator", walked), i, v)
  IN IF h.cache[i].alist["operator"] = <<>> THEN SetValue(h, i, v)
     ELSE Install(UpdateClone(g, i), i, InAlist(walked))
Relinked(h, i) == InAlist(h.cache[i].alist["operator"])

\* assign_variable_end: force_p lets a definition replace an unbound or macro cell
Assignable(v, force) == force \/ v \notin {Unbound, Macro}

AssignCell(f, s, v, force) ==
  LET c == heap.cell[f][s]
  IN IF c \in CellTraps
     THEN /\ Assignable(LookupCache(heap, CacheOf(heap, c)), force)
          /\ Becomes(AssignCache(heap, CacheOf(heap, c), v))
          /\ stale' = stale \ Relinked(heap, CacheOf(heap, c))
     ELSE /\ Assignable(c, force)
          /\ Becomes(SetCell(heap, f, s, v))
          /\ UNCHANGED stale

assign_variable(f, s, v) ==
  /\ Contents(heap, f, s) # NoCell
  /\ AssignCell(BindingFrame(heap, f, s), s, v, FALSE)

\* Mutant: the references to the shadowed binding stay where they are.
ExtendOnly(h, f, s, v) == SetCell(h, f, s, v)
\* Where scan_frame with find_unbound_p = 1 finds no cell: extend the frame, then
\* move the references that now refer to the new binding
Extend(h, f, s, v) ==
  LET shadowed == Contents(h, Parent(f), s)
      g == SetCell(h, f, s, v)
  IN IF shadowed \in CellTraps
     THEN UpdateCacheReferences(g, CacheOf(h, shadowed), f, f, s) ELSE g

define_variable(f, s, v) ==
  \/ heap.cell[f][s] # NoCell /\ AssignCell(f, s, v, TRUE)
  \/ /\ heap.cell[f][s] = NoCell
     /\ Becomes(Extend(heap, f, s, v))
     /\ UNCHANGED stale

\* unbind_variable_1: a parameter's cell stays, an extension's is removed
Unbinding(h, f, s) ==
  SetCell(h, f, s, IF f = Global \/ s \in Params[f] THEN Unbound ELSE NoCell)

unbind_variable(e, s) ==
  LET f == BindingFrame(heap, e, s)
      c == Contents(heap, e, s)
      i == CacheOf(heap, c)
      g == Unbinding(heap, f, s)
      outer == Parent(f)
  IN /\ LookupVariable(heap, e, s) # Unbound
     /\ \/ /\ c \notin CellTraps
           /\ Becomes(g)
           /\ UNCHANGED stale
        \/ /\ c \in CellTraps /\ f = Global
           /\ Becomes(SetValue(heap, i, Unbound))
           /\ stale' = stale \cup Relinked(heap, i)
        \/ /\ c \in CellTraps /\ f # Global /\ Contents(heap, outer, s) # NoCell
           /\ Becomes(UpdateCacheReferences(g, i, BindingFrame(heap, outer, s), f, s))
           /\ stale' = stale \ Deleted(heap, i, f, s)
        \/ /\ c \in CellTraps /\ f # Global /\ Contents(heap, outer, s) = NoCell
           /\ Becomes(UpdateClone(DeleteRefPairs(g, i, f, s), i))
           /\ stale' = stale \cup Deleted(heap, i, f, s)

-----------------------------------------------------------------------------
\* count_references drops the target's empty operator entries; move_all_references
\* for the three kinds, then one cache for both traps
Counted(h, i) == SetList(h, i, "operator", Walked(h.cache[i].alist["operator"]))
Merge(h, from, to) ==
  LET all == UNION {InAlist(h.cache[from].alist[k]) : k \in Kinds}
      g == SetValue(Counted(h, to), to, h.cache[from].value)
      m == [Install(g, to, all) EXCEPT
              !.cache[to].alist = [k \in Kinds |->
                 g.cache[to].alist[k] \o Walked(h.cache[from].alist[k])],
              !.cache[from].alist = [k \in Kinds |-> <<>>]]
  IN UpdateClone(UpdateClone(m, from), to)

link_variables(tf, ts, e, ss) ==
  LET sf == BindingFrame(heap, e, ss)
      source == Contents(heap, e, ss)
      target == heap.cell[tf][ts]
      from == CacheOf(heap, source)
      to == CacheOf(heap, target)
      g == GuaranteeCache(heap, sf, ss)
  IN /\ source \notin {NoCell, Unbound}
     /\ <<tf, ts>> # <<sf, ss>>
     /\ \/ /\ target \in CellTraps /\ source \in CellTraps /\ from # to
           /\ Becomes(Counted(heap, to))   \* interrupted for a collection
           /\ UNCHANGED stale
        \/ /\ target \in CellTraps /\ source \in CellTraps /\ from # to
           /\ Becomes([Merge(heap, from, to) EXCEPT
                         !.trap[source[2]] = to, !.cell[sf][ss] = target])
           /\ stale' = (stale \cup Relinked(heap, to)) \ Relinked(heap, from)
        \/ /\ target \in CellTraps /\ source \notin CellTraps
           /\ Becomes([heap EXCEPT !.cache[to].value = source, !.cell[sf][ss] = target])
           /\ stale' = stale \cup Relinked(heap, to)
        \/ /\ target \notin CellTraps
           /\ \/ Becomes(g)     \* interrupted for a collection in define_variable
              \/ Becomes(IF target = NoCell THEN Extend(g, tf, ts, g.cell[sf][ss])
                         ELSE SetCell(g, tf, ts, g.cell[sf][ss]))
           /\ UNCHANGED stale

\* compiler_cache_lookup, _assignment, _operator and _global_operator
add_cache_reference(r) ==
  LET f == BindingFrame(heap, r.env, r.sym)
      h == IF Contents(heap, r.env, r.sym) # NoCell THEN heap
           ELSE SetCell(heap, f, r.sym, Unbound)
      g == GuaranteeCache(h, f, r.sym)
      i == CacheOf(g, g.cell[f][r.sym])
      a == SetList(g, i, r.kind, AddNamed(g.cache[i].alist[r.kind], r.sym, {r}))
  IN /\ heap.loc[r] = NotLinked
     /\ \/ Becomes(h) /\ heap # h   \* interrupted for a collection
        \/ Becomes(Install(UpdateClone(a, i), i, {r}))
     /\ UNCHANGED stale

Emptied(alist, r) == [n \in DOMAIN alist |-> [alist[n] EXCEPT !.refs = @ \ {r}]]
\* The collector reclaims a block: its references are emptied where they stand
reclaim_block(r) ==
  /\ heap.loc[r] # NotLinked
  /\ Becomes([heap EXCEPT
       !.loc[r] = NotLinked,
       !.cache = [i \in Ids |-> [heap.cache[i] EXCEPT !.alist[r.kind] = Emptied(@, r)]]])
  /\ stale' = stale \ {r}

\* Compiled code assigns through its location: a value that is no trap is replaced
\* in place, every other one (a clone's too) goes to compiler_assignment_trap
compiled_assignment(r, v) ==
  LET i == heap.loc[r][2]
      old == LookupCache(heap, i)
  IN /\ r.kind = "assignment" /\ heap.loc[r] # NotLinked
     /\ \/ /\ heap.loc[r][1] = "cache" /\ old \in Values
           /\ Becomes(SetValue(heap, i, v))
           /\ stale' = stale \cup (IF r \in stale THEN Relinked(heap, i) ELSE {})
        \/ /\ heap.loc[r][1] = "clone" \/ old \notin Values
           /\ Assignable(old, FALSE)
           /\ Becomes(AssignCache(heap, i, v))
           /\ stale' = stale \ Relinked(heap, i)

\* Bound Ids: the steps that may make a trap need a free identity.
Room == Free(heap) # {}
Next == \/ \E w \in program.vars, v \in program.inputs \ {Macro} : assign_variable(w[1], w[2], v)
        \/ \E w \in program.vars, v \in program.inputs :
             w[1] \in InUse /\ Room /\ define_variable(w[1], w[2], v)
        \/ \E w \in program.vars : Room /\ unbind_variable(w[1], w[2])
        \/ \E l \in program.links : Room /\ link_variables(l[1], l[2], l[3], l[4])
        \/ \E r \in program.refs : Room /\ add_cache_reference(r)
        \/ \E r \in program.refs : reclaim_block(r)
        \/ \E r \in program.refs, v \in Values : compiled_assignment(r, v)

Spec == Init /\ [][Next]_vars

-----------------------------------------------------------------------------
\* Type invariant: a cell holds a plain object or a trap, a cache never holds a trap of
\* its own kind (lookup.c: guarantee_cache).
TypeOK == /\ program \in Programs
          /\ heap.cell \in [Envs -> [Symbols -> Plain \cup CellTraps \cup {NoCell}]]
          /\ heap.trap \in [Ids -> Ids \cup {0}]
          /\ \A i \in Ids : /\ heap.cache[i].value \in Plain
                            /\ heap.cache[i].clone \in BOOLEAN
          /\ stale \subseteq Refs

Linked(k) == {r \in Refs : r.kind = k /\ heap.loc[r] # NotLinked} \ stale

\* What compiled code reads through its cache is what a search of the environment
\* finds, whatever was defined, unbound, linked or collected since the reference was
\* cached (lookup.c: define_variable, unbind_variable, link_variables,
\* add_cache_reference).
LookupCoherent ==
  \A r \in Linked("lookup") :
    LookupCache(heap, heap.loc[r][2]) = LookupVariable(heap, r.env, r.sym)

\* An assignment by compiled code reaches the variable's own cache, and cannot store
\* into it in place while compiled operators depend on the value: the location then
\* holds a clone (lookup.c: update_clone, install_cache).
AssignmentCoherent ==
  \A r \in Linked("assignment") :
    LET i == heap.loc[r][2]
    IN /\ Contents(heap, r.env, r.sym) \in CellTraps
       /\ i = CacheOf(heap, Contents(heap, r.env, r.sym))
       /\ InAlist(heap.cache[i].alist["operator"]) # {} => heap.loc[r][1] = "clone"

\* A compiled call reaches the operator's current value: a direct link is to that
\* value and a dummy one goes through the variable's cache (lookup.c:
\* update_uuo_links, install_operator_cache).  Links that unbind_variable and
\* link_variables leave behind are excepted (stale).
OperatorCoherent ==
  \A r \in Linked("operator") :
    LET now == LookupVariable(heap, r.env, r.sym)
    IN IF heap.loc[r][1] = "link" THEN heap.loc[r][2] = now
       ELSE LookupCache(heap, heap.loc[r][2]) = now

=============================================================================
