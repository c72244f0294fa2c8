------------------------------- MODULE LuaGC -------------------------------
(***************************************************************************)
(* The incremental collector of the vendored Lua 5.1 (depends/lua/src/     *)
(* lgc.c) against the program that runs between its steps: allocation,     *)
(* table, userdata and upvalue writes with their barriers, string          *)
(* interning, open upvalues (lfunc.c), coroutines and finalizers.          *)
(*                                                                         *)
(* g is the global_State together with the heap.  An object's marked field *)
(* is one of the two whites, gray or black, or free.  The lists gray,      *)
(* grayagain and weak are sets: nothing the collector computes depends on  *)
(* their order.  unswept holds what lies behind sweepgc / sweepstrgc.      *)
(* A table has one node (key, val) and a metatable, a thread a stack of a  *)
(* few slots.  A scene fixes which objects a run may allocate and which of *)
(* their fields are in use.  The program reaches an object only through    *)
(* the stack of the running thread L and the table of globals.             *)
(***************************************************************************)
EXTENDS Integers, Sequences, FiniteSets

CONSTANTS
    Scenes,     \* what may be allocated: [tt, mode, fields, gcmt] each
    Nil,        \* no object
    Main, Globals   \* the main thread and the table of globals

ASSUME SceneAssumption == \A s \in Scenes : IsFiniteSet(DOMAIN s.tt)

VARIABLES
    scene,      \* the scene of this behaviour; never changes
    g,          \* global_State and the heap
    L,          \* the running thread
    called,     \* userdata -> how often its __gc was called
    garbage     \* unreachable when this cycle began and ever since

vars == <<scene, g, L, called, garbage>>

Objects == DOMAIN scene.tt
tt(o) == scene.tt[o]
Slots == {"s1", "s2"}
From(level) == IF level = "s1" THEN Slots ELSE {"s2"}
Whites == {"white0", "white1"}

luaC_white(h) == IF h.currentwhite = 0 THEN "white0" ELSE "white1"
otherwhite(h) == IF h.currentwhite = 0 THEN "white1" ELSE "white0"
iswhite(h, o) == h.marked[o] \in Whites
isdead(h, o) == h.marked[o] = otherwhite(h)
Allocated(h) == {o \in Objects : h.marked[o] # "free"}
makewhite(h, o) == [h EXCEPT !.marked[o] = luaC_white(h)]

\* A closed upvalue owns its value; an open one refers to a stack slot.
IsOpen(h, o) == tt(o) = "upval" /\ h.open[o] # Nil
UpvalValue(h, o) ==
    IF IsOpen(h, o) THEN h.ref[h.open[o].thread][h.open[o].slot] ELSE h.ref[o].v
OpenUpvals(h, t) == {o \in Objects : IsOpen(h, o) /\ h.open[o].thread = t}

Values(h, o, fs) == {h.ref[o][f] : f \in fs} \ {Nil}

(***************************************************************************)
(* Marking.                                                                *)
(***************************************************************************)
\* What reallymarkobject marks on the spot: it does not queue userdata and
\* upvalues, it goes through them.
Through(h, o) ==
    CASE tt(o) = "udata" -> Values(h, o, scene.fields[o])
      [] tt(o) = "upval" -> {UpvalValue(h, o)} \ {Nil}
      [] OTHER -> {}

MarkedThrough(h, S) ==
    LET W(T) == {o \in T : iswhite(h, o)}
        reach[n \in 0..Cardinality(Objects)] ==
            IF n = 0 THEN W(S)
            ELSE LET T == reach[n - 1]
                 IN  T \union W(UNION {Through(h, o) : o \in T})
    IN  reach[Cardinality(Objects)]

\* Strings stay gray until they are swept, userdata and closed upvalues turn
\* black at once, an open upvalue stays gray, the rest waits in the gray list.
reallymark(h, S) ==
    LET new == MarkedThrough(h, S)
        black == {o \in new : tt(o) = "udata" \/ (tt(o) = "upval" /\ ~IsOpen(h, o))}
    IN  [h EXCEPT !.marked = [o \in Objects |-> IF o \in black THEN "black"
                                                ELSE IF o \in new THEN "gray"
                                                ELSE @[o]],
                  !.gray = @ \union
                       {o \in new : tt(o) \in {"table", "closure", "thread"}}]

weakkey(o) == "k" \in scene.mode[o]
weakvalue(o) == "v" \in scene.mode[o]

\* Mutant of StrongFields: the key of a node without a value is marked too.
BugStrongFields(h, o) ==
    {f \in scene.fields[o] :
        CASE f = "key" -> ~weakkey(o) [] f = "val" -> ~weakvalue(o) [] OTHER -> TRUE}

\* The fields traversetable marks: a node without a value loses its key, and
\* the weak side of a weak table is left alone.
StrongFields(h, o) ==
    {f \in scene.fields[o] :
        CASE f = "key" -> ~weakkey(o) /\ h.ref[o].val # Nil
          [] f = "val" -> ~weakvalue(o)
          [] OTHER -> TRUE}

removeentries(h, o) ==
    IF tt(o) = "table" /\ "key" \in scene.fields[o] /\ h.ref[o].val = Nil
    THEN [h EXCEPT !.ref[o].key = Nil] ELSE h

propagatemark(h, o) ==
    LET again == tt(o) = "thread"
        weak == tt(o) = "table" /\ scene.mode[o] # {}
        h1 == [h EXCEPT !.gray = @ \ {o},
                        !.marked[o] = IF again \/ weak THEN "gray" ELSE "black",
                        !.grayagain = IF again THEN @ \union {o} ELSE @,
                        !.weak = IF weak THEN @ \union {o} ELSE @]
    IN  reallymark(removeentries(h1, o), Values(h, o, StrongFields(h, o)))

\* Everything is propagated at most twice over: once per object and once more
\* for the lists atomic puts back.
propagateall(h) ==
    LET after[n \in 0..(2 * Cardinality(Objects))] ==
            IF n = 0 THEN h
            ELSE LET k == after[n - 1]
                 IN  IF k.gray = {} THEN k
                     ELSE propagatemark(k, CHOOSE o \in k.gray : TRUE)
    IN  after[2 * Cardinality(Objects)]

(***************************************************************************)
(* The parts of atomic.                                                    *)
(***************************************************************************)
remarkupvals(h) ==
    reallymark(h, {UpvalValue(h, o) :
                     o \in {u \in Objects : IsOpen(h, u) /\ h.marked[u] = "gray"}} \ {Nil})

HasGC(h, u) == h.ref[u].meta # Nil /\ h.ref[u].meta \in scene.gcmt

ListOf(S) == CHOOSE s \in [1..Cardinality(S) -> S] : {s[i] : i \in DOMAIN s} = S

\* Dead userdata get the FINALIZED bit; those with a __gc move to tmudata.
luaC_separateudata(h, all) ==
    LET U == {u \in Allocated(h) : /\ tt(u) = "udata"
                                   /\ iswhite(h, u) \/ all
                                   /\ u \notin h.finalized}
    IN  [h EXCEPT !.finalized = @ \union U,
                  !.tmudata = @ \o ListOf({u \in U : HasGC(h, u)})]

Pending(h) == {h.tmudata[i] : i \in DOMAIN h.tmudata}

\* Mutant of marktmu: what waits for its finalizer is not marked.
Bugmarktmu(h) == h

marktmu(h) ==
    reallymark([h EXCEPT !.marked = [o \in Objects |-> IF o \in Pending(h)
                                                       THEN luaC_white(h) ELSE @[o]]],
               Pending(h))

\* A string is a value, never weak: iscleared marks it instead.
iscleared(h, o, iskey) ==
    /\ o # Nil
    /\ \/ iswhite(h, o) /\ tt(o) # "string"
       \/ tt(o) = "udata" /\ ~iskey /\ o \in h.finalized

\* The strings cleartable comes by: a key, and a value whose key stays.
WeakStrings(h) ==
    {o \in UNION {Values(h, t, {"key"}) : t \in h.weak} \union
           UNION {Values(h, t, {"val"}) : t \in
                     {t \in h.weak : ~iscleared(h, h.ref[t].key, TRUE)}} :
        tt(o) = "string"}

cleartable(h) ==
    LET gone == {t \in h.weak : \/ iscleared(h, h.ref[t].val, FALSE)
                                \/ iscleared(h, h.ref[t].key, TRUE)}
        kept == reallymark(h, WeakStrings(h))
    IN  [kept EXCEPT !.ref = [o \in Objects |->
            IF o \in gone THEN [@[o] EXCEPT !.key = Nil, !.val = Nil] ELSE @[o]]]

\* What the sweep phases visit: all but the pending userdata and the open
\* upvalues, which are swept with their thread.
Listed(h) == {o \in Allocated(h) : ~IsOpen(h, o)} \ Pending(h)

\* The heap after each of atomic's steps, and in the end after all of them: one
\* each, in sets so that a step is evaluated before the next.
atomic(h) ==
    LET propagated == {propagateall(remarkupvals(h))}
        weakly == {propagateall(reallymark([k EXCEPT !.gray = k.weak, !.weak = {}], {L})) : k \in propagated}
        again == {propagateall([k EXCEPT !.gray = k.grayagain, !.grayagain = {}]) : k \in weakly}
        finalizing == {luaC_separateudata(k, FALSE) : k \in again}
        cleared == {cleartable(k) : k \in {propagateall(marktmu(m)) : m \in finalizing}}
    IN  {[k EXCEPT !.currentwhite = 1 - @, !.gcstate = "sweepstring", !.unswept = Listed(k)] : k \in cleared}

(***************************************************************************)
(* Upvalues (lfunc.c).                                                     *)
(***************************************************************************)
NoRef(o) == [f \in scene.fields[o] |-> Nil]

Freed(h, o) == [h EXCEPT !.marked[o] = "free", !.ref[o] = NoRef(o), !.open[o] = Nil,
                         !.grayagain = @ \ {o}, !.weak = @ \ {o},
                         !.finalized = @ \ {o}, !.unswept = @ \ {o}]

luaC_linkupval(h, o) ==
    IF h.marked[o] # "gray" THEN h
    ELSE IF h.gcstate # "propagate" THEN makewhite(h, o)
    ELSE LET b == [h EXCEPT !.marked[o] = "black"]
         IN  IF h.ref[o].v = Nil THEN b ELSE reallymark(b, {h.ref[o].v})

CloseUpval(h, o) ==
    IF isdead(h, o) THEN Freed(h, o)
    ELSE luaC_linkupval([h EXCEPT !.ref[o].v = UpvalValue(h, o), !.open[o] = Nil], o)

\* At most one open upvalue per slot, the highest slots first.
UpvalAt(h, t, s) == {o \in OpenUpvals(h, t) : h.open[o].slot = s}

luaF_close(h, t, level) ==
    LET at(s, k) == IF s \notin From(level) \/ UpvalAt(k, t, s) = {} THEN k
                    ELSE CloseUpval(k, CHOOSE o \in UpvalAt(k, t, s) : TRUE)
    IN  at("s1", at("s2", h))

(***************************************************************************)
(* Sweeping.                                                               *)
(***************************************************************************)
\* One object of a list: the dead are freed, a dead thread closing its open
\* upvalues on the way, the rest is made white for the next cycle.
SweepOne(h, o) ==
    IF isdead(h, o) THEN Freed(h, o) ELSE makewhite(h, o)

SweepOpen(h, t) ==
    LET at(s, k) == IF UpvalAt(k, t, s) = {} THEN k
                    ELSE SweepOne(k, CHOOSE o \in UpvalAt(k, t, s) : TRUE)
    IN  at("s1", at("s2", h))

sweepobject(h, o) ==
    LET h1 == [h EXCEPT !.unswept = @ \ {o}]
        h2 == IF tt(o) = "thread" THEN SweepOpen(h1, o) ELSE h1
    IN  IF isdead(h, o) /\ o # Main
        THEN Freed(IF tt(o) = "thread" THEN luaF_close(h2, o, "s1") ELSE h2, o)
        ELSE makewhite(h2, o)

(***************************************************************************)
(* Barriers.                                                               *)
(***************************************************************************)
\* Mutant of luaC_barrierf: forgotten while marking.
BugluaC_barrierf(h, o, v) == h

luaC_barrierf(h, o, v) ==
    IF h.gcstate = "propagate" THEN reallymark(h, {v}) ELSE makewhite(h, o)

luaC_barrierback(h, t) ==
    [h EXCEPT !.marked[t] = "gray", !.grayagain = @ \union {t}]

Barrier(h, o, v) ==
    IF v = Nil \/ h.marked[o] # "black" \/ ~iswhite(h, v) THEN h
    ELSE IF tt(o) = "table" THEN luaC_barrierback(h, o)
    ELSE luaC_barrierf(h, o, v)

(***************************************************************************)
(* Reachability, for the properties.                                       *)
(***************************************************************************)
\* What a program can get at from o: every field; a node only with a value.
Readable(h, o) ==
    CASE tt(o) = "upval" -> {UpvalValue(h, o)} \ {Nil}
      [] tt(o) = "table" -> Values(h, o, {f \in scene.fields[o] :
                                             f # "key" \/ h.ref[o].val # Nil})
      [] OTHER -> Values(h, o, scene.fields[o])

\* What keeps an object: strings are values and count in a weak table too.
Strong(h, o) ==
    {v \in Readable(h, o) : \/ tt(v) = "string" \/ tt(o) = "upval"
                            \/ v \in Values(h, o, StrongFields(h, o))}

Reach(h, roots, Step(_, _)) ==
    LET r[n \in 0..Cardinality(Objects)] ==
            IF n = 0 THEN roots
            ELSE LET T == r[n - 1] IN T \union UNION {Step(h, o) : o \in T}
    IN  r[Cardinality(Objects)]

\* markroot: the main thread, its globals and the registry, here the
\* metatables luaL_newmetatable keeps in it.
RootSet == {Main, Globals} \union scene.gcmt
Roots(h) == RootSet \union {L} \union Pending(h)

\* A __gc keeps an unreachable userdata, and what it refers to, for one call.
ToFinalize(h) == {u \in Allocated(h) : /\ tt(u) = "udata" /\ HasGC(h, u)
                                       /\ u \notin h.finalized}

Unreachable(h) ==
    Allocated(h) \ Reach(h, Roots(h) \union ToFinalize(h), Strong)
StillUnreachable(h, t) == garbage \ Reach(h, RootSet \union {t} \union Pending(h), Strong)

(***************************************************************************)
(* Initial state: lua_newstate.                                            *)
(***************************************************************************)
Init ==
    /\ scene \in Scenes
    /\ g = [marked |-> [o \in Objects |-> IF o \in RootSet THEN "white0" ELSE "free"],
            ref |-> [o \in Objects |-> NoRef(o)],
            open |-> [o \in Objects |-> Nil],
            gcstate |-> "pause", currentwhite |-> 0,
            gray |-> {}, grayagain |-> {}, weak |-> {}, unswept |-> {},
            tmudata |-> <<>>, finalized |-> {}]
    /\ L = Main
    /\ called = [o \in Objects |-> 0]
    /\ garbage = {}

(***************************************************************************)
(* The program.                                                            *)
(***************************************************************************)
StackSlots(t) == Slots \cap scene.fields[t]
Places(t) == StackSlots(t) \union {"globals"}
\* index2adr: a stack slot, or LUA_GLOBALSINDEX.
Stack(i) == IF i = "globals" THEN Globals ELSE g.ref[L][i]
Assigned(h, i, v) == [h EXCEPT !.ref[L][i] = v]

Do(h) ==
    /\ g' = h
    /\ garbage' = StillUnreachable(h, L)
    /\ UNCHANGED <<scene, L, called>>

\* luaC_link and its callers: luaH_new, luaF_newCclosure, luaS_newudata,
\* luaE_newthread (which shares the table of globals).
luaC_link(h, o) == makewhite(h, o)

New(i, o) ==
    /\ g.marked[o] = "free"
    /\ tt(o) \in {"table", "udata", "thread", "string"}
    /\ g' = Assigned(luaC_link(g, o), i, o)
    /\ garbage' = StillUnreachable(g', L)
    /\ called' = [called EXCEPT ![o] = 0]
    /\ UNCHANGED <<scene, L>>

\* Interning finds the string that is already there, dead or not.
luaS_newlstr(h, o) == IF isdead(h, o) THEN luaC_link(h, o) ELSE h

Intern(i, o) ==
    /\ tt(o) = "string"
    /\ g.marked[o] # "free"
    /\ Do(Assigned(luaS_newlstr(g, o), i, o))

\* luaF_findupval: the open upvalue of a slot, revived when dead.
luaF_findupval(h, s, u) ==
    IF UpvalAt(h, L, s) # {}
    THEN IF isdead(h, u) THEN luaC_link(h, u) ELSE h
    ELSE [luaC_link(h, u) EXCEPT !.open[u] = [thread |-> L, slot |-> s]]

\* OP_CLOSURE with one captured local.
Closure(i, o, s, u) ==
    /\ tt(o) = "closure" /\ g.marked[o] = "free"
    /\ tt(u) = "upval"
    /\ IF UpvalAt(g, L, s) = {} THEN g.marked[u] = "free" ELSE u \in UpvalAt(g, L, s)
    /\ LET h == luaF_findupval(luaC_link(g, o), s, u)
       IN  Do(Assigned([h EXCEPT !.ref[o].up = u], i, o))

GetField(i, j, f) ==
    /\ Stack(j) # Nil
    /\ tt(Stack(j)) \in {"table", "udata"}
    /\ f \in scene.fields[Stack(j)]
    /\ f = "key" => g.ref[Stack(j)].val # Nil
    /\ Do(Assigned(g, i, g.ref[Stack(j)][f]))

\* lua_rawset, lua_setfenv: the write and its barrier.
SetField(j, f, i) ==
    LET o == Stack(j) IN
    /\ o # Nil
    /\ tt(o) \in {"table", "udata"}
    /\ f \in scene.fields[o] \ {"key", "meta"}
    /\ f = "env" => Stack(i) # Nil /\ tt(Stack(i)) = "table"
    /\ Do(Barrier([g EXCEPT !.ref[o][f] = Stack(i)], o, Stack(i)))

\* lua_setmetatable with a metatable of the registry, or none.
SetMetatable(j, m) ==
    LET o == Stack(j) IN
    /\ o # Nil
    /\ "meta" \in scene.fields[o]
    /\ Do(Barrier([g EXCEPT !.ref[o].meta = m], o, m))

\* luaH_set with a new key: luaH_newkey's barrier on the key, then the value.
SetNode(j, k, i) ==
    LET t == Stack(j)
        h == [g EXCEPT !.ref[t].key = Stack(k), !.ref[t].val = Stack(i)]
    IN  /\ t # Nil
        /\ tt(t) = "table" /\ "key" \in scene.fields[t]
        /\ Stack(k) # Nil
        /\ Do(Barrier(Barrier(h, t, Stack(k)), t, Stack(i)))

GetUpval(i, j) ==
    /\ Stack(j) # Nil /\ tt(Stack(j)) = "closure"
    /\ Do(Assigned(g, i, UpvalValue(g, g.ref[Stack(j)].up)))

\* OP_SETUPVAL: a write to an open upvalue lands in its stack slot.
SetUpval(j, i) ==
    LET u == g.ref[Stack(j)].up
        h == IF IsOpen(g, u)
             THEN [g EXCEPT !.ref[g.open[u].thread][g.open[u].slot] = Stack(i)]
             ELSE [g EXCEPT !.ref[u].v = Stack(i)]
    IN  /\ Stack(j) # Nil /\ tt(Stack(j)) = "closure"
        /\ Do(Barrier(h, u, Stack(i)))

\* A function returns: its upvalues are closed and its slots given up.
Return(level) ==
    LET h == luaF_close(g, L, level) IN
    /\ \E s \in StackSlots(L) \cap From(level) : Stack(s) # Nil
    /\ Do([h EXCEPT !.ref[L] = [s \in DOMAIN @ |->
                IF s \in From(level) THEN Nil ELSE @[s]]])

\* lua_resume and lua_xmove of one argument; lua_yield takes the way back.
Resume(j) ==
    LET t == Stack(j) IN
    /\ L = Main
    /\ t # Nil /\ t # Main /\ tt(t) = "thread"
    /\ \E v \in {Nil} \union Values(g, Main, StackSlots(Main)) :
          g' = [g EXCEPT !.ref[t].s1 = v]
    /\ L' = t
    /\ garbage' = StillUnreachable(g', t)
    /\ UNCHANGED <<scene, called>>

Yield ==
    /\ L # Main
    /\ g' = [g EXCEPT !.ref[Main].s1 = Stack("s1")]
    /\ L' = Main
    /\ garbage' = StillUnreachable(g', Main)
    /\ UNCHANGED <<scene, called>>

(***************************************************************************)
(* The collector's steps.                                                  *)
(***************************************************************************)
Collect(h) == Do(h)

\* markroot drops whatever the lists still hold.
markrootLists(h) == [h EXCEPT !.gray = {}, !.grayagain = {}, !.weak = {}]

MarkRoot ==
    /\ g.gcstate = "pause"
    /\ g' = [reallymark(markrootLists(g), RootSet) EXCEPT !.gcstate = "propagate"]
    /\ garbage' = Unreachable(g)
    /\ UNCHANGED <<scene, L, called>>

Propagate ==
    /\ g.gcstate = "propagate"
    /\ \E o \in g.gray : Collect(propagatemark(g, o))

Atomic ==
    /\ g.gcstate = "propagate"
    /\ g.gray = {}
    /\ \E h \in atomic(g) : Collect(h)

Strings(h) == {o \in h.unswept : tt(o) = "string"}

SweepString ==
    /\ g.gcstate = "sweepstring"
    /\ IF Strings(g) = {} THEN Collect([g EXCEPT !.gcstate = "sweep"])
       ELSE \E o \in Strings(g) : Collect(sweepobject(g, o))

Sweep ==
    /\ g.gcstate = "sweep"
    /\ IF g.unswept = {} THEN Collect([g EXCEPT !.gcstate = "finalize"])
       ELSE \E o \in g.unswept : Collect(sweepobject(g, o))

\* Mutant of GCTM: the userdata is not taken out of tmudata.
BugGCTM(h, i) ==
    LET u == Head(h.tmudata)
        back == makewhite(h, u)
    IN  IF HasGC(h, u) THEN [back EXCEPT !.ref[L][i] = u] ELSE back

\* GCTM: the userdata goes back to the list, white, and its finalizer is
\* called with it: what the program does next is that call.
GCTM(h, i) ==
    LET u == Head(h.tmudata)
        back == makewhite([h EXCEPT !.tmudata = Tail(@)], u)
    IN  IF HasGC(h, u) THEN [back EXCEPT !.ref[L][i] = u] ELSE back

Finalize(i) ==
    /\ g.gcstate = "finalize"
    /\ IF g.tmudata = <<>>
       THEN Collect([g EXCEPT !.gcstate = "pause"])
       ELSE /\ Stack(i) = Nil
            /\ g' = GCTM(g, i)
            /\ called' = [called EXCEPT ![Head(g.tmudata)] =
                             IF HasGC(g, Head(g.tmudata)) THEN @ + 1 ELSE @]
            /\ garbage' = StillUnreachable(g', L)
            /\ UNCHANGED <<scene, L>>

\* luaC_fullgc drops a collection that is still marking and sweeps everything
\* back to white; caught in the finalize phase it starts to mark at once.
FullGC ==
    \/ /\ g.gcstate \in {"pause", "propagate"}
       /\ g' = [g EXCEPT !.gray = {}, !.grayagain = {}, !.weak = {},
                         !.unswept = Listed(g), !.gcstate = "sweepstring"]
       /\ garbage' = {}
       /\ UNCHANGED <<scene, L, called>>
    \/ /\ g.gcstate = "finalize"
       /\ g' = [reallymark(markrootLists(g), RootSet) EXCEPT !.gcstate = "propagate"]
       /\ garbage' = Unreachable(g)
       /\ UNCHANGED <<scene, L, called>>

Program ==
    \/ \E i \in StackSlots(L) :
          \/ \E o \in Objects : New(i, o) \/ Intern(i, o)
          \/ \E o, u \in Objects, s \in StackSlots(L) : Closure(i, o, s, u)
          \/ \E j \in Places(L) :
                \/ \E m \in scene.gcmt \union {Nil} : SetMetatable(j, m)
                \/ \E f \in {"key", "val", "env"} : GetField(i, j, f) \/ SetField(j, f, i)
                \/ \E k \in StackSlots(L) : SetNode(j, k, i)
                \/ GetUpval(i, j)
                \/ SetUpval(j, i)
          \/ Return(i)
          \/ Resume(i)
    \/ Yield

Collector ==
    \/ MarkRoot \/ Propagate \/ Atomic \/ SweepString \/ Sweep
    \/ \E i \in StackSlots(L) : Finalize(i)
    \/ FullGC

Next == Program \/ Collector

Spec == Init /\ [][Next]_vars

(***************************************************************************)
(* Properties.                                                             *)
(***************************************************************************)
\* Nothing a program can get at is freed under it: whatever the stack, the
\* globals or a pending finalizer lead to, weak references included, is still
\* allocated, whichever step of the collector the program met.
ReachableKept ==
    Reach(g, Roots(g), Readable) \subseteq Allocated(g)

\* While marking, no black object refers to a white one: every write behind
\* the collector's back went through a barrier (lgc.c:661-682).  Userdata left
\* over for a finalizer keep the black of the last cycle until marktmu.
\* Between collections nothing else is left black, and no open upvalue gray:
\* what the assertions of luaC_barrierf, luaC_barrierback and luaC_linkupval
\* rely on.
ColoursRight ==
    \A o \in Allocated(g) \ Pending(g) :
        /\ g.gcstate = "propagate" /\ g.marked[o] = "black" =>
               \A v \in Strong(g, o) : ~iswhite(g, v)
        /\ g.gcstate \in {"pause", "finalize"} =>
               g.marked[o] # "black" /\ (IsOpen(g, o) => g.marked[o] # "gray")

\* A collection frees all that was unreachable when it began and stayed so
\* (userdata with a finalizer to call, and what they refer to, aside).
GarbageFreed ==
    g.gcstate = "finalize" => garbage \cap Allocated(g) = {}

\* A userdata's __gc is called at most once, even if the finalizer revives it
\* and it dies again.
FinalizedOnce == \A o \in Objects : called[o] <= 1
=============================================================================
