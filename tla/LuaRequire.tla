----------------------------- MODULE LuaRequire -----------------------------
(***************************************************************************)
(* Loading of modules, loadlib.c: require with the sentinel it leaves in   *)
(* package.loaded while a module runs, and module.  A module's body is any *)
(* Lua function: it may require others, call module, assign its own entry, *)
(* return anything or raise an error, which whoever called it in protected *)
(* mode catches.  What the loaders find is up to the file system.          *)
(***************************************************************************)
EXTENDS Integers, Sequences, SequencesExt

CONSTANTS Modules,              \* names of modules
          MaxFalse              \* bound: runs that end with false, per module

NilEntry == <<"nil">>
False == <<"false">>
True == <<"true">>
Sentinel == <<"sentinel">>
Value == <<"value">>            \* a true value that is no table
TableOf(n) == <<"table", n>>    \* the global table that module makes

toboolean(v) == v \notin {NilEntry, False}

VARIABLES loaded,               \* package.loaded
          globals,              \* what the global variable of a module's name holds
          running,              \* the bodies in progress, the innermost last
          runs,                 \* runs since the entry was last cleared or false
          falses,               \* how many runs have ended with false
          failed,               \* modules whose last run raised an error
          got                   \* what require last answered

requireVars == <<loaded, globals, running, runs, falses, failed, got>>

RequireInit ==
  /\ loaded = [n \in Modules |-> NilEntry] /\ globals \in [Modules -> {NilEntry, Value, False}]
  /\ running = << >> /\ failed = {}
  /\ runs = [n \in Modules |-> 0] /\ falses = [n \in Modules |-> 0]
  /\ got = [n \in Modules |-> NilEntry]

Above(d) == {running[i] : i \in d + 1 .. Len(running)}

\* An error, caught by a protected call in the body at depth d, or in the main
\* program at depth 0.
luaL_raise(d) ==
  /\ running' = SubSeq(running, 1, d) /\ failed' = failed \cup Above(d)
  /\ UNCHANGED <<globals, runs, falses, got>>

(* ------------------------------ require --------------------------------- *)
\* A true entry is the answer, but the sentinel: a loop, or an error before.
RequireLoaded(n) ==
  /\ toboolean(loaded[n])
  /\ \/ loaded[n] = Sentinel /\ \E d \in 0 .. Len(running) : luaL_raise(d)
     \/ /\ loaded[n] # Sentinel /\ got' = [got EXCEPT ![n] = loaded[n]]
        /\ UNCHANGED <<globals, running, runs, falses, failed>>
  /\ UNCHANGED loaded

\* No loader answers a function, or one raises an error.
RequireNotFound(n) ==
  /\ ~toboolean(loaded[n])
  /\ \E d \in 0 .. Len(running) : luaL_raise(d)
  /\ UNCHANGED loaded

\* Mutant of EnterModule: the module runs before its entry is marked.
BugEnterModule(n) == running' = Append(running, n) /\ UNCHANGED loaded

\* A loader answers a function: the entry is marked and the function called.
EnterModule(n) == running' = Append(running, n) /\ loaded' = [loaded EXCEPT ![n] = Sentinel]

RequireFound(n) ==
  /\ ~toboolean(loaded[n]) /\ falses[n] < MaxFalse
  /\ EnterModule(n)
  /\ runs' = [runs EXCEPT ![n] = @ + 1] /\ failed' = failed \ {n}
  /\ UNCHANGED <<globals, falses, got>>

\* The body returns v: an entry it has not set, here or by v, becomes true.
RequireDone(v) ==
  /\ running # << >>
  /\ LET n == Last(running)
         set == IF v # NilEntry THEN v ELSE loaded[n]
         final == IF set = Sentinel THEN True ELSE set
     IN /\ loaded' = [loaded EXCEPT ![n] = final]
        /\ got' = [got EXCEPT ![n] = final]
        /\ runs' = [runs EXCEPT ![n] = IF toboolean(final) THEN @ ELSE 0]
        /\ falses' = [falses EXCEPT ![n] = IF toboolean(final) THEN @ ELSE @ + 1]
  /\ running' = Front(running)
  /\ UNCHANGED <<globals, failed>>

(* ------------------------------- bodies --------------------------------- *)
Fail == \E d \in 0 .. Len(running) - 1 : luaL_raise(d) /\ UNCHANGED loaded

\* module(...), at the start of a body or, for a new name, outside of one.  The
\* global variable is used, made, or in the way (luaL_findtable).
ll_module(n) ==
  /\ IF running # << >> THEN n = Last(running) ELSE loaded[n] = NilEntry
  /\ \/ /\ loaded[n] # TableOf(n) /\ globals[n] \in {NilEntry, TableOf(n)}
        /\ loaded' = [loaded EXCEPT ![n] = TableOf(n)]
        /\ globals' = [globals EXCEPT ![n] = TableOf(n)]
        /\ UNCHANGED <<running, runs, falses, failed, got>>
     \/ /\ loaded[n] # TableOf(n) /\ globals[n] \notin {NilEntry, TableOf(n)}
        /\ \E d \in 0 .. Len(running) : luaL_raise(d)
        /\ UNCHANGED loaded

\* package.loaded[...] = value, in a body.
SetOwn ==
  /\ running # << >> /\ loaded' = [loaded EXCEPT ![Last(running)] = Value]
  /\ UNCHANGED <<globals, running, runs, falses, failed, got>>

\* package.loaded[name] = nil, to load a module that is not running again.
Unload(n) ==
  /\ n \notin Above(0)
  /\ loaded' = [loaded EXCEPT ![n] = NilEntry]
  /\ runs' = [runs EXCEPT ![n] = 0] /\ got' = [got EXCEPT ![n] = NilEntry] /\ failed' = failed \ {n}
  /\ UNCHANGED <<globals, running, falses>>

RequireNext ==
  \/ \E n \in Modules : \/ RequireLoaded(n) \/ RequireNotFound(n) \/ RequireFound(n)
                        \/ ll_module(n) \/ Unload(n)
  \/ \E v \in {NilEntry, False, Value} : RequireDone(v)
  \/ Fail \/ SetOwn

RequireSpec == RequireInit /\ [][RequireNext]_requireVars

(* ---------------------------- properties -------------------------------- *)
\* A module runs once: never inside itself, however the modules require each
\* other and wherever errors are caught, and not again after it has answered a
\* true value or raised an error, until its entry is cleared.  The sentinel of
\* ll_require (loadlib.c:447) stands in package.loaded just while the module
\* runs and after it failed, never as an answer, and the answer of a module that
\* has ended is what package.loaded holds.
RequireRight ==
  /\ \A i, j \in DOMAIN running : running[i] = running[j] => i = j
  /\ \A n \in Modules : runs[n] <= 1
  /\ \A n \in Modules : loaded[n] = Sentinel => n \in Above(0) \cup failed
  /\ \A n \in Modules \ (Above(0) \cup failed) : got[n] # NilEntry => loaded[n] = got[n]
  /\ \A n \in Modules : got[n] # Sentinel
=============================================================================
