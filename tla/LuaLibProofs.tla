---------------------------- MODULE LuaLibProofs ----------------------------
(***************************************************************************)
(* Proofs about the libraries of Lua: the file handles of the io library,  *)
(* for any number of handles and FILEs, and require, for any modules.      *)
(***************************************************************************)
EXTENDS LuaIO, LuaRequire, SequenceTheorems, TLAPS

-----------------------------------------------------------------------------
(***************************************************************************)
(* File handles (liolib.c).                                                *)
(***************************************************************************)

\* No reference dangles: what the program, a default or an iterator refers to
\* exists.
IOTypeOK ==
  /\ made \subseteq Handles /\ finalized \subseteq made /\ held \subseteq made
  /\ fp \in [Handles -> FILEs \cup {NULL}] /\ env \in [Handles -> Closers]
  /\ open \subseteq FILEs /\ kind \in [FILEs -> Kinds]
  /\ deflt \in [Defaults -> made] /\ iters \subseteq made \X BOOLEAN

\* The standard FILEs are those opened as such, and a finalized handle owns
\* none of the others: the sweep that frees it loses no FILE.
IOInv ==
  /\ IOTypeOK /\ HandlesRight
  /\ \A f \in FILEs : kind[f] = "standard" <=> f \in Std
  /\ \A h \in finalized : fp[h] # NULL => env[h] = "io_noclose"

\* The three ways to close are told apart by the kind.
LEMMA CloserFacts == /\ Closer["file"] = "io_fclose" /\ Closer["pipe"] = "io_pclose"
                     /\ Closer["standard"] = "io_noclose"
                     /\ \A k \in Kinds : Closer[k] = "io_noclose" => k = "standard"
BY DEF Closer, Kinds

\* luaopen_io makes the standard handles and no others.
LEMMA IOInitInv == luaopen_io => IOInv
<1> SUFFICES ASSUME luaopen_io PROVE IOInv
  OBVIOUS
<1>1. IOTypeOK
  <2>1. fp \in [Handles -> FILEs \cup {NULL}] /\ env \in [Handles -> Closers]
    BY StdAssumption DEF luaopen_io, Closers
  <2>2. kind \in [FILEs -> Kinds] /\ deflt \in [Defaults -> made]
    BY StdAssumption DEF luaopen_io, Kinds
  <2> QED BY <2>1, <2>2, StdAssumption DEF luaopen_io, IOTypeOK
<1>2. \A h \in made : fp[h] = h /\ env[h] = "io_noclose" /\ h \in FILEs /\ kind[h] = "standard"
  BY StdAssumption DEF luaopen_io
<1>3. HandlesRight
  <2>1. made = open /\ open = Std
    BY DEF luaopen_io
  <2>2. \A h \in made : env[h] = Closer[kind[fp[h]]]
    BY <1>2, CloserFacts
  <2>3. \A h \in made : fp[h] \in open
    BY <1>2, <2>1
  <2>4. \A h, q \in made : fp[h] = fp[q] => h = q
    BY <1>2
  <2> QED BY <2>1, <2>2, <2>3, <2>4 DEF HandlesRight
<1> QED BY <1>1, <1>3 DEF luaopen_io, IOInv

\* References to handles that exist, whatever else a step changes.
RefsOK ==
  /\ held \subseteq made
  /\ deflt \in [Defaults -> made]
  /\ iters \subseteq made \X BOOLEAN

\* A new handle whose FILE opens: fopen and popen answer a FILE nobody has.
LEMMA OpenKeepsInv ==
  ASSUME IOInv, NEW h \in Handles, NEW f \in FILEs, NEW k \in {"file", "pipe"},
         newfile(h, Closer[k]), Opened(h, f, k), RefsOK'
  PROVE  IOInv'
<1>1. f \notin Std /\ f \notin open /\ k # "standard" /\ k \in Kinds
  BY DEF IOInv, HandlesRight, Opened, Kinds
<1>2. \A g \in made : fp'[g] = fp[g] /\ env'[g] = env[g] /\ (fp[g] # NULL => fp[g] # f /\ kind'[fp[g]] = kind[fp[g]])
  BY <1>1 DEF IOInv, IOTypeOK, HandlesRight, newfile, Opened
<1>3. fp'[h] = f /\ env'[h] = Closer[k] /\ kind'[f] = k /\ h \notin made
  BY DEF IOInv, IOTypeOK, newfile, Opened
<1>4. IOTypeOK'
  BY <1>1, CloserFacts DEF IOInv, IOTypeOK, RefsOK, newfile, Opened, Closers
<1>5. HandlesRight'
  <2>1. \A g \in made' : fp'[g] # NULL => fp'[g] \in open' /\ env'[g] = Closer[kind'[fp'[g]]]
    BY <1>2, <1>3 DEF IOInv, HandlesRight, newfile, Opened
  <2>2. \A g \in made', e \in made' : fp'[g] # NULL /\ fp'[g] = fp'[e] => g = e
    BY <1>2, <1>3, NullAssumption DEF IOInv, HandlesRight, newfile
  <2>3. \A x \in open' \ Std : \E g \in made' : fp'[g] = x
    BY <1>2, <1>3 DEF IOInv, HandlesRight, newfile, Opened
  <2>4. Std \subseteq open'
    BY DEF IOInv, HandlesRight, Opened
  <2> QED BY <2>1, <2>2, <2>3, <2>4 DEF HandlesRight
<1>6. \A x \in FILEs : kind'[x] = "standard" <=> x \in Std
  BY <1>1 DEF IOInv, IOTypeOK, Opened
<1>7. \A g \in finalized' : fp'[g] # NULL => env'[g] = "io_noclose"
  BY <1>2 DEF IOInv, IOTypeOK, newfile
<1> QED BY <1>4, <1>5, <1>6, <1>7 DEF IOInv

\* A new handle whose FILE does not open stays closed.
LEMMA FailKeepsInv ==
  ASSUME IOInv, NEW h \in Handles, NEW c \in Closers, newfile(h, c), Failed(h), RefsOK'
  PROVE  IOInv'
<1>1. /\ \A g \in made : fp'[g] = fp[g] /\ env'[g] = env[g]
      /\ fp'[h] = NULL /\ h \notin made
  BY DEF IOInv, IOTypeOK, newfile, Failed
<1>2. IOTypeOK'
  BY DEF IOInv, IOTypeOK, RefsOK, newfile, Failed
<1>3. HandlesRight'
  BY <1>1 DEF IOInv, HandlesRight, newfile, Failed
<1> QED BY <1>1, <1>2, <1>3 DEF IOInv, IOTypeOK, newfile, Failed

\* Closing through an existing handle with a FILE; the finalizer marks it too.
LEMMA CloseKeepsInv ==
  ASSUME IOInv, NEW h \in made, fp[h] # NULL, aux_close(h),
         finalized' \in {finalized, finalized \cup {h}},
         UNCHANGED <<made, env, kind, deflt, held, iters>>
  PROVE  IOInv'
<1>1. CASE env[h] = "io_noclose"
  BY <1>1 DEF IOInv, IOTypeOK, HandlesRight, aux_close
<1>2. CASE env[h] # "io_noclose"
  <2>1. fp' = [fp EXCEPT ![h] = NULL] /\ open' = open \ {fp[h]}
    BY <1>2 DEF aux_close, CloseFile
  <2>2. h \in Handles /\ fp[h] \in open /\ fp[h] \notin Std
    BY <1>2, CloserFacts DEF IOInv, IOTypeOK, HandlesRight
  <2>3. fp'[h] = NULL /\ \A g \in made : g # h => fp'[g] = fp[g]
    BY <2>1, <2>2 DEF IOInv, IOTypeOK
  <2>4. IOTypeOK'
    BY <2>1, <2>2 DEF IOInv, IOTypeOK
  <2>5. HandlesRight'
    <3>1. \A g \in made' : fp'[g] # NULL => fp'[g] \in open' /\ env'[g] = Closer[kind'[fp'[g]]]
      BY <2>1, <2>3 DEF IOInv, HandlesRight
    <3>2. \A g \in made', e \in made' : fp'[g] # NULL /\ fp'[g] = fp'[e] => g = e
      BY <2>3 DEF IOInv, HandlesRight
    <3>3. \A x \in open' \ Std : \E g \in made' : fp'[g] = x
      BY <2>1, <2>3 DEF IOInv, HandlesRight
    <3> QED BY <2>1, <2>2, <3>1, <3>2, <3>3 DEF IOInv, HandlesRight
  <2> QED BY <2>3, <2>4, <2>5 DEF IOInv, IOTypeOK
<1> QED BY <1>1, <1>2

\* Steps that only move references about.
LEMMA RefsKeepInv ==
  ASSUME IOInv, RefsOK', UNCHANGED <<made, fp, env, finalized, open, kind>>
  PROVE  IOInv'
BY DEF IOInv, IOTypeOK, HandlesRight, RefsOK

\* A handle is freed after its finalizer, with no reference left.
LEMMA SweepKeepsInv ==
  ASSUME IOInv, NEW h \in Handles, SweepHandle(h)
  PROVE  IOInv'
<1>1. h \in finalized /\ h \in made /\ made' = made \ {h} /\ finalized' = finalized \ {h}
      /\ UNCHANGED <<fp, env, open, kind, deflt, held, iters>>
  BY DEF SweepHandle
<1>2. h \notin held /\ (\A i \in Defaults : deflt[i] # h) /\ (\A b \in BOOLEAN : <<h, b>> \notin iters)
  BY DEF SweepHandle, Referred
<1>3. RefsOK'
  <2>1. held' \subseteq made' /\ iters' \subseteq made' \X BOOLEAN
    BY <1>1, <1>2 DEF IOInv, IOTypeOK
  <2>2. deflt' \in [Defaults -> made']
    BY <1>1, <1>2 DEF IOInv, IOTypeOK
  <2> QED BY <2>1, <2>2 DEF RefsOK
<1>4. IOTypeOK'
  BY <1>1, <1>3 DEF IOInv, IOTypeOK, RefsOK
<1>5. fp[h] # NULL => fp[h] \in Std
  BY <1>1, CloserFacts DEF IOInv, IOTypeOK, HandlesRight
<1>6. HandlesRight'
  <2>1. \A x \in open' \ Std : \E g \in made' : fp'[g] = x
    BY <1>1, <1>5, NullAssumption DEF IOInv, IOTypeOK, HandlesRight
  <2> QED BY <1>1, <2>1 DEF IOInv, HandlesRight
<1> QED BY <1>1, <1>4, <1>6 DEF IOInv

\* One step per operation: each is one of the five kinds above.
LEMMA IONextInv == IOInv /\ [ioNext]_ioVars => IOInv'
<1> SUFFICES ASSUME IOInv, [ioNext]_ioVars PROVE IOInv'
  OBVIOUS
<1>0. RefsOK /\ made \subseteq Handles
  BY DEF IOInv, IOTypeOK, RefsOK
<1>1. ASSUME NEW h \in Handles, io_open(h) PROVE IOInv'
  <2>1. newfile(h, "io_fclose") /\ RefsOK'
    BY <1>0, <1>1 DEF io_open, newfile, RefsOK
  <2>2. CASE Failed(h)
    BY <2>1, <2>2, FailKeepsInv DEF Closers
  <2>3. ASSUME NEW f \in FILEs, Opened(h, f, "file") PROVE IOInv'
    BY <2>1, <2>3, OpenKeepsInv, CloserFacts
  <2> QED BY <1>1, <2>2, <2>3 DEF io_open
<1>2. ASSUME NEW h \in Handles, io_popen(h) PROVE IOInv'
  <2>1. newfile(h, "io_pclose") /\ RefsOK'
    BY <1>0, <1>2 DEF io_popen, newfile, RefsOK
  <2>2. CASE Failed(h)
    BY <2>1, <2>2, FailKeepsInv DEF Closers
  <2>3. ASSUME NEW f \in FILEs, Opened(h, f, "pipe") PROVE IOInv'
    BY <2>1, <2>3, OpenKeepsInv, CloserFacts
  <2> QED BY <1>2, <2>2, <2>3 DEF io_popen
<1>3. ASSUME NEW h \in Handles, NEW i \in Defaults, g_iofile_name(h, i) PROVE IOInv'
  <2>1. newfile(h, "io_fclose") /\ RefsOK'
    BY <1>0, <1>3 DEF g_iofile_name, newfile, RefsOK
  <2>2. CASE Failed(h)
    BY <2>1, <2>2, FailKeepsInv DEF Closers
  <2>3. ASSUME NEW f \in FILEs, Opened(h, f, "file") PROVE IOInv'
    BY <2>1, <2>3, OpenKeepsInv, CloserFacts
  <2> QED BY <1>3, <2>2, <2>3 DEF g_iofile_name
<1>4. ASSUME NEW h \in Handles, io_lines(h) PROVE IOInv'
  <2>1. newfile(h, "io_fclose") /\ RefsOK'
    <3>1. iters' \subseteq iters \cup {<<h, TRUE>>} /\ made' = made \cup {h}
      BY <1>4 DEF io_lines, newfile
    <3>2. <<h, TRUE>> \in made' \X BOOLEAN
      BY <3>1, Zenon
    <3>3. made \X BOOLEAN \subseteq made' \X BOOLEAN
      BY <3>1
    <3>4. held' \subseteq made' /\ deflt' \in [Defaults -> made']
      BY <1>0, <1>4, <3>1 DEF io_lines, RefsOK
    <3>5. iters' \subseteq made' \X BOOLEAN
      BY <1>0, <3>1, <3>2, <3>3 DEF RefsOK
    <3> QED BY <1>4, <3>4, <3>5 DEF io_lines, RefsOK
  <2>2. CASE Failed(h)
    BY <2>1, <2>2, FailKeepsInv DEF Closers
  <2>3. ASSUME NEW f \in FILEs, Opened(h, f, "file") PROVE IOInv'
    BY <2>1, <2>3, OpenKeepsInv, CloserFacts
  <2> QED BY <1>4, <2>2, <2>3 DEF io_lines
<1>5. ASSUME NEW h \in Handles, NEW i \in Defaults, g_iofile_file(h, i) PROVE IOInv'
  BY <1>0, <1>5, RefsKeepInv DEF g_iofile_file, RefsOK
<1>6. ASSUME NEW i \in Defaults, g_iofile_get(i) PROVE IOInv'
  BY <1>0, <1>6, RefsKeepInv DEF g_iofile_get, RefsOK
<1>7. ASSUME NEW h \in Handles, f_lines(h) PROVE IOInv'
  <2>1. h \in made
    BY <1>0, <1>7 DEF f_lines, RefsOK, Defaults
  <2>2. RefsOK'
    <3>1. <<h, FALSE>> \in made \X BOOLEAN
      BY <2>1, Zenon
    <3> QED BY <1>0, <1>7, <3>1 DEF f_lines, RefsOK
  <2> QED BY <1>7, <2>2, RefsKeepInv DEF f_lines
<1>8. ASSUME NEW h \in Handles, Forget(h) \/ Resurrect(h) PROVE IOInv'
  BY <1>0, <1>8, RefsKeepInv DEF Forget, Resurrect, RefsOK
<1>9. ASSUME NEW it \in iters, ForgetIter(it) PROVE IOInv'
  BY <1>0, <1>9, RefsKeepInv DEF ForgetIter, RefsOK
<1>10. CASE SeparateHandles \/ lua_close \/ UNCHANGED ioVars
  BY <1>0, <1>10, RefsKeepInv DEF SeparateHandles, lua_close, ioVars, RefsOK
<1>11. ASSUME NEW h \in Handles, io_close(h) PROVE IOInv'
  <2>1. h \in made
    BY <1>0, <1>11 DEF io_close, RefsOK, Defaults
  <2> QED BY <1>11, <2>1, CloseKeepsInv DEF io_close
<1>12. ASSUME NEW it \in iters, io_readline(it) PROVE IOInv'
  <2>1. it[1] \in made
    BY <1>0 DEF RefsOK
  <2> QED BY <1>12, <2>1, CloseKeepsInv DEF io_readline
<1>13. ASSUME NEW h \in Handles, io_gc(h) PROVE IOInv'
  <2>1. CASE fp[h] # NULL
    BY <1>13, <2>1, CloseKeepsInv DEF io_gc
  <2>2. CASE fp[h] = NULL
    BY <1>13, <2>2 DEF io_gc, IOInv, IOTypeOK, HandlesRight
  <2> QED BY <2>1, <2>2
<1>14. ASSUME NEW h \in Handles, SweepHandle(h) PROVE IOInv'
  BY <1>14, SweepKeepsInv
<1> QED
  BY <1>1, <1>2, <1>3, <1>4, <1>5, <1>6, <1>7, <1>8, <1>9, <1>10, <1>11, <1>12, <1>13, <1>14 DEF ioNext

\* Whatever the program, its iterators and the collector do, and for any
\* number of handles and FILEs, no handle of liolib.c points at a FILE that is
\* closed or another's, none is closed by the wrong function, and none is lost.
THEOREM HandlesSafe == ioSpec => []HandlesRight
<1>1. IOInv => HandlesRight
  BY DEF IOInv
<1> QED BY <1>1, IOInitInv, IONextInv, PTL DEF ioSpec

-----------------------------------------------------------------------------
(***************************************************************************)
(* require (loadlib.c).                                                    *)
(***************************************************************************)

(* What package.loaded can hold.                                           *)
EntryValues == {NilEntry, False, True, Sentinel, Value} \cup {TableOf(n) : n \in Modules}

(* Types of the state.                                                     *)
RequireType ==
  /\ loaded \in [Modules -> EntryValues] /\ globals \in [Modules -> EntryValues]
  /\ running \in Seq(Modules) /\ failed \subseteq Modules
  /\ runs \in [Modules -> Nat] /\ falses \in [Modules -> Nat]
  /\ got \in [Modules -> EntryValues]

(* No module runs inside itself.                                           *)
Once == \A i, j \in 1 .. Len(running) : running[i] = running[j] => i = j

(* The inductive invariant: a module that runs has a true entry, and a     *)
(* false entry is one no run stands behind; with it the sentinel of        *)
(* ll_require (loadlib.c:447) excludes a second run.                       *)
RequireInv ==
  /\ RequireType /\ Once
  /\ Above(0) \cap failed = {}
  /\ \A n \in Modules :
       /\ runs[n] <= 1
       /\ ~toboolean(loaded[n]) => runs[n] = 0
       /\ n \in Above(0) => toboolean(loaded[n])
       /\ loaded[n] = Sentinel => n \in Above(0) \cup failed
       /\ n \notin Above(0) \cup failed /\ got[n] # NilEntry => loaded[n] = got[n]
       /\ got[n] # Sentinel

(* The values an entry is compared with are different ones.                *)
LEMMA Distinct ==
  /\ NilEntry # False /\ NilEntry # Sentinel /\ NilEntry # Value /\ False # Sentinel
  /\ False # Value /\ Value # Sentinel /\ True # NilEntry /\ True # False /\ True # Sentinel
  /\ \A n : TableOf(n) \notin {NilEntry, False, Sentinel}
<1>1. \A n : Len(TableOf(n)) = 2
  BY DEF TableOf
<1>2. Len(NilEntry) = 1 /\ Len(False) = 1 /\ Len(Sentinel) = 1
  BY DEF NilEntry, False, Sentinel
<1>3. /\ NilEntry[1] = "nil" /\ False[1] = "false" /\ Sentinel[1] = "sentinel"
      /\ Value[1] = "value" /\ True[1] = "true"
  BY DEF NilEntry, False, Sentinel, Value, True
<1> QED BY <1>1, <1>2, <1>3

(* luaopen_package (loadlib.c:608-659) starts with nothing loaded.         *)
LEMMA InitRequireInv == RequireInit => RequireInv
<1> SUFFICES ASSUME RequireInit PROVE RequireInv
  OBVIOUS
<1>1. RequireType
  BY DEF RequireInit, RequireType, EntryValues
<1>2. Above(0) = {} /\ Once
  BY DEF RequireInit, Above, Once
<1> QED BY <1>1, <1>2, Distinct DEF RequireInit, RequireInv, toboolean

(* An error unwinds the stack of modules: what it passes has failed.       *)
LEMMA RaiseUnwinds ==
  ASSUME RequireInv, NEW d \in 0 .. Len(running), luaL_raise(d), UNCHANGED loaded
  PROVE  RequireInv'
<1>1. running \in Seq(Modules) /\ Len(running) \in Nat
  BY DEF RequireInv, RequireType
<1>2. /\ running' \in Seq(Modules) /\ Len(running') = d
      /\ \A i \in 1 .. d : running'[i] = running[i]
  <2>1. running' = SubSeq(running, 1, d)
    BY DEF luaL_raise
  <2> QED BY <1>1, <2>1
<1>3. \A i \in 1 .. d : i \in 1 .. Len(running)
  BY <1>1
<1>4. Once'
  BY <1>1, <1>2, <1>3 DEF RequireInv, Once
<1>5. /\ Above(0)' = {running[i] : i \in 1 .. d}
      /\ Above(0) = {running[i] : i \in 1 .. Len(running)}
      /\ Above(d) = {running[i] : i \in d + 1 .. Len(running)}
  BY <1>2 DEF Above
<1>6. Above(0) = Above(0)' \cup Above(d) /\ Above(0)' \cap Above(d) = {}
  <2>1. \A i \in 1 .. Len(running) : i \in 1 .. d \/ i \in d + 1 .. Len(running)
    BY <1>1
  <2>2. \A i \in 1 .. d, j \in d + 1 .. Len(running) :
          /\ i \in 1 .. Len(running) /\ j \in 1 .. Len(running) /\ i # j
    BY <1>1
  <2>3. \A i \in 1 .. d, j \in d + 1 .. Len(running) : running[i] # running[j]
    BY <2>2 DEF RequireInv, Once
  <2>4. \A j \in d + 1 .. Len(running) : j \in 1 .. Len(running)
    BY <1>1
  <2> QED BY <1>3, <1>5, <2>1, <2>3, <2>4
<1>7. Above(d) \subseteq Modules
  <2>1. \A j \in d + 1 .. Len(running) : running[j] \in Modules
    BY <1>1
  <2> QED BY <1>5, <2>1
<1>8. RequireType'
  BY <1>2, <1>7 DEF RequireInv, RequireType, luaL_raise
<1>9. failed' = failed \cup Above(d) /\ UNCHANGED <<runs, got, loaded>>
  BY DEF luaL_raise
<1> QED BY <1>4, <1>6, <1>8, <1>9 DEF RequireInv

(* ll_require marks the entry before it calls the loader                   *)
(* (loadlib.c:470-488).                                                    *)
LEMMA FoundKeeps ==
  ASSUME RequireInv, NEW n \in Modules, RequireFound(n)
  PROVE  RequireInv'
<1>1. running \in Seq(Modules) /\ Len(running) \in Nat /\ running' = Append(running, n)
  BY DEF RequireInv, RequireType, RequireFound, EnterModule
<1>2. /\ running' \in Seq(Modules) /\ Len(running') = Len(running) + 1
      /\ \A i \in 1 .. Len(running) : running'[i] = running[i]
      /\ running'[Len(running) + 1] = n
  BY <1>1
<1>3. n \notin Above(0) /\ runs[n] = 0
  BY DEF RequireInv, RequireFound
<1>4. \A i \in 1 .. Len(running') : i \in 1 .. Len(running) \/ i = Len(running) + 1
  BY <1>1, <1>2
<1>5. Above(0) = {running[i] : i \in 1 .. Len(running)}
      /\ Above(0)' = {running'[i] : i \in 1 .. Len(running')}
  BY DEF Above
<1>6. Above(0)' = Above(0) \cup {n}
  <2>1. \A i \in 1 .. Len(running) : i \in 1 .. Len(running')
    BY <1>1, <1>2
  <2>2. Len(running) + 1 \in 1 .. Len(running')
    BY <1>1, <1>2
  <2> QED BY <1>2, <1>4, <1>5, <2>1, <2>2
<1>7. Once'
  <2>1. \A i \in 1 .. Len(running) : running'[i] # n
    BY <1>2, <1>3, <1>5
  <2> QED BY <1>2, <1>4, <2>1 DEF RequireInv, Once
<1>8. /\ loaded' = [loaded EXCEPT ![n] = Sentinel] /\ runs' = [runs EXCEPT ![n] = @ + 1]
      /\ failed' = failed \ {n} /\ UNCHANGED <<globals, falses, got>>
  BY DEF RequireFound, EnterModule
<1>9. RequireType'
  BY <1>2, <1>8 DEF RequireInv, RequireType, EntryValues
<1>10. toboolean(Sentinel)
  BY Distinct DEF toboolean
<1>11. ASSUME NEW k \in Modules
       PROVE  /\ runs'[k] <= 1
              /\ ~toboolean(loaded'[k]) => runs'[k] = 0
              /\ k \in Above(0)' => toboolean(loaded'[k])
              /\ loaded'[k] = Sentinel => k \in Above(0)' \cup failed'
              /\ k \notin Above(0)' \cup failed' /\ got'[k] # NilEntry => loaded'[k] = got'[k]
              /\ got'[k] # Sentinel
  <2>1. CASE k = n
    BY <1>3, <1>6, <1>8, <1>10, <2>1 DEF RequireInv, RequireType
  <2>2. CASE k # n
    BY <1>6, <1>8, <2>2 DEF RequireInv, RequireType
  <2> QED BY <2>1, <2>2
<1>12. Above(0)' \cap failed' = {}
  BY <1>6, <1>8 DEF RequireInv
<1> QED BY <1>7, <1>9, <1>11, <1>12 DEF RequireInv

(* The end of a module leaves a true entry, unless the module answered     *)
(* false (loadlib.c:489-496).                                              *)
LEMMA DoneKeeps ==
  ASSUME RequireInv, NEW v \in {NilEntry, False, Value}, RequireDone(v)
  PROVE  RequireInv'
<1>1. running \in Seq(Modules) /\ running # <<>> /\ Len(running) \in Nat /\ Len(running) > 0
  BY DEF RequireInv, RequireType, RequireDone
<1>2. PICK n : n = Last(running)
  OBVIOUS
<1> DEFINE set == IF v # NilEntry THEN v ELSE loaded[n]
           final == IF set = Sentinel THEN True ELSE set
<1>3. n = running[Len(running)] /\ n \in Modules
  BY <1>1, <1>2 DEF Last
<1>4. /\ running' \in Seq(Modules) /\ Len(running') = Len(running) - 1
      /\ \A i \in 1 .. Len(running) - 1 : running'[i] = running[i]
  <2>0. Len(running) - 1 \in 0 .. Len(running)
    BY <1>1
  <2>1. PICK d \in 0 .. Len(running) : d = Len(running) - 1
    BY <2>0
  <2>2. running' = SubSeq(running, 1, d)
    BY <2>1 DEF RequireDone, Front
  <2>3. running' \in Seq(Modules) /\ Len(running') = d /\ \A i \in 1 .. d : running'[i] = running[i]
    BY <1>1, <2>2
  <2> QED BY <2>1, <2>3
<1>5. /\ loaded' = [loaded EXCEPT ![n] = final] /\ got' = [got EXCEPT ![n] = final]
      /\ runs' = [runs EXCEPT ![n] = IF toboolean(final) THEN @ ELSE 0]
      /\ falses' = [falses EXCEPT ![n] = IF toboolean(final) THEN @ ELSE @ + 1]
      /\ UNCHANGED <<globals, failed>>
  BY <1>2 DEF RequireDone
<1>6. final \in EntryValues /\ final # Sentinel
  <2>1. loaded[n] \in EntryValues
    BY <1>3 DEF RequireInv, RequireType
  <2> QED BY <2>1, Distinct DEF EntryValues
<1> HIDE DEF final
<1>7. RequireType'
  <2>1. loaded' \in [Modules -> EntryValues] /\ got' \in [Modules -> EntryValues]
    BY <1>3, <1>5, <1>6 DEF RequireInv, RequireType
  <2>2. runs' \in [Modules -> Nat]
    BY <1>3, <1>5 DEF RequireInv, RequireType
  <2>3. falses' \in [Modules -> Nat]
    BY <1>3, <1>5 DEF RequireInv, RequireType
  <2> QED BY <1>4, <1>5, <2>1, <2>2, <2>3 DEF RequireInv, RequireType
<1>8. \A i \in 1 .. Len(running') : i \in 1 .. Len(running) /\ i # Len(running)
  BY <1>1, <1>4
<1>9. Once'
  BY <1>4, <1>8 DEF RequireInv, Once
<1>10. /\ Above(0) = {running[i] : i \in 1 .. Len(running)}
       /\ Above(0)' = {running'[i] : i \in 1 .. Len(running')}
  BY DEF Above
<1>11. Above(0)' = Above(0) \ {n}
  <2>1. \A i \in 1 .. Len(running) : i = Len(running) \/ i \in 1 .. Len(running')
    BY <1>1, <1>4
  <2>2. Len(running) \in 1 .. Len(running)
    BY <1>1
  <2>3. \A i \in 1 .. Len(running') : running'[i] = running[i] /\ running[i] # n
    BY <1>3, <1>4, <1>8, <2>2 DEF RequireInv, Once
  <2> QED BY <1>3, <1>8, <1>10, <2>1, <2>3
<1>12. ASSUME NEW k \in Modules
       PROVE  /\ runs'[k] <= 1
              /\ ~toboolean(loaded'[k]) => runs'[k] = 0
              /\ k \in Above(0)' => toboolean(loaded'[k])
              /\ loaded'[k] = Sentinel => k \in Above(0)' \cup failed'
              /\ k \notin Above(0)' \cup failed' /\ got'[k] # NilEntry => loaded'[k] = got'[k]
              /\ got'[k] # Sentinel
  <2>1. CASE k = n
    BY <1>3, <1>5, <1>6, <1>11, <2>1 DEF RequireInv, RequireType
  <2>2. CASE k # n
    BY <1>5, <1>11, <2>2 DEF RequireInv, RequireType
  <2> QED BY <2>1, <2>2
<1> QED BY <1>5, <1>7, <1>9, <1>11, <1>12 DEF RequireInv

(* Every step of require, module and a body preserves the invariant.       *)
LEMMA NextRequireInv == RequireInv /\ [RequireNext]_requireVars => RequireInv'
<1> SUFFICES ASSUME RequireInv, [RequireNext]_requireVars PROVE RequireInv'
  OBVIOUS
<1>0. CASE UNCHANGED requireVars
  <2>1. UNCHANGED <<loaded, globals, running, runs, falses, failed, got>>
    BY <1>0 DEF requireVars
  <2>2. RequireType' /\ Once' /\ Above(0)' = Above(0)
    BY <2>1 DEF RequireInv, RequireType, Once, Above
  <2> QED BY <2>1, <2>2 DEF RequireInv
<1>1. ASSUME NEW n \in Modules, RequireLoaded(n)  PROVE RequireInv'
  <2>1. CASE loaded[n] = Sentinel
    BY <1>1, <2>1, RaiseUnwinds DEF RequireLoaded
  <2>2. CASE loaded[n] # Sentinel
    <3>1. /\ got' = [got EXCEPT ![n] = loaded[n]]
          /\ UNCHANGED <<loaded, globals, running, runs, falses, failed>>
      BY <1>1, <2>2 DEF RequireLoaded
    <3>2. RequireType' /\ Once' /\ Above(0)' = Above(0)
      BY <3>1 DEF RequireInv, RequireType, Once, Above
    <3> QED BY <2>2, <3>1, <3>2 DEF RequireInv, RequireType
  <2> QED BY <2>1, <2>2
<1>2. ASSUME NEW n \in Modules, RequireNotFound(n)  PROVE RequireInv'
  BY <1>2, RaiseUnwinds DEF RequireNotFound
<1>3. ASSUME NEW n \in Modules, RequireFound(n)  PROVE RequireInv'
  BY <1>3, FoundKeeps
<1>4. ASSUME NEW n \in Modules, ll_module(n)  PROVE RequireInv'
  <2>1. CASE loaded[n] # TableOf(n) /\ globals[n] \in {NilEntry, TableOf(n)}
    <3>1. /\ loaded' = [loaded EXCEPT ![n] = TableOf(n)]
          /\ globals' = [globals EXCEPT ![n] = TableOf(n)]
          /\ UNCHANGED <<running, runs, falses, failed, got>>
      BY <1>4, <2>1 DEF ll_module
    <3>2. RequireType' /\ Once' /\ Above(0)' = Above(0)
      <4>1. TableOf(n) \in EntryValues
        BY DEF EntryValues
      <4>2. /\ loaded' \in [Modules -> EntryValues]
            /\ globals' \in [Modules -> EntryValues]
        BY <3>1, <4>1 DEF RequireInv, RequireType
      <4>3. RequireType'
        BY <3>1, <4>2 DEF RequireInv, RequireType
      <4>4. Above(0)' = Above(0)
        BY <3>1 DEF Above
      <4>5. Once'
        BY <3>1 DEF RequireInv, Once
      <4> QED BY <4>3, <4>4, <4>5
    <3>3. toboolean(TableOf(n)) /\ TableOf(n) # Sentinel
      BY Distinct DEF toboolean
    <3>4. n \in Above(0) \/ got[n] = NilEntry \/ n \in failed
      <4>1. CASE running # << >>
        <5>1. n = running[Len(running)] /\ Len(running) \in 1 .. Len(running)
          BY <1>4, <4>1 DEF ll_module, Last, RequireInv, RequireType
        <5> QED BY <5>1 DEF Above
      <4>2. CASE running = << >>
        BY <1>4, <4>2 DEF ll_module, RequireInv
      <4> QED BY <4>1, <4>2
    <3> QED BY <3>1, <3>2, <3>3, <3>4 DEF RequireInv, RequireType
  <2>2. CASE ~(loaded[n] # TableOf(n) /\ globals[n] \in {NilEntry, TableOf(n)})
    BY <1>4, <2>2, RaiseUnwinds DEF ll_module
  <2> QED BY <2>1, <2>2
<1>5. ASSUME NEW n \in Modules, Unload(n)  PROVE RequireInv'
  <2>1. /\ loaded' = [loaded EXCEPT ![n] = NilEntry] /\ runs' = [runs EXCEPT ![n] = 0]
        /\ got' = [got EXCEPT ![n] = NilEntry] /\ failed' = failed \ {n} /\ n \notin Above(0)
        /\ UNCHANGED <<globals, running, falses>>
    BY <1>5 DEF Unload
  <2>2. RequireType' /\ Once' /\ Above(0)' = Above(0)
    BY <2>1 DEF RequireInv, RequireType, Once, Above, EntryValues
  <2> QED BY <2>1, <2>2, Distinct DEF RequireInv, RequireType
<1>6. ASSUME NEW v \in {NilEntry, False, Value}, RequireDone(v)  PROVE RequireInv'
  BY <1>6, DoneKeeps
<1>7. ASSUME Fail  PROVE RequireInv'
  <2>1. PICK d \in 0 .. Len(running) - 1 : luaL_raise(d) /\ UNCHANGED loaded
    BY <1>7 DEF Fail
  <2>2. d \in 0 .. Len(running)
    BY DEF RequireInv, RequireType
  <2> QED BY <2>1, <2>2, RaiseUnwinds
<1>8. ASSUME SetOwn  PROVE RequireInv'
  <2>1. PICK n : n = Last(running)
    OBVIOUS
  <2>2. n \in Modules /\ n \in Above(0)
    <3>1. n = running[Len(running)] /\ Len(running) \in 1 .. Len(running) /\ running \in Seq(Modules)
      BY <1>8, <2>1 DEF SetOwn, Last, RequireInv, RequireType
    <3> QED BY <3>1 DEF Above
  <2>3. loaded' = [loaded EXCEPT ![n] = Value] /\ UNCHANGED <<globals, running, runs, falses, failed, got>>
    BY <1>8, <2>1 DEF SetOwn
  <2>4. RequireType' /\ Once' /\ Above(0)' = Above(0)
    <3>1. Value \in EntryValues
      BY DEF EntryValues
    <3>2. loaded' \in [Modules -> EntryValues]
      BY <2>3, <3>1 DEF RequireInv, RequireType
    <3>3. RequireType'
      BY <2>3, <3>2 DEF RequireInv, RequireType
    <3>4. Above(0)' = Above(0)
      BY <2>3 DEF Above
    <3>5. Once'
      BY <2>3 DEF RequireInv, Once
    <3> QED BY <3>3, <3>4, <3>5
  <2>5. toboolean(Value) /\ Value # Sentinel
    BY Distinct DEF toboolean
  <2> QED BY <2>2, <2>3, <2>4, <2>5 DEF RequireInv, RequireType
<1> QED BY <1>0, <1>1, <1>2, <1>3, <1>4, <1>5, <1>6, <1>7, <1>8 DEF RequireNext

(* A module runs once and its sentinel is never an answer, for any set of  *)
(* modules that require one another in any way, and errors caught anywhere *)
(* (ll_require, loadlib.c:451-498).                                        *)
THEOREM ModulesRunOnce == RequireSpec => []RequireRight
<1>1. RequireInv => RequireRight
  <2> SUFFICES ASSUME RequireInv PROVE RequireRight
    OBVIOUS
  <2>1. DOMAIN running = 1 .. Len(running)
    BY DEF RequireInv, RequireType
  <2> QED BY <2>1 DEF RequireInv, Once, RequireRight
<1> QED BY <1>1, InitRequireInv, NextRequireInv, PTL DEF RequireSpec
=============================================================================
