------------------------------- MODULE LuaIO --------------------------------
(***************************************************************************)
(* File handles of the io library, liolib.c: who owns a FILE of the C      *)
(* library, and who closes it, when the program, an iterator of io.lines,  *)
(* a default file and the collector may all reach the handle.              *)
(*                                                                         *)
(* A handle is a userdata with a FILE pointer and the environment of the   *)
(* function that made it, whose __close says how to close.  The addresses  *)
(* of handles and FILEs are used again once free.  Reading and writing     *)
(* leave this state alone (LuaAux has the reads); what they need is that   *)
(* the pointer they get from tofile is an open FILE.                       *)
(***************************************************************************)

CONSTANTS Handles, FILEs,       \* addresses of handles and of FILEs
          Std,                  \* io.stdin, ...: each a handle on the FILE of its name
          STDIN, STDOUT,
          NULL

ASSUME StdAssumption == Std \subseteq Handles \cap FILEs /\ STDIN \in Std /\ STDOUT \in Std
ASSUME NullAssumption == NULL \notin FILEs

Closers == {"io_fclose", "io_pclose", "io_noclose"}
Kinds == {"file", "pipe", "standard"}
Defaults == {"input", "output"}

\* What opens a kind of FILE, and the function that closes it.
Closer == [k \in Kinds |-> IF k = "file" THEN "io_fclose" ELSE IF k = "pipe" THEN "io_pclose" ELSE "io_noclose"]

VARIABLES made,                 \* handles that exist
          fp,                   \* the FILE * in a handle
          env,                  \* its __close
          finalized,            \* handles whose __gc has been called
          open,                 \* FILEs that are open
          kind,                 \* how each was opened
          deflt,                \* the default input and output
          held,                 \* handles the program has in variables
          iters,                \* <<h, toclose>>: iterators it has
          ending,               \* lua_close has been called
          separated             \* handles whose finalizers are still to be called

ioVars == <<made, fp, env, finalized, open, kind, deflt, held, iters, ending, separated>>

luaopen_io ==
  /\ made = Std /\ held = Std /\ open = Std
  /\ fp = [h \in Handles |-> IF h \in Std THEN h ELSE NULL]
  /\ env = [h \in Handles |-> IF h \in Std THEN "io_noclose" ELSE "io_fclose"]
  /\ kind = [f \in FILEs |-> IF f \in Std THEN "standard" ELSE "file"]
  /\ deflt = [i \in Defaults |-> IF i = "input" THEN STDIN ELSE STDOUT]
  /\ finalized = {} /\ iters = {} /\ ending = FALSE /\ separated = {}

Referred(h) ==
  h \in held \/ (\E i \in Defaults : deflt[i] = h) \/ (\E b \in BOOLEAN : <<h, b>> \in iters)

\* newfile makes the handle, closed, before the FILE is opened.
newfile(h, close) ==
  /\ h \notin made
  /\ made' = made \cup {h}
  /\ env' = [env EXCEPT ![h] = close]
  /\ UNCHANGED finalized

\* fopen, popen and tmpfile open FILE f, or fail and leave the handle closed.
Opened(h, f, k) ==
  /\ f \in FILEs \ open
  /\ fp' = [fp EXCEPT ![h] = f] /\ open' = open \cup {f} /\ kind' = [kind EXCEPT ![f] = k]

Failed(h) == fp' = [fp EXCEPT ![h] = NULL] /\ UNCHANGED <<open, kind>>

\* io.open, and io.tmpfile.
io_open(h) ==
  /\ newfile(h, "io_fclose")
  /\ \/ Failed(h) /\ held' = held
     \/ (\E f \in FILEs : Opened(h, f, "file")) /\ held' = held \cup {h}
  /\ UNCHANGED <<deflt, iters, ending, separated>>

io_popen(h) ==
  /\ newfile(h, "io_pclose")
  /\ \/ Failed(h) /\ held' = held
     \/ (\E f \in FILEs : Opened(h, f, "pipe")) /\ held' = held \cup {h}
  /\ UNCHANGED <<deflt, iters, ending, separated>>

\* io.input(name) and io.output(name); fileerror raises when fopen fails.
g_iofile_name(h, i) ==
  /\ newfile(h, "io_fclose")
  /\ \/ Failed(h) /\ UNCHANGED deflt
     \/ (\E f \in FILEs : Opened(h, f, "file")) /\ deflt' = [deflt EXCEPT ![i] = h]
  /\ UNCHANGED <<held, iters, ending, separated>>

\* io.input(file): tofile refuses a closed one.
g_iofile_file(h, i) ==
  /\ h \in held /\ fp[h] # NULL
  /\ deflt' = [deflt EXCEPT ![i] = h]
  /\ UNCHANGED <<made, fp, env, finalized, open, kind, held, iters, ending, separated>>

\* io.input(): the program gets hold of the default file.
g_iofile_get(i) ==
  /\ held' = held \cup {deflt[i]}
  /\ UNCHANGED <<made, fp, env, finalized, open, kind, deflt, iters, ending, separated>>

\* Mutant of CloseFile: the pointer stays in the handle.
BugCloseFile(h) == open' = open \ {fp[h]} /\ UNCHANGED fp

\* io_fclose and io_pclose: whatever the C function answers, the FILE is gone.
CloseFile(h) == open' = open \ {fp[h]} /\ fp' = [fp EXCEPT ![h] = NULL]

aux_close(h) == IF env[h] = "io_noclose" THEN UNCHANGED <<fp, open>> ELSE CloseFile(h)

\* file:close(), io.close(file), io.close().
io_close(h) ==
  /\ h \in held \cup {deflt["output"]} /\ fp[h] # NULL
  /\ aux_close(h)
  /\ UNCHANGED <<made, env, finalized, kind, deflt, held, iters, ending, separated>>

\* io.lines(name): nobody but the iterator has the handle.
io_lines(h) ==
  /\ newfile(h, "io_fclose")
  /\ \/ Failed(h) /\ UNCHANGED iters
     \/ (\E f \in FILEs : Opened(h, f, "file")) /\ iters' = iters \cup {<<h, TRUE>>}
  /\ UNCHANGED <<deflt, held, ending, separated>>

\* file:lines() and io.lines().
f_lines(h) ==
  /\ h \in held \cup {deflt["input"]} /\ fp[h] # NULL
  /\ iters' = iters \cup {<<h, FALSE>>}
  /\ UNCHANGED <<made, fp, env, finalized, open, kind, deflt, held, ending, separated>>

\* A call of an iterator that finds the end of the file.
io_readline(it) ==
  /\ it \in iters /\ fp[it[1]] # NULL /\ it[2]
  /\ aux_close(it[1])
  /\ UNCHANGED <<made, env, finalized, kind, deflt, held, iters, ending, separated>>

\* The finalizer, called for the handles luaC_separateudata has found.
io_gc(h) ==
  /\ h \in made \ finalized /\ h \in separated
  /\ finalized' = finalized \cup {h}
  /\ IF fp[h] # NULL THEN aux_close(h) ELSE UNCHANGED <<fp, open>>
  /\ separated' = separated \ {h}
  /\ UNCHANGED <<made, env, kind, deflt, held, iters, ending>>

(* ------------------------ the program, the collector -------------------- *)
Forget(h) ==
  /\ h \in held /\ held' = held \ {h}
  /\ UNCHANGED <<made, fp, env, finalized, open, kind, deflt, iters, ending, separated>>

ForgetIter(it) ==
  /\ it \in iters /\ iters' = iters \ {it}
  /\ UNCHANGED <<made, fp, env, finalized, open, kind, deflt, held, ending, separated>>

\* luaC_separateudata, after the mark phase: what nothing refers to is to be finalized.
SeparateHandles ==
  /\ separated' = separated \cup {h \in made \ finalized : ~Referred(h)}
  /\ UNCHANGED <<made, fp, env, finalized, open, kind, deflt, held, iters, ending>>

\* Another finalizer, called before or after, still has the handle.
Resurrect(h) ==
  /\ h \in separated \cup finalized /\ h \in made /\ held' = held \cup {h}
  /\ UNCHANGED <<made, fp, env, finalized, open, kind, deflt, iters, ending, separated>>

\* The sweep of a later cycle.
SweepHandle(h) ==
  /\ h \in made \cap finalized /\ ~Referred(h)
  /\ made' = made \ {h} /\ finalized' = finalized \ {h}
  /\ UNCHANGED <<fp, env, open, kind, deflt, held, iters, ending, separated>>

\* All handles are separated, whatever refers to them.
lua_close ==
  /\ ~ending /\ ending' = TRUE
  /\ separated' = made \ finalized
  /\ UNCHANGED <<made, fp, env, finalized, open, kind, deflt, held, iters>>

ioNext ==
  \/ \E h \in Handles : \/ io_open(h) \/ io_popen(h) \/ io_close(h) \/ io_lines(h) \/ f_lines(h) \/ io_gc(h)
                        \/ Forget(h) \/ Resurrect(h) \/ SweepHandle(h)
                        \/ \E i \in Defaults : g_iofile_name(h, i) \/ g_iofile_file(h, i)
  \/ \E i \in Defaults : g_iofile_get(i)
  \/ \E it \in iters : io_readline(it) \/ ForgetIter(it)
  \/ SeparateHandles \/ lua_close

ioSpec == luaopen_io /\ [][ioNext]_ioVars

(* ---------------------------- properties -------------------------------- *)
\* Every FILE has one owner: a handle whose pointer is not NULL points at an
\* open FILE, to be closed by the function that suits how it was opened, and no
\* other handle points there, so tofile never gives out, and aux_close never
\* closes, a FILE that is closed or opened again by another (liolib.c:72-148);
\* a FILE that is open is in some handle, so that it can still be closed; and the
\* standard files stay open.
HandlesRight ==
  /\ \A h \in made : fp[h] # NULL => fp[h] \in open /\ env[h] = Closer[kind[fp[h]]]
  /\ \A h \in made, g \in made : fp[h] # NULL /\ fp[h] = fp[g] => h = g
  /\ \A f \in open \ Std : \E h \in made : fp[h] = f
  /\ Std \subseteq open
=============================================================================
