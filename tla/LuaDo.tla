------------------------------- MODULE LuaDo -------------------------------
(***************************************************************************)
(* Calls, errors and coroutines of the Lua library: ldo.c, the call half   *)
(* of lapi.c, and pcall, xpcall and the coroutine functions of lbaselib.c. *)
(*                                                                         *)
(* th[t] is a lua_State: ci the depth of its CallInfo array above base_ci, *)
(* with TRUE for a C function; openup the levels of ci whose frame has an  *)
(* open upvalue; vals what lies on its stack below any frame (0 nothing, 1 *)
(* the function to run, 2 results that nobody took).  `done' is history:   *)
(* the body function returned or failed.                                   *)
(*                                                                         *)
(* cs is the C stack, which all threads share: the activations of          *)
(* luaD_call (with the luaV_execute or the C function it runs), luaD_pcall *)
(* and lua_resume.  An error is a longjmp to one of them.  What a function *)
(* does is up to the program, so the code on top of cs may take any step   *)
(* that Lua code or a C function can take.                                 *)
(***************************************************************************)
EXTENDS Integers, Sequences, FiniteSets, SequencesExt

CONSTANTS Main,             \* the thread of lua_newstate
          Coroutines,       \* the threads coroutine.create may make
          BASIC_CI_SIZE,
          LUAI_MAXCALLS,
          LUAI_MAXCCALLS,
          CCallsReserve,    \* LUAI_MAXCCALLS>>3, kept for error handlers
          MaxFrames,        \* bound: the program calls no deeper than this
          MaxOpen           \* bound on the open upvalues

VARIABLES th, cs, exited, sound

doVars == <<th, cs, exited, sound>>

Threads == {Main} \cup Coroutines

(***************************************************************************)
(* A machine m is the record of the four variables.                        *)
(***************************************************************************)
Machine == [th |-> th, cs |-> cs, exited |-> exited, sound |-> sound]

Become(m) ==
  /\ th' = m.th
  /\ cs' = m.cs
  /\ exited' = m.exited
  /\ sound' = m.sound

Running(m) == Last(m.cs).t

State(m) == m.th[Running(m)]

Push(m, entry) == [m EXCEPT !.cs = Append(@, entry)]

Pop(m) == [m EXCEPT !.cs = Front(@)]

(***************************************************************************)
(* lstate.c: a new thread.                                                 *)
(***************************************************************************)
preinit_state ==
  [exists |-> TRUE, status |-> "ok", ci |-> << >>, size_ci |-> BASIC_CI_SIZE,
   nCcalls |-> 0, baseCcalls |-> 0, errfunc |-> FALSE, openup |-> {},
   vals |-> 0, done |-> FALSE]

luaE_newthread(m, t) == [m EXCEPT !.th[t] = preinit_state]

(***************************************************************************)
(* luaF_close: no upvalue of a frame at or above `level' stays open.       *)
(***************************************************************************)
luaF_close(s, level) == [s EXCEPT !.openup = {l \in @ : l < level}]

restore_stack_limit(s) ==
  IF s.size_ci > LUAI_MAXCALLS /\ Len(s.ci) + 1 < LUAI_MAXCALLS
  THEN [s EXCEPT !.size_ci = LUAI_MAXCALLS]
  ELSE s

(***************************************************************************)
(* What luaD_pcall does when the protected call fails: e is its activation *)
(* with the values it saved.                                               *)
(***************************************************************************)
\* Mutant of Unwind: the depth of C calls is not restored.
BugUnwind(s, e) ==
  restore_stack_limit([luaF_close(s, e.old_ci + 1) EXCEPT !.ci = SubSeq(@, 1, e.old_ci),
                                                          !.errfunc = e.old_errfunc])

Unwind(s, e) ==
  restore_stack_limit(
    [luaF_close(s, e.old_ci + 1) EXCEPT !.ci = SubSeq(@, 1, e.old_ci),
                                        !.nCcalls = e.oldnCcalls,
                                        !.errfunc = e.old_errfunc])

(***************************************************************************)
(* What lua_resume does when the coroutine fails.  Its frames stay for a   *)
(* traceback; no call reads them again, and they are dropped here.         *)
(***************************************************************************)
Kill == [preinit_state EXCEPT !.status = "error", !.done = TRUE]

(***************************************************************************)
(* L->errorJmp: the places on the C stack of the protected calls of the    *)
(* running thread.                                                         *)
(***************************************************************************)
Handlers(m) ==
  {i \in DOMAIN m.cs : m.cs[i].t = Running(m) /\ m.cs[i].k \in {"pcall", "resume"}}

(***************************************************************************)
(* Without one of them the process ends.  errcode only selects the message *)
(* (luaD_seterrorobj).                                                     *)
(***************************************************************************)
NoThreads == [t \in Threads |-> [preinit_state EXCEPT !.exists = FALSE]]

luaD_throw(m) ==
  IF Handlers(m) = {}
  THEN [th |-> NoThreads, cs |-> << >>, exited |-> TRUE, sound |-> m.sound]
  ELSE LET i == Max(Handlers(m))
           e == m.cs[i]
       IN  [m EXCEPT !.cs = SubSeq(@, 1, i - 1),
                     !.th[e.t] = IF e.k = "pcall" THEN Unwind(@, e) ELSE Kill]

(***************************************************************************)
(* luaD_precall once the frame is entered: `after' tells who called:       *)
(* luaV_execute ("op"), luaD_call ("call", or "handler" for the error      *)
(* function), or resume.  A Lua function called by luaV_execute runs in    *)
(* the same luaV_execute; any other call has an activation of its own,     *)
(* which replaces the luaD_call that was "calling".                        *)
(***************************************************************************)
Enter(m, c, after) ==
  LET t == Running(m)
      n == [m EXCEPT !.th[t].ci = Append(@, c)]
      f == [k |-> IF c THEN "cfun" ELSE "execute", t |-> t, n |-> 1, after |-> after]
  IN  IF after = "op" /\ ~c THEN [n EXCEPT !.cs[Len(n.cs)].n = @ + 1]
      ELSE IF after \in {"op", "resume"} THEN Push(n, f)
      ELSE [n EXCEPT !.cs[Len(n.cs)] = f]

RECURSIVE luaG_errormsg(_)

Calling(t, after) == [k |-> "calling", t |-> t, n |-> 0, after |-> after]

growCI(m, c, after) ==
  LET t == Running(m)
      grown == [m EXCEPT !.th[t].size_ci = 2 * @]
  IN  IF State(m).size_ci > LUAI_MAXCALLS THEN luaD_throw(m)
      ELSE IF State(grown).size_ci > LUAI_MAXCALLS THEN luaG_errormsg(grown)
      ELSE Enter(grown, c, after)

luaD_precall(m, c, after) ==
  IF Len(State(m).ci) = State(m).size_ci - 1
  THEN growCI(m, c, after)
  ELSE Enter(m, c, after)

luaD_call(m, c, after) ==
  LET t == Running(m)
      n == Push([m EXCEPT !.th[t].nCcalls = @ + 1], Calling(t, after))
      nCcalls == State(n).nCcalls
  IN  IF nCcalls = LUAI_MAXCCALLS THEN luaG_errormsg(n)
      ELSE IF nCcalls >= LUAI_MAXCCALLS + CCallsReserve THEN luaD_throw(n)
      ELSE luaD_precall(n, c, after)

(***************************************************************************)
(* Every run-time error comes here, with its message on the stack.  The    *)
(* error function is a Lua function or a C function such as                *)
(* debug.traceback; as both take the same steps it is a Lua function here. *)
(***************************************************************************)
luaG_errormsg(m) ==
  IF State(m).errfunc THEN luaD_call(m, FALSE, "handler") ELSE luaD_throw(m)

(***************************************************************************)
(* The return of luaD_call, into luaD_pcall where that is the caller; the  *)
(* error function returns into luaG_errormsg, which throws.                *)
(***************************************************************************)
EndProtected(m) ==
  [Pop(m) EXCEPT !.th[Running(m)].errfunc = Last(m.cs).old_errfunc]

EndCall(m) ==
  LET t == Running(m)
      n == [Pop(m) EXCEPT !.th[t].nCcalls = @ - 1]
  IN  IF Last(m.cs).after = "handler" THEN luaD_throw(n)
      ELSE IF Last(n.cs).k = "pcall" THEN EndProtected(n)
      ELSE n

luaD_poscall(m) ==
  LET t == Running(m) IN
  [m EXCEPT !.th[t] = [luaF_close(@, Len(@.ci)) EXCEPT !.ci = Front(@)]]

(***************************************************************************)
(* luaD_pcall: f is the function to call, ef whether there is an error     *)
(* function.                                                               *)
(***************************************************************************)
luaD_pcall(m, c, ef) ==
  LET s == State(m)
      e == [k |-> "pcall", t |-> Running(m), old_ci |-> Len(s.ci),
            oldnCcalls |-> s.nCcalls, old_errfunc |-> s.errfunc]
  IN  luaD_call(Push([m EXCEPT !.th[Running(m)].errfunc = ef], e), c, "call")

(***************************************************************************)
(* Coroutines.                                                             *)
(***************************************************************************)
costatus(m, L, co) ==
  LET s == m.th[co] IN
  IF L = co THEN "running"
  ELSE IF s.status = "yield" THEN "suspended"
  ELSE IF s.status = "error" THEN "dead"
  ELSE IF s.ci # << >> THEN "normal"
  ELSE IF s.vals = 0 THEN "dead"
  ELSE "suspended"

(***************************************************************************)
(* lua_resume as the coroutine comes back, the protected call over: to the *)
(* C function that resumed it, which is left on top of the C stack.  The   *)
(* assertions of lua_resume and what the jump discards (`lost') go to      *)
(* `sound'.  nCcalls and baseCcalls of a coroutine off the C stack are     *)
(* dead: auxresume and lua_resume write both before anything reads them,   *)
(* so they are 0 here instead of what the last resume left.                *)
(***************************************************************************)
EndResume(m, i, lost) ==
  LET co == m.cs[i].t IN
  [m EXCEPT !.cs = SubSeq(@, 1, i - 1),
            !.th[co].nCcalls = 0,
            !.th[co].baseCcalls = 0,
            !.sound = /\ @
                      /\ m.th[co].nCcalls = m.th[co].baseCcalls
                      /\ [j \in 1..(Len(m.cs) - i) |-> m.cs[i + j].k] = lost]

(***************************************************************************)
(* auxresume with the results: luaL_error if they do not fit.              *)
(***************************************************************************)
TakeResults(m, co, fit, left) ==
  IF fit THEN [m EXCEPT !.th[co].vals = 0]
  ELSE luaG_errormsg([m EXCEPT !.th[co].vals = left])

\* Mutant of resume: the coroutine keeps the status of its yield.
Bugresume(m, co, callable) ==
  LET s == m.th[co]
      taken == IF s.vals = 2 THEN 2 ELSE 0
      back == luaD_poscall(m)
  IN  IF s.status = "yield"
      THEN Push(back, [k |-> "execute", t |-> co, n |-> Len(back.th[co].ci),
                       after |-> "resume"])
      ELSE IF callable THEN luaD_precall([m EXCEPT !.th[co].vals = taken], FALSE, "resume")
      ELSE luaG_errormsg(m)

(***************************************************************************)
(* resume: start the function, or complete the call of yield; callable is  *)
(* whether the value taken for the function is one.                        *)
(***************************************************************************)
resume(m, co, callable) ==
  LET s == m.th[co]
      taken == IF s.vals = 2 THEN 2 ELSE 0
      back == luaD_poscall([m EXCEPT !.th[co].status = "ok"])
  IN  IF s.status = "yield"
      THEN Push(back, [k |-> "execute", t |-> co, n |-> Len(back.th[co].ci),
                       after |-> "resume"])
      ELSE IF callable THEN luaD_precall([m EXCEPT !.th[co].vals = taken], FALSE, "resume")
      ELSE luaG_errormsg(m)

resume_error(m, co) ==
  [m EXCEPT !.th[co].vals = IF m.th[co].status = "yield" THEN @ ELSE 0]

lua_resume(m, co, callable) ==
  LET s == m.th[co]
      n == [m EXCEPT !.th[co].nCcalls = @ + 1, !.th[co].baseCcalls = s.nCcalls + 1,
                     !.sound = @ /\ ~s.errfunc]
  IN  IF s.status # "yield" /\ (s.status # "ok" \/ s.ci # << >>) THEN resume_error(m, co)
      ELSE IF s.nCcalls >= LUAI_MAXCCALLS THEN resume_error(m, co)
      ELSE resume(Push(n, [k |-> "resume", t |-> co]), co, callable)

lua_setlevel(m, from, to) == [m EXCEPT !.th[to].nCcalls = m.th[from].nCcalls]

(***************************************************************************)
(* What the code on top of the C stack may do.                             *)
(***************************************************************************)
InC == ~exited /\ Last(cs).k \in {"cfun", "host"}
InLua == ~exited /\ Last(cs).k = "execute"

MayCall == SumFunction([t \in Threads |-> Len(th[t].ci)]) < MaxFrames

OP_CALL(c) == InLua /\ MayCall /\ Become(luaD_precall(Machine, c, "op"))

callTMres(c) == InLua /\ MayCall /\ Become(luaD_call(Machine, c, "call"))

OP_CLOSURE ==
  /\ InLua
  /\ SumFunction([t \in Threads |-> Cardinality(th[t].openup)]) < MaxOpen
  /\ Become([Machine EXCEPT !.th[Last(cs).t].openup = @ \cup {Len(State(Machine).ci)}])

OP_RETURN(fit) ==
  LET m == luaD_poscall(Machine)
      t == Last(cs).t
  IN  /\ InLua
      /\ fit \/ (Last(cs).n = 1 /\ Last(cs).after = "resume")
      /\ IF Last(cs).n > 1
         THEN Become([m EXCEPT !.cs[Len(cs)].n = @ - 1])
         ELSE IF Last(cs).after # "resume"
         THEN Become(EndCall(m))
         ELSE Become(TakeResults(EndResume([m EXCEPT !.th[t].done = TRUE], Len(cs) - 1,
                                           <<"execute">>), t, fit, 2))

luaG_runerror == InLua /\ Become(luaG_errormsg(Machine))

lua_error == InC /\ Become(luaG_errormsg(Machine))

lua_call(c) == InC /\ MayCall /\ Become(luaD_call(Machine, c, "call"))

lua_pcall(c, ef) == InC /\ MayCall /\ Become(luaD_pcall(Machine, c, ef))

CReturn ==
  /\ InC
  /\ Last(cs).k = "cfun"
  /\ LET m == luaD_poscall(Machine)
     IN  Become(IF Last(cs).after = "op" THEN Pop(m) ELSE EndCall(m))

luaB_cocreate(co) ==
  /\ InC
  /\ ~th[co].exists
  /\ Become([luaE_newthread(Machine, co) EXCEPT !.th[co].vals = 1])

auxresume(co, callable) ==
  LET L == Last(cs).t IN
  /\ InC
  /\ MayCall
  /\ th[co].exists
  /\ costatus(Machine, L, co) = "suspended"
  /\ callable \/ (th[co].status = "ok" /\ th[co].vals = 2)
  /\ Become(lua_resume(lua_setlevel(Machine, L, co), co, callable))

\* Mutant of AcrossCall: any code of a coroutine may yield.
BugAcrossCall(s) == s.baseCcalls = 0

AcrossCall(s) == s.nCcalls > s.baseCcalls

lua_yield(fit) ==
  LET t == Last(cs).t
      at == Max(Handlers(Machine))
      left == th[t].vals
      m == EndResume([Machine EXCEPT !.th[t].status = "yield"], at, <<"execute", "cfun">>)
      taken == TakeResults(m, t, fit, left)
  IN  /\ InC
      /\ Last(cs).k = "cfun"
      /\ IF AcrossCall(th[t])
         THEN fit /\ Become(luaG_errormsg(Machine))
         ELSE Become([taken EXCEPT !.th[t].vals = left])

(***************************************************************************)
(* An allocation fails: no error function is called.                       *)
(***************************************************************************)
luaM_realloc_ == (InC \/ InLua) /\ Become(luaD_throw(Machine))

DoInit ==
  /\ th = [NoThreads EXCEPT ![Main] = preinit_state]
  /\ cs = <<[k |-> "host", t |-> Main]>>
  /\ exited = FALSE
  /\ sound = TRUE

DoNext ==
  \/ \E c \in BOOLEAN : OP_CALL(c) \/ callTMres(c) \/ lua_call(c)
  \/ OP_CLOSURE
  \/ \E fit \in BOOLEAN : OP_RETURN(fit) \/ lua_yield(fit)
  \/ luaG_runerror
  \/ lua_error
  \/ \E c, ef \in BOOLEAN : lua_pcall(c, ef)
  \/ CReturn
  \/ \E co \in Coroutines : luaB_cocreate(co)
  \/ \E co \in Coroutines, callable \in BOOLEAN : auxresume(co, callable)
  \/ luaM_realloc_
-----------------------------------------------------------------------------
OnCStack(t) == \E i \in DOMAIN cs : cs[i].t = t

Counted(e) ==
  \/ e.k \in {"calling", "resume"}
  \/ e.k \in {"execute", "cfun"} /\ e.after \in {"call", "handler"}

CallsUpTo(i) == Cardinality({j \in 1..i : Counted(cs[j])})

(***************************************************************************)
(* nCcalls, which luaD_call and lua_resume raise, luaD_pcall restores and  *)
(* lua_setlevel hands from thread to thread (ldo.c:371-469, lapi.c:126),   *)
(* is at any time the number of C-level calls really on the C stack below  *)
(* the thread, whatever errors, yields and resumes went before; and that   *)
(* never exceeds LUAI_MAXCCALLS and the reserve for error handling, not    *)
(* even through chains of errors in error functions (ldo.c:371-376, 423).  *)
(***************************************************************************)
CCallsExact ==
  /\ \A i \in DOMAIN cs :
       (i = Len(cs) \/ cs[i + 1].t # cs[i].t) => th[cs[i].t].nCcalls = CallsUpTo(i)
  /\ CallsUpTo(Len(cs)) <= LUAI_MAXCCALLS + CCallsReserve

FramesOf(e) == IF e.k = "execute" THEN e.n ELSE IF e.k = "cfun" THEN 1 ELSE 0

(***************************************************************************)
(* The CallInfo frames of a thread that is on the C stack are those of the *)
(* functions really active there: no error, yield or resume leaves a frame *)
(* behind or drops a live one (ldo.c:399-405, 470), and they are within    *)
(* the array (ldo.c:169-178).  Unwinding closes the upvalues of the frames *)
(* it discards: an open upvalue belongs to a Lua frame (ldo.c:467).  A     *)
(* yield abandons nothing: between it and lua_resume lie just the          *)
(* luaV_execute and the C function it called, as the test of nCcalls in    *)
(* lua_yield promises (ldo.c:447), and the assertions of lua_resume hold   *)
(* (ldo.c:426, 435).                                                       *)
(***************************************************************************)
StacksInStep ==
  /\ \A t \in {u \in Threads : OnCStack(u) /\ th[u].status = "ok"} :
       /\ Len(th[t].ci) =
            FoldLeft(LAMBDA n, e : n + (IF e.t = t THEN FramesOf(e) ELSE 0), 0, cs)
       /\ Len(th[t].ci) < th[t].size_ci
  /\ \A t \in Threads : th[t].status \in {"ok", "yield"} =>
       \A l \in th[t].openup : l \in DOMAIN th[t].ci /\ ~th[t].ci[l]
  /\ sound

(***************************************************************************)
(* A coroutine is not entered again while it waits for one it has resumed: *)
(* auxresume relies on coroutine.status (lbaselib.c:519), which guesses    *)
(* from the frames and the values on its stack that it is `normal'         *)
(* (lbaselib.c:490-507), once resume has taken back the status of its last *)
(* yield (ldo.c:394).                                                      *)
(***************************************************************************)
NotReentered ==
  \A i, j \in DOMAIN cs :
    cs[i].k = "resume" /\ cs[j].k = "resume" /\ cs[i].t = cs[j].t => i = j

(***************************************************************************)
(* coroutine.status is "dead" if the coroutine has finished its body       *)
(* function, or if it has stopped with an error (doc/manual.html:6274,     *)
(* lbaselib.c:490-507).                                                    *)
(***************************************************************************)
StatusRight ==
  ~exited => \A co \in Coroutines :
    th[co].exists /\ th[co].done => costatus(Machine, Last(cs).t, co) = "dead"
=============================================================================
