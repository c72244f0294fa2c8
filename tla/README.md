# Formal models of Axon

TLA+ models of the Axon server engine: its core library (`src/src/core`), the
protocol messages (`src/src/proto`), the multi-threaded client gateway
(`src/src/cgate_mt`), and the Lua 5.1 interpreter kept in the tree
(`src/depends/lua/src`). `src/README:25-28` counts Lua as part of the engine; it has
a Makefile of its own, and no program of Axon links it yet. TLC checks the models on small instances, TLAPS proves
the central results for every value of the constants. `PROJECT.json` is the
machine-readable index: components, runs, mutants, the map from definitions to
source lines, findings, hazards and theorems. Paths of Axon below are relative
to `src/src/`, those of Lua to `src/depends/lua/src/`.

## The system

The gateway is one process with a main thread and up to 32 worker threads.

| part | source | role |
|---|---|---|
| `MemPool` | `core/mem_pool.cc` | fixed-size nodes; the free list is threaded through them; `malloc` when full |
| `ConnectContainer`, `Connect` | `core/connect.cc` | preallocated connection objects: a stack of free ones, a list of used ones |
| `FdPollerBase`, `EpollPoller` | `core/fd_poller.cc`, `core/epoll.cc` | event loop of a thread; retired and pending descriptors are applied at the end of a round |
| `EvTimer` | `core/ax_timer.cc` | hierarchical timing wheel, driven by the poller |
| `tpipe_t` | `core/ax_tpipe.cc`, `core/ax_proto_msg.h` | framed messages between two threads over a socket pair |
| `buffer_t`, `queue_t`, `hmap_t`, `string_t` | `core/ax_*.cc`, `core/ax_hashmap.h` | byte buffer, chunked queue, hash map, string |
| protocol messages | `proto/*.cc`, `core/ax_proto_msg.cc` | generated pack and unpack |
| `ClientMgr` | `cgate_mt/client_mgr.cc`, `main.cc` | main thread: starts workers, listens, accepts, hands sockets over |
| `ConnectWorker` | `cgate_mt/connect_worker.cc` | worker thread: owns connections, echoes data, reports closes |
| Lua | `depends/lua/src` | lexer, compiler, virtual machine, collector, tables, calls and coroutines, libraries |
| configuration, support | `core/node_*.cc`, `ax_thread`, `ax_debug`, `os_misc`, `utest`, `kqueue` | JSON configuration, pthread wrappers, logs, tests, the BSD poller |

Each thread owns its poller; a worker owns its container too. Threads share
nothing but the pipes and the process-wide descriptor numbers. That is where
the hard cases of the gateway are: a message is delivered while its subject
changes, and a handler changes the entry of a descriptor whose event is already
queued. Those of the core library are long sequences of calls that shift, grow
and relink memory. Those of Lua are a collector that runs between any two steps
of the program, errors and coroutines that leave C frames behind, and a one-pass
compiler that patches code it has already written.

## Modules of Axon

| module | models | state and actions |
|---|---|---|
| `MemPool` | `MemPool` | link word of each node, owners; `AllocNode`, `AllocMalloc`, `FreeNode`, `FreeMalloc`, and `UserWrite`, an owner overwriting its node |
| `ContainerOps`, `ConnectContainer` | `ConnectContainer` | a container record; `alloc_connect` and `free_connect` as operators, `Alloc` and `Free` as actions |
| `PollerOps`, `FdPoller` | poller | a poller record (`entry_`, `pending_new_`, `retired_`, the kernel's interest list); one action per public call, for every descriptor of `Descriptors` and reactor of `Owners`, `PollWait`, `Dispatch` per event, `EndRound` for the rest of `process()` |
| `Timer`, `Deadlines` | `EvTimer`, and what it promises | wheels of slots with the current digits; `AddTimer`, `DelTimer`, `Routine` for a due tick with its cascade, `CallBack` per entry, in which timers are added and deleted, `EndTick`, and `UseFreed` when a callback has deleted the entry needed next |
| `Delivery` | abstract | what a pipe promises: at least once, in order of first delivery |
| `MailboxOps`, `Mailbox` | `tpipe_t` by message | `write` appends to the log and sends all of it; `read` takes some messages |
| `TPipe` | `tpipe_t` by cell | `wbuf_`, socket with a capacity, `rbuf_`; reads cut the stream anywhere |
| `Buffer` | `buffer_t` | the block with `start_`, `end_`, `len_`, against the bytes pushed |
| `HashMap` | `hmap_t<int>` | bucket chains and link list as doubly linked nodes, against the order of insertion |
| `Queue` | `queue_t` | chunks as sets of messages at offsets; a message written over another removes it |
| `StringT` | `string_t` | two strings, inside the object or on the heap |
| `Proto` | message classes | each class as two lists of field operations over small bytes |
| `CGate` | gateway | composes `PollerOps`, `ContainerOps` and `MailboxOps` for every worker with the main thread and the clients |
| `CoreProofs`, `DataProofs`, `TimerProofs`, `PollerLemmas`, `CGateProofs`, `CGateRouting`, `LuaLibProofs`, `LuaGCProofs` | | theorems and their lemmas, see [Proofs](#proofs) |

`TPipe` refines `Mailbox` (checked), `Mailbox` refines `Delivery` (checked and
proved), `Timer` refines `Deadlines` (checked and proved), and `CGate` uses the operators of
`Mailbox`. The operators of the poller and of the container are likewise the
same in the component and in the composition.

Conventions. Handlers of one thread are atomic, except that the loops over epoll
events, over the messages of one read and over the timers of one tick are one
step per iteration. `RT_ASSERT`s are guards of actions, and a predicate says that
they never fail (`AssertsHold` and `RoutedByHid`, which are proved, and
`FreeConnectAsserts`, which fails). A result of epoll or of a client is a choice. Definitions named
`Bug...` are the code changed as a plausible mistake would change it. Each
property of a passing run is violated when one of them replaces its original.

Abstractions worth knowing:

- `Accept` takes one socket per step, where `on_listen_read` loops over up to
  100. This allows more interleavings than the code has, never fewer.
- A client's data is only present or absent in `CGate`. A read of it is answered,
  and the answer is whole or cut: `process_data` ignores what `::write` returns
  (`connect_worker.cc:136-139`), so no property promises that all of it is echoed.
- `add_event` is public, but its callers (`fd_poller.cc:62,147`) have just made the
  entry ACTIVE and checked the descriptor, and `AddEvent` is called as they do. Its
  own test (`epoll.cc:28`) lets `fd == max_fds_` pass, which `add_fd` never does.
- The descriptors of the mailboxes are 0 in every worker. Client sockets keep
  process-wide numbers.
- Polls that time out are left out: a round without events changes nothing, as
  the sweep is idempotent.
- Pipes in `CGate` have room for everything. `TPipe` is where they fill up.
- `EvTimer` leaves `slot_now_` unset, and `process_tick` reads one cell past a
  wheel before it carries. `Timer` takes both from fresh memory, as zero, and every
  result on timers is about a timer that starts so: from another `slot_now_` the
  wheel would look for its timers in the wrong cells.
- What follows the use of a freed entry depends on the memory. `Timer` then stops in
  the phase "lost", and promises hold up to there; `timer_freed` shows that it is
  reached.
- The slot lists of `Timer` are sets: the order of timers in one tick is not
  promised. Time is the ticks that `timer_routine` finds.

## Modules of Lua

| module | models | how |
|---|---|---|
| `LuaCode` | `lcode.c` | the code generator on a FuncState record; every `lua_assert` is conjoined to `fs.ok` |
| `LuaParser` | `lparser.c` | one operator per grammar rule, with scopes, blocks, upvalues and jump lists; statements come grouped, expressions as flat token sequences |
| `LuaVM` | `lvm.c`, upvalues of `lfunc.c`, calls of `ldo.c` | one operator per instruction |
| `LuaDump` | `ldump.c`, `lundump.c`, `lzio.c`; `luaG_checkcode` of `ldebug.c`, `lopcodes.c` | a prototype as a stream of bytes, a writer that may refuse, a reader that cuts anywhere; the symbolic execution that checks a prototype |
| `LuaMeaning` | the language | environments and cells, from the reference manual; knows no registers and no jumps |
| `LuaLang` | `lua_load` and `lua_call` | a program goes through all of the above |
| `LuaGC` | `lgc.c`, with `lstring.c` and `lfunc.c` | the collector's steps interleaved with stores, barriers, interning, upvalues, weak tables and finalizers |
| `LuaTable` | `ltable.c` | array part and hash part of nodes with next pointers |
| `LuaDo` | `ldo.c`, with `lapi.c`, `lbaselib.c`, `lstate.c` | the C stack shared by all threads, frames, protected calls, error functions, coroutines |
| `LuaMatch`, `LuaPattern` | `lstrlib.c`, and what patterns mean | the backtracking matcher; the list of all ways to match, the preferred one first |
| `LuaTabLib` | `ltablib.c` | insert, remove, concat and sort, whose order function may contradict itself and answer for nil or raise an error |
| `LuaLex` | `llex.c`, `luaO_str2d`, `addquoted` of `lstrlib.c` | a LexState over a text of character codes; `luaX_next` and `luaX_lookahead` as the parser calls them |
| `LuaAux` | buffers of `lauxlib.c`, reads of `liolib.c` | the array and the stack levels of a `luaL_Buffer`; `g_read` in every format over a file with a position, which may fail or hold a numeral cut short |
| `LuaIO` | file handles of `liolib.c` | who points at which FILE: program, default files, iterators, finalizers |
| `LuaRequire` | `require` and `module` of `loadlib.c` | `package.loaded`, the stack of module bodies in progress, errors caught anywhere below |

The data is as small as the control allows. `LuaVM` has no metatables. Its numbers
are integers: a quotient that is none is kept as a pair, and nothing is computed from
it, from an infinity or from a NaN. Strings are converted to numbers and compared in
the order of the C locale. A
`LuaTable` key is an integer with a given hash. `LuaGC` gives a table one node
and a thread a few slots, and its lists are sets. `LuaDo` knows of a frame
only whether it runs C code and has open upvalues, and lets the running function
take any step. `LuaIO` leaves the contents of files to `LuaAux`. In `LuaRequire` a
body is any sequence of calls, and module names have no dots.

## Runs

TLC evaluates components that do not interact in one run: the drivers `MCCore`,
`MCLive`, `MCLua` and `MCLuaGC` have a variable `part` that says which of them moves.
`MCLuaLang` holds the programs of `MCLua`.

| run | result | shows |
|---|---|---|
| `core` | pass, 617,033 states | `MemPool`: the free list survives every order of calls. `ConnectContainer`: the free stack is exact. `FdPoller`: no NULL reactor is called, only active descriptors are registered. `Mailbox`: resending opens no gap. `Buffer`: offsets stay in the block and the bytes are the stream. `HashMap`: both views have every entry. `Queue`: the counts are right. `StringT`: the text is kept. `Proto`: every message and header arrives. `CGate`: start-up barrier, routing by hid, bound of `retired_`, right kind of reactor |
| `live` | pass, 9,730 | every timer goes off in its tick, or is deleted; frames are whole messages, `TPipe` refines `Mailbox`, everything written arrives; the gateway's port opens, accepted sockets are served, data is read and answered |
| `luagc` | pass, 429,506 | nothing reachable is freed, everything unreachable is, finalizers run once, the tri-colour invariant; each open FILE has one handle, which closes it once and in the right way |
| `lua` | pass, 446,453 | tables are maps, calls and coroutines keep their books, tokens, buffers, reads, patterns and table functions come out as they should, a required module runs once; compiled programs mean what the manual says, no assertion of the generator fails, the checker accepts all code, chunks survive dump and undump |
| `poller_close` | violation | a retired descriptor is never closed |
| `mailbox_once` | violation | messages are delivered more than once |
| `tpipe_full` | violation | what did not fit is never sent |
| `cgate_free` | violation | the assertion of `free_connect` can fail |
| `cgate_close` | violation | a client that closes is never released |
| `queue_order` | violation | a push that does not fit the chunk writes over the oldest messages |
| `timer_freed` | violation | a callback that deletes the first timer of its tick, its own for instance, makes `process_tick` free it twice |
| `lua_status` | violation | a finished coroutine whose results did not fit on the resumer's stack reports "suspended" |

A violation run states what a comment, an assertion or the manual says, and the
trace shows where the code does otherwise. `PROJECT.json` quotes the line.

Other things the definitions record, where the code differs from its comments
and no run is spent on it:

- `free_connect` leaves `head_` at a freed connection. Nothing iterates the list.
- `ApplyPending` keeps `pending_new_`, so a descriptor retired later comes back
  as ACTIVE. The trace of `cgate_free` depends on it.
- `SelectWorker` is 0 for every socket, as `active_conn` is never written.
- A resent NEWCONN makes a second connection with the same hid (`HandleMail`).
- `add_fd` refuses a descriptor number from `max_conn` up and `new_connect`
  ignores that. `AcceptedIsServed` is therefore checked for numbers in range.
- `start_worker` goes on after a thread could not be created (`StartWorker`); the
  port then never opens, which is why `GateOpens` is checked without failures.
- `buffer_t::pop` returns the length before it when it pops everything, where its
  comment says the length after it. `reset` drops the data its comment keeps.
- `rehash` of `hmap_t` reverses the entries of a bucket, so `find` of a key with
  several entries may change its answer.
- `string_t::strcat` writes into the object when a large string stays short, and
  `expand` copies an unset buffer when a small string is empty. `TextKept` is
  stated for strings not used in these ways (`misused`).
- `UNPACK_HEADER` and `UNPACK_INT64` extend the sign of a char. The codec properties
  are stated for values that survive this.
- `luaX_lookahead` moves `linenumber` on, so `lastline` is then the line of the token
  looked at, where `llex.h:58` says "line of last token `consumed'".
- `check_next` asks `strchr`, which finds the end of its set: a NUL after `..` or
  in a numeral is taken for one of the characters asked for.
- `read_line` measures what `fgets` read with `strlen`. `BuffersRight` promises lines
  for files without NUL.
- A module that set its own entry in `package.loaded` and then failed counts as
  loaded. `RequireRight` says nothing of the next answer in this case.

### Bounds

- `core`: capacities that are exhausted and refilled; owners that write words
  which look like links; three connections, so that first, middle and last of the
  list differ; `PendingBound = 2` caps `pending_new_`, which the code never
  empties, and lets one descriptor be pended twice; eight messages in `Mailbox`;
  buffers of up to `MaxAlloc = 5` bytes that grow by 2 and shrink at 3; four
  entries under three keys in one or two buckets; three chunks; strings around
  `MAX_SMALL_LEN = 2`; bytes with eight values. The gateway has two workers, two
  sockets, `HidSpace = 2` so that the hid counter wraps, and `MaxLog = 5` messages
  per mailbox: START_OK and four closes from a worker, more than `retired_` has
  elements (`MaxFds = 3`).
- `live`: three wheels of two slots, so that a timer cascades twice, with
  time-outs that start on each wheel; two ticks of backlog; payloads of different length and reads smaller than a message. The
  socket holds everything resending can produce; in `tpipe_full` not. The gateway has
  containers with room for every duplicate NEWCONN (two sockets make 1 + 2 = 3),
  descriptors in range, no resets and no failing threads; `MaxLog` is then never the
  reason that a step is missing.
- `luagc`: scenes of up to five objects, one for each way in which objects refer to
  others (tables, weak tables of each mode, closures over open and closed
  upvalues, a coroutine, a userdata with a finalizer). The collector may take any
  number of steps between two steps of the program. Two handles compete for one
  FILE address besides the two standard files; the program has one of the two handles and one
  iterator at a time, so a handle can be held, be a default, be iterated
  and be waiting for its finalizer at once.
- `lua`: some five thousand programs, systematic over operators and the places a
  condition can be used, assignments, constructors, loops with closures and
  breaks, functions and methods. `LFIELDS_PER_FLUSH`, `MAXARG_C` and `MAXINDEXRK`
  are small enough to be exceeded.
- `lua`, the rest: five keys of which three collide; four frames over limits of 4 Lua and
  3 + 2 C calls and two coroutines, which are symmetric; each class and
  repetition, pairs of repetitions in captures, and all texts of up to three
  characters as patterns; arrays of up to six elements under every order relation
  on three values that puts 1 before 2, consistent or not, and of up to five under
  every relation on two values and nil; pairs of tokens of each kind around each
  kind of separator, and raw texts of brackets, quotes, line ends and escapes;
  buffers of three characters and three levels (`LIMIT`), up to 14 characters
  (`MaxAdded`), which overflow both; files of up to five characters, some of which fail or hold numerals, read in up to
  three formats, refused ones included; two modules
  that may end with false twice each (`MaxFalse`).

Deadlock checking is off where the system may stop: clients may do nothing, a
thread may not exist, programs end, and the bounds end a behaviour.

### Fairness

`TPipe` assumes that the reader's thread starts and keeps reading: its loop
polls a level-triggered descriptor. `Timer` assumes that the loop goes on, calling
`timer_routine`, and that callbacks return. `CGate` assumes weak fairness of each
thread's steps, of reading each mailbox in the main thread and of accepting each
queued socket. epoll reports a ready descriptor in every round and each round
handles all that were reported, so none is passed over for ever. Clients and
writers have no fairness. The properties of Lua need none: `GarbageFreed` says
that a complete cycle leaves no garbage from before it, and `ArraysRight` that each
sort ends within a number of comparisons.

## Proofs

All theorems hold for every value of the constants that satisfies the named
assumptions of the modules (positive capacities, NULL is not a reactor, at most
32 workers, and so on). `AssertsSafe`, `MallocOnlyWhenFullSafe`, `AllocSafe` and the
two theorems on types have no run of their own. The inductive invariants are needed because the
properties speak of one structure while the steps depend on how several agree.

| theorem | statement | argument |
|---|---|---|
| `FreeListSafe` | the links of `MemPool` visit each free node once | the link words spell an explicit sequence of free nodes with no repetition; alloc takes its head, free puts one in front |
| `ExclusiveOwnerSafe`, `AssertsSafe`, `MallocOnlyWhenFullSafe` | one owner per node; asserts hold; `malloc` only at capacity | from the same invariant |
| `FreeStackSafe` | the free stack holds exactly the unused objects | the stack is injective and its size is capacity minus count |
| `AllocSafe` | allocation fails exactly at capacity | pigeonhole on that stack |
| `PollerTyped`, `NoNullDispatchSafe`, `RegisteredSafe` | no NULL dispatch, no registration without an active entry | `PollerLemmas`: every poller operation keeps "active entries have reactors, registered ones are active" |
| `MailboxDelivers` | `Mailbox` implements `Delivery` | the channel is always a suffix of resends each of which starts at 1, so whatever is taken next has its predecessor before it |
| `BufferIsStream` | `buffer_t` holds the last bytes pushed (`StreamKept`) | the `len_` bytes at `start_` are the last of the stream, `end_` is behind them and within the block; lemmas say what a copy, a move to the front and a `realloc` do to bytes at an offset |
| `QueueFirstInFirstOut` | `front` and `back` of `queue_t` are the oldest and the newest message (`QueueInOrder`) for a user who pushes only what the chunk has room for (`CarefulSpec`) | the unread messages lie one behind the other from `pos_front_`, each where the one before it ends; a push adds one at the end and writes over none, a pop moves to the second |
| `QueueCountsRight` | `count()` is right and `pop` stays in the chunk (`QueueCounts`), for every user | reader, writer and back share one chunk, since `push` links chunks it never enters; positions stay within it, whatever header `pop` reads |
| `StringHoldsText` | `string_t` holds its text (`TextKept`) | a string that has not been misused holds its text in a layout with room for it; one lemma per way to make or extend a string |
| `TimersKeepDeadlines` | `Timer` implements `Deadlines`, up to the use of a freed entry | see below |
| `GateTyped` | types of the composition | the lemmas on pollers, containers and mailboxes, lifted to each worker |
| `ListenBarrierSafe` | the port opens after every worker is in its loop | a START_OK anywhere (log, channel, inbox) or an ACTIVE status means its worker has booted, and a booted worker stays in its loop |
| `RoutedByHidSafe` | a connection and all messages about it carry a hid that names its worker (`RoutedByHid`) | the invariant types the messages in each mailbox by the worker they name, and follows the hid from the main thread through NEWCONN, the connection, PEER_CLOSE and DO_CLOSE |
| `ReactorsPlaced` | a descriptor is dispatched to the kind of reactor it was added with (`ReactorsInPlace`) | the same holds of every pending entry, so the sweep that activates them keeps it |
| `RetiredFits` | a round retires no more than its array holds (`RetiredInBounds`) | the length of `retired_` and the number of events left add up to at most `MaxFds`: each event pays for the descriptor its handler may retire |
| `HandlesSafe` | in `LuaIO`, every open FILE but the standard ones has one handle, and every pointer is to an open FILE with the right way to close it | a finalized handle owns none but a standard FILE, so the sweep loses none; a FILE is of the standard kind just when it is a standard one, so `io_noclose` protects exactly those; each operation is one of five kinds (open, fail to open, close, move references, free), with a lemma for each |
| `ModulesRunOnce` | in `LuaRequire`, a module runs once and the sentinel is never an answer (`RequireRight`) | a module that runs has a true entry, and a false entry is one with no run behind it; an error unwinds the stack of modules and leaves what it passes as failed |
| `FinalizersCalledOnce` | in `LuaGC`, the finalizer of a userdata is called at most once (`FinalizedOnce`) | see below |

**The timing wheel.** The invariant says that at every tick each timer that is set
lies in the cell `which_slot` would name for it now, and that the timers being called
are those of this tick that no callback has deleted. A tick is written with one digit per wheel, and `which_slot`
finds the highest digit in which a deadline is ahead of the present (`WhichWheelIs`),
so the cell of a timer changes just when a carry of the present tick reaches that
digit. `CellKept` says that the timers this happens to are those in one slot of the
wheel where the carry ends; `CascadeTurns` and `TickTurns` follow the loop of
`process_tick` through the carry and show that it moves exactly these. The digits
themselves (`Rest`, a recursive function) are handled by induction on the wheel.

**Finalizers.** `FinalizedOnce` counts calls. The invariant says that a userdata waits
in `tmudata` at most once, with its FINALIZED bit set and no call behind it; that one
without the bit has no call behind it; that nothing that waits is swept; and that
nothing is left to sweep when `luaC_separateudata` looks for the next ones. Most of
the proof is about everything else: marking, barriers, upvalues, weak tables and the
sweep of other objects leave these facts alone (`Quiet`), by induction where the code
loops (`propagateall`, `luaF_close`). The constant `Scenes` only has to hold scenes
with finitely many objects.

The library's induction theorems cannot be instantiated by the installed provers, but
well-foundedness of the naturals can: `NatMin` (a set of naturals has a least element)
and `NatInd` (a set that holds 0 and the successors of its members holds all) serve
for recursive functions and folds.

Only model-checked:

- liveness, and the refinement of `Mailbox` by `TPipe`;
- `ViewsAgree` of `HashMap`, whose two lists are reached through next pointers, and
  `MessageArrives` of `Proto`, whose operations are lists folded over powers of the
  byte size;
- of `LuaGC`, `ReachableKept`, `ColoursRight` and `GarbageFreed`, which are about paths
  of references;
- `LuaTable`, `LuaAux`, `LuaLex`, `LuaDo`, the patterns, the table library and the
  compiler: recursive operators over code, nodes and texts.

## Not modelled

- Thread wrappers, logging, OS helpers, unit tests, the BSD poller, configuration,
  the program skeletons `master` and `pgate`, code generation and test clients: no
  state that a property here depends on, or no behaviour at all.
- Shutdown of the gateway: nothing in the code starts one.
- Failures of a pipe other than a full socket.
- Of Lua: metatables in the machine, hooks, line numbers in compiled code, the memory
  limits and the pace of the collector, `string.format` but for `%q`, the search for
  a module's file, and the libraries that wrap functions of the C library. `lua.c`, `luac.c` and `print.c` are programs around the library.
- jsoncpp: only its headers are in the tree.
