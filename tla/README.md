# luactest in TLA+

luactest is a program for testing C functions from Lua: a Lua 5.3 interpreter
with an interactive prompt (`main.c`, `lua.c`), a copy of the Lua 5.3.5 sources
(`lua/src`), the C functions under test (`test.c`), and a clang tool that writes
the wrappers which register those functions (`libtool/generic.cpp`).
This directory holds TLA+ models of the parts of it that are hard to test, the
TLC configurations that check them, and TLAPS proofs.

    tlc -workers 2 -config MCShell.cfg MCShell      # any run listed below
    tlapm ShellProofs.tla                           # any proof module

## The system

| component | state | operations | interacts with |
|---|---|---|---|
| interactive shell (`main.c`) | `ls`, the line editor's history, the history file | load history, make a Lua state, run `defaults.lua`; per line: add, save, run | line editor calls back into `shell_hint` and `shell_completion` |
| completion (`main.c`) | nothing of its own: the line, `LUA_FUNCS`, the global table | the word at the cursor, `shell_hint`, `shell_completion` | walks the global table of the shell's Lua state outside of any protected call |
| chunk runner (`lua.c`) | SIGINT disposition, `globalL`, the main stack | `dostring`, `dofile`, `dochunk`, `docall`, `report`, `laction`, `lstop` | the signal handler writes hook fields of the interpreter asynchronously |
| hooks, protected calls, coroutines (`ldo.c`, `ldebug.c`, `ldblib.c`, `lcorolib.c`, `lbaselib.c`) | per thread: stack, CallInfo chain, `errorJmp`, `errfunc`, `nny`, `nCcalls`, `hook`, `hookmask`, `allowhook` | `luaD_call`, `luaD_pcall`, `luaD_throw`, `lua_callk`, `lua_pcallk`, `lua_resume`, `lua_yieldk`, `recover`, `lua_sethook`, `luaD_hook` | finalizers (`GCTM`) switch hooks off; errors unwind through all of them |
| parser and code generator (`lparser.c`, `lcode.c`) | function states, scopes, registers, jump lists, `Dyndata` | one function per construct of the grammar | hand a prototype to the VM |
| virtual machine (`lvm.c`, `lobject.c`, `lfunc.c`) | stack, CallInfo, closures, upvalues, cached closures | `luaV_execute`, one case per instruction | calls C functions, coroutines, metamethods |
| precompiled chunks (`ldump.c`, `lundump.c`) | a stream of bytes | `luaU_dump`, `luaU_undump` | take and give prototypes |
| collector, marking (`lgc.c`, `lgc.h`) | `gcstate`, colors, five gray lists | `singlestep`, `propagatemark`, `atomic`, barriers | every store of the program (barriers), every allocation (a step) |
| collector, sweep and finalizers (`lgc.c`) | `allgc`, `finobj`, `tobefnz`, `sweepgc`, `gcfinnum` | `sweepstep`, `luaC_newobj`, `luaC_checkfinalizer`, `udata2finalize`, `runafewfinalizers` | finalizers are Lua code: they run in the middle of a sweep and allocate |
| closures, upvalues, coroutines (`lfunc.c`, `lvm.c`, `lgc.c`) | stacks, open lists, reference counts, `touched`, `twups` | `luaF_findupval`, `luaF_close`, `lua_upvaluejoin`, `OP_CLOSURE`, `OP_SETUPVAL`, `lua_resume`, `lua_yield`, `luaE_freethread` | the collector marks threads again and again, frees closures and threads in any order |
| tables (`ltable.c`) | array part, node chains, `lastfree`, dead keys | `luaH_get`, `luaH_newkey`, `rehash`, `luaH_resize`, `luaH_next`, `luaH_getn` | collector (dead keys) |
| string, table and utf8 libraries (`lstrlib.c`, `ltablib.c`, `lutf8lib.c`) | a match state during a call, `GMatchState` between calls | matching, packing, decoding, lists, `sort` | `sort` and `gsub` call back into the program |
| wrapper generator (`libtool/generic.cpp`) and the function under test (`test.c`) | `AutoGenOut`, the function dump, call counts | one `FuncDecl::run` per matched declaration, per translation unit | the file system across runs |
| strings (`lstring.c`) | string table, cache, colors of strings | `internshrstr`, `luaS_new`, `luaS_resize`, `luaS_clearcache` | the collector sweeps strings; any allocation of them may be an emergency collection |
| files (`liolib.c`) | handles, C streams, default files, iterators | open, close, `lines`, `__gc`; `file:read` | finalizers, `lua_close` |
| module loader (`loadlib.c`) | `package.loaded`, `package.preload`, `CLIBS` | `require`, searchers, `loadlib`, `luaL_requiref` | loaders are programs that call `require` |
| auxiliary library (`lauxlib.c`) | a table of references, a buffer and its box | `luaL_ref`, `luaL_Buffer`, `luaL_loadfilex`, `luaL_traceback` | used by all libraries and by the shell |
| os, math, bit32 | nothing | | not modelled, see the end |
| line editor, table generator | submodules that are not in the tree | | modelled from their use, or not at all |

`devi_rfind` and `get_lua_global_table` of `main.c`, and `pmain`, `doREPL` and
`handle_script` of `lua.c`, are compiled and never called.

Which behaviours are hard:

- SIGINT arrives between any two instructions, and the handler writes fields
  that library functions write too (`lua_sethook` stores `hook` and `hookmask`
  separately);
- errors are `longjmp`s over hooks, finalizers and coroutines, each of which has
  switched something off that must be switched on again;
- the collector is interleaved with the program at the grain of one object,
  while marking, while sweeping, and while its own finalizers run;
- the line editor calls back into the interpreter between lines;
- the process may end inside any line, and history must survive;
- a yield removes the C functions below it, which go on in continuations, and an
  error of a coroutine is caught by a `pcall` whose C frame is gone;
- the code generator emits instructions before it knows where their results go,
  where their jumps lead and which locals are captured, and corrects them later;
- a traversal of a table must survive fields that are cleared under it and keys
  that the collector has made dead;
- matching, packing and sorting are called with every pattern, format and order
  function that a program cares to write, sensible or not;
- an allocation may start a collection in the middle of the function that makes a
  string, while that function has found its place in the string table and the cache
  has what the collection frees;
- a file is closed by the program, by an iterator that reached its end, by the
  collector or by `lua_close`, by several of them in any order, and a C stream that
  was closed may by then be another file;
- loaders run `require`, fail, or set `package.loaded` themselves.

What makes each component correct: the shell leaves the stack as it found it and
saves a line before it runs; an interrupt stops one chunk, once, and the first
one never kills; nothing reachable is freed, finalizers are called once and
before their objects are freed, weak tables never show a finalized value; object
lists and gray lists stay well formed; an error is caught by the innermost
protected call, with its handler, in whatever mixture of Lua, C and coroutines; a
chunk does what its syntax says, compiled, dumped or loaded; table lookups find
what was inserted across rehashes; one text is one short string; a stream is closed
once; a module is loaded once; a generated wrapper file has one well-formed wrapper
per function.

## Modules

### Shell

The main program's `pc` walks through `main`, `dochunk`, `docall` and `report`:
`prompt` (the line editor), `save` (`HistorySave`), `load`
(`luaL_loadfile`/`luaL_loadbuffer`), `docall`, `run` (inside `lua_pcall`),
`docall_end`, `report`. `top` is the number of values at the base level of the
main stack, followed through every branch of these functions.

Inside a chunk, `frames` is what the C stack holds that matters to hooks: nested
`pcall`s, finalizers, hooks and a `resume`, each with the `allowhook` it found
(`old_allowhooks` of `luaD_pcall`, `oldah` of `GCTM`). There is one coroutine;
a thread is `"main"` or `"co"`. A `lua_sethook` is two steps
(`db_sethook` or `lstop`, then `SetHookMask`), so that `Sigint` can come between
them and a hook may stand with the mask of another call; a mask is `"none"`, calls
(and returns) only, or `"all"`, with instructions or lines; `Unwind` takes an error through one frame. `laction` itself is one step: it
runs on the same processor thread as the program, so the program cannot come
between its stores, only SIGINT can, and that one finds the default disposition.

`shell_hint` is the path on which a name in the global table matches; the
built-in names and the path without a match leave the stack as it was.
`linenoiseHistoryAdd` is external: the behaviour `main.c` relies on.
`Dies` is any end of the process, after which `Restart` has the history file only. `ghost` counts signals, handled
signals, interrupts raised and hints; no guard but the bounds reads it.

Left out: wording, tracebacks (`msghandler` always leaves one value), what the
chunk computes, a second coroutine at the same time, hooks on another thread
(`debug.sethook(co, ...)`), and errors inside the message handler, which end in
`luaD_throw` with another status and the same stack.

### LuaMark

The mark phase against the program. Objects are a fixed set; an object is free,
one of two whites, gray or black. The gray lists are sets (the order of visits is
left open, a superset of the code's order). `gcstate` is the code's. The case
`GCSatomic` of `singlestep` runs with the program stopped, as the sequence of steps in
`apc`: propagateall (the call before `atomic()`), remark, again, converge1, clear,
resurrect, converge2, finish; `AtomicStep` is the beginning of that case.

The program (`Mutator`) allocates, reads references out of what it holds, drops
them, stores entries, upvalues and user values with the barrier the code has at
that place, sets metatables with their mode and finalizer, and runs finalizers'
bodies like any other code. The sweep is one step per object in any order; where
the order matters (new objects, moved objects, the position of the sweep), it is
LuaSweep's subject.

Over-approximations: `luaC_fullgc` lets the program run during its first sweep;
finalizers let the collector run (`gcrunning` is off in the code); an emergency
collection may end a cycle at any time. A property that holds here holds in the
code's smaller set of behaviours. Left out: prototypes, the string cache and
`fixedgc`; coroutines and open upvalues are the subject of Upvalues.

### LuaSweep

The other half, link by link: `next` maps each list header and object to the
next object, `sweepgc` is the link the sweep continues at (a header or an
object, for the address of its `next` field), exactly the pointer arithmetic of
`sweeplist`, `sweeptolive`, `luaC_checkfinalizer` and `udata2finalize`; `After(p)`
is what following the links from `p` meets. An object is reachable when the program
holds it; marking is abstracted to that. `ctl` says who runs: the program, `luaC_step` doing single steps, the finalizers at its end
(`few`), or the finalizers of `GCScallfin`. A single step sweeps one object
(`GCSWEEPMAX`, 85 on a 64-bit machine, in the code: fewer interleavings, not
more). `gcfinnum` doubles modulo `UINT_MAX + 1`, like the `unsigned int` it is; there
are no more objects than `UINT_MAX` (`FinnumAssumption`), because otherwise it may come to 0 while
objects wait. Inside a
finalizer the program allocates, drops and sets metatables, but no collector
step runs (`gcrunning = 0`); `collectgarbage("step")` called by a finalizer is
left out, and so is `collectgarbage("stop")`, under which nothing is promised.
`lua_close`, which `os.exit(code, true)` calls, may come whenever the program runs, a
finalizer and the middle of a sweep included: all finalizable objects become due,
their finalizers are called (`GCTM`), and `FreeAll` frees everything; what follows is
the next process.

### Upvalues and SharedVars

`Upvalues` is what happens to a local variable that closures use. While its block
runs it is a stack slot, and each closure's upvalue (`uv`) is open: its field `v` is
a slot `<<thread, level>>`, and `openupval` lists the thread's open upvalues. When
the block ends (`Leave`, that is `OP_RETURN` and the jumps that close) `luaF_close`
moves the value into the upvalue: `v` becomes `Own` ("`&uv->u.value`"). Upvalues
are not objects of the collector: they are counted (`refcount`), freed by
`luaC_upvdeccount` and `luaF_close`, and what they refer to is marked through
closures. An open one shows a value in a stack that may belong to a thread nobody
reaches any more; `touched`, `twups` and `remarkupvals` are there for it.

The program runs in the main thread or in a coroutine it resumed. A closure has
one upvalue, of a local variable of the running function (`pushclosure`) or of an
enclosing closure (`pushclosure_enclosing`). The mark phase is the one of LuaMark
without tables; the roots are the main thread and the running one. The sweep
visits objects in any order, so a thread may be freed before or after the closures
that use its slots. `luaC_fullgc` starts its first sweep as in LuaMark, and the
program may run before its second one, which is more than the code allows.

`SharedVars` is the abstract specification: there are places (stack slots and
closures), places show variables, and those that show the same one agree on its
value, whatever happens to the other ones. It knows no upvalue, no list and no
collector. The refinement mapping is in `Upvalues` (`with`, `content`): two
closures show the same variable if they have the same upvalue, a closure and a slot
if the closure's upvalue is open and at that slot. `ImplementsSharedVars` says that
every step of the code, closing, joining, sweeping and freeing included, is a step
of the abstract specification or changes nothing there.

Left out: the closure cache of prototypes (`getcached`), several upvalues in a
closure, C closures, a coroutine that resumes another one, the moves of a stack
(`correctstack`) and allocations that fail.

### Calls and ProtectedCalls

`Calls` is `ldo.c`: `L[t]` is a thread (stack, CallInfos, `nny`, `nCcalls`,
`errfunc`, and whether the stack has its extra space), `C` is the C stack of the
process, one record for each C function that waits for another one or for a
`longjmp`. A step of the program is what the running function does next: a Lua
function calls or returns, a function of the library does what it does before or
after the call that it makes. Between two such steps the operators do what the C
code does without stopping: `luaD_precall`, `luaD_poscall`, `luaD_throw` down to the
record that catches, `luaG_errormsg` with a handler, `lua_resume` with `unroll`,
`finishCcall` and `recover`. `finishCcall` enlarges a function's frame only if the
function itself owes all its results (`adjustresults`), so a continuation may find
more values than its frame has room for. A yield cuts the C stack down to the `resume`, as the
`longjmp` does, so whatever a C function kept there is lost and the continuation has
only its CallInfo.

`ProtectedCalls` promises the same to a Lua program without a C stack: each thread
has activations, an error ends them up to the innermost `pcall`, a handler runs on
top of the failing function, a yield suspends a whole thread. Where the code may run
out of C calls or stack, or finds a C call that cannot yield, it allows an error of
that kind and nothing else. `ImplementsProtectedCalls` is the refinement:
activations are read off the CallInfos and the C records.

Left out: hooks (they are in Shell), `lua_yield` inside a hook, upvalues (in
Upvalues), the values on the stacks beyond what tells results apart, and memory
errors.

### LuaValue, LuaCode, LuaParser, LuaDump, LuaVM and LuaSource

A chunk on its way from source to result. `LuaParser` is `lparser.c` from the syntax
tree on: a block is a sequence of statement records and an expression a flat
sequence of operands and operators, which `subexpr` groups by its priorities. It
calls the operators of `LuaCode` (`lcode.c`) as the C functions call each other;
they take a function state, with expression descriptors `expdesc`, and return it
changed. Jump lists are sets of positions, where the C code threads them through the
instructions. `LuaDump` writes a prototype as a stream of items and reads it back,
whole, stripped or cut off anywhere. `LuaVM` executes it: the actions are groups of
instructions, with calls, tail calls, varargs, open and closed upvalues, and the
cached closure of `OP_CLOSURE`.

`LuaSource` is the abstract specification: what a chunk means straight from its
syntax. A variable is a cell that all functions in its scope refer to, operators are
found by splitting an expression where it binds least, a `goto` looks for its label
from the inside out. It has no registers, jumps, upvalues or instructions, and
shares nothing with the modules above but the operations on values (`LuaValue`). The
chunk calls two C functions, `emit` and `ask`, whose calls are its observable
behaviour; `ExecutesAsWritten` says that LuaVM implements LuaSource.

### Library modules

Modules of the parts that share no state. `LuaTable` is a table as it lies in
memory, under stores, rehashes, a traversal and the collector's dead keys: an array
part, and a hash part whose nodes are linked into chains, with `free` for `lastfree`.
`chain` follows the links from a node, `settle`, `evict` and `collide` are the three ways
`luaH_newkey` stores a new key, and `resized` reinserts what does not fit in the
new array. Its loops are recursive functions over intervals, not `RECURSIVE` operators.
`LuaMatch` is the matcher of `lstrlib.c`, with captures written and restored in
place, and `LuaPatterns` the definition it is compared with: a pattern is a sequence
of items, and what it matches the sequence of all outcomes in order of preference.
`LuaPack` (formats, alignment, integers of any width), `LuaUtf8` and `LuaTablib`
(lists and quicksort) are functions with reference definitions. `Completion` is the
half of the shell's callbacks that Shell leaves out: words, offered names, and the
traversal of the global table one `lua_next` at a time. `LuaWrap` is the generator
over translation units and runs, with its files, and `str2int`. `LuaFor` is the loop
whose index is an integer and whose limit is a float, which LuaVM leaves out. `MCLibrary` composes
them and the modules of the next section: a behaviour is one part's, chosen by `job`.

### LuaStrings, LuaFiles, LuaRequire, LuaPaths, LuaRead and LuaAux

`LuaStrings` is `lstring.c`. The variable `g` is the global state with `str`, what
is in memory at each address and its color, the lists `hash` (as sets: their order decides
nothing), `nuse`, the `cache`, and the current white. `internshrstr`, `luaS_newlstr` and `luaS_new` are functions of
it, because an allocation in them may succeed, succeed after an emergency collection
(`EmergencyGC`, a whole cycle) or fail after one, before the table is resized and before
the string is made. The normal collector marks what the program has, and maybe what
it just dropped (`GCSatomic`), sweeps one string at a time and may shrink the table.

`LuaFiles` is the life of file handles. `fh` is `luaL_Stream` per userdata, with
`closef`; `open` the C streams that are open: a stream that is closed may be given
out again, so a handle that was not marked as closed is seen to close another's
file. `collect` is `__gc` with the release of the memory, and `lua_close` calls
`__gc` of all handles, in any order, while other code runs. The call of an iterator is
two steps, the check and what follows the read (`readline_returns`): the read makes
strings, so in between the finalizers of other handles run, and may call iterators. What a file holds is left
out, and so are `write`, `seek` and `setvbuf`, which leave handles alone.

`LuaRequire` is the loader. `ll_require` goes up to the call of the loader that
`findloader` finds; a loader is on the stack `loaders`, may call `require` itself, set
`package.loaded`, return its module, nothing or `false`, or raise an error, which ends
the loaders up to the innermost `require` in a `pcall`. What is in files and libraries
is found out anew by each search. `given` and `nested` are history for the property.
Left out: a program that assigns another module's field of `package.loaded`.

`LuaRead` and `LuaAux` are functions with reference definitions: the formats of
`file:read`, with the look-ahead of `read_number`; `l_str2int`; what
`luaL_loadfilex` gives to the parser; references, buffers (with `size_t` of five
bits) and their boxes on the stack; the levels of a traceback and the names in it;
`luaL_gsub`. `LuaPaths` is the search along a path (`searchpath`, `setpath`), which rests on it.

### MC modules and proofs

`MCShell`, `MCLuaMark`, `MCLuaSweep`, `MCUpvalues`, `MCCalls`, `MCLuaVM` and
`MCLibrary` instantiate the modules for TLC. `ShellProofs`, `LuaMarkProofs`,
`LuaSweepProofs`, `UpvaluesProofs` (with the refinement), `SharedVarsProofs`,
`CallsProofs` (which rests on `CallsErrors`) and `LibraryProofs` (of LuaTable, LuaStrings,
LuaFiles and LuaRequire) hold the theorems.

## Runs

| run | question | bounds | result |
|---|---|---|---|
| `shell` | interrupts, hooks, stack and history together | 2 lines, history of 1, 2 SIGINTs, nesting 2, 1 hint, 1 restart, user masks of calls only | 863 thousand states, no error |
| `shell_hints` | does the stack stay within its frame? | 1 line, 7 hints | violated |
| `mark_values` | strong and weak-valued tables, a userdata with a finalizer, ephemerons of one entry | registry and one table, 1 entry each, 2 stack slots | 4.0 million states, no error |
| `mark_ephemerons` | two ephemeron entries in one table, a closure and a string | registry with 2 entries, 2 stack slots | 4.2 million states, no error |
| `mark_allweak` | all-weak tables | registry and two tables | violated |
| `sweep` | three objects through creation, finalizer, sweep, and the closing of the state | 3 objects, `UINT_MAX` 3 | 284 thousand states, no error |
| `sweep_tobefnz` | is everything white between cycles? | 2 objects | violated |
| `upvalues` | closures, joins, blocks and threads that end, against an incremental cycle | 2 closures, 2 upvalues, stacks of 2 (main) and 1 (coroutine) | 670 thousand states, no error |
| `upvalues_selfjoin` | the same with a join of an upvalue's last reference with itself | the same | violated |
| `call` | is every error caught by whom it should, across yields and at the limits? | one coroutine, 5 frames of 4 slots, `LUAI_MAXCCALLS` 4, `LUAI_MAXSTACK` 17 | 134 thousand states, no error |
| `compile` | do compiled chunks do what their syntax says? | 5702 chunks, integers of 4 bits, 6 log entries | 93 thousand states, no error |
| `library` | tables, strings, files, modules, matching, packing, reading, sorting, loops, completion, generated wrappers | below | 1.6 million states, no error |

Why the bounds are enough to matter. Two SIGINTs are what it takes to kill, and
to arm, disarm and arm again; nesting 2 has every pair of frames (a finalizer in a
coroutine, a hook in a pcall, a pcall in a finalizer); a history of one line is
full at the second. The user's hooks have masks of calls only (`UserMasks`), the ones
that may never be reached. Marking needs an object that is visited, another that is not,
and a place to hide a reference: two containers and two stack slots hold every
way the barrier can be missed, and the weak modes are all tried on both tables of
`mark_values`. Two ephemeron entries are what makes a second pass necessary. In
`sweep`, three objects put one before, at and behind the sweep's position; a quota
of at most 2 doubles once. In `upvalues`, two closures are what
sharing takes; with one slot in the coroutine and two in the main thread, a closure
of the coroutine's variable can leave it and outlive it, and the order of the open
list matters in the main stack. Three upvalues (2.3 million states) and a leaf
object with a coroutine of two slots (2.0 million) were tried too, without error.

In `call`, a Lua function and every library function that matters for the control
(`pcall`, `xpcall`, `error`, `resume`, `yield`, a function of `wrap`, `dofile`,
which calls with a continuation, and a C function that calls without one) nest in
each other, with up to five Lua functions active in two threads. That is enough for
an error to cross a coroutine between two protected calls and for a handler to fail
in its own handling, or for a coroutine to be resumed with three values inside a `pcall` that owes
two results. Both limits are within reach: four C calls, and a stack of 17 slots for
frames of three and four.

In `compile`, `MaxIndexRK = 0` makes constants overflow the operand of an
instruction at the second one, `FieldsPerFlush = 2` flushes a constructor in its
middle, and with `MaxInteger = 7` a loop reaches both ends of the integers. The
chunks are whole products, not samples: all conditions of three terms, in four
places where a condition is used; all assignments of up to three targets and four
lists of values; all loops with three statements of a pool with locals, closures,
labels, gotos and breaks; all constructors of three items; functions, methods and
varargs; all pairs of operators; all numeric loops between five starts, five limits
and six steps. Some are dumped, stripped, or cut off at every item.

In `library`, a table has four integer keys and two objects, so that nodes grow to
eight and every chain can collide; subjects have up to three characters and
patterns two items, or three behind a `(`; formats have up to three options with
integers of three bytes of two bits, so that every width from narrower to wider
than `lua_Integer` occurs with both signs; byte strings of UTF-8 hold every byte at
the border of a range; `sort` sees *all* relations on four elements as an order
function, and six elements of four ranks; lines have three characters, and the
global table three keys, which are strings, numbers or others; a loop has all first
indices and steps of four bits, and the halves in and around them as limits; the generator is run twice on five programs. The string table
starts with one list, grows to eight and shrinks again, with up to four strings of
five texts, some of which meet in a list at one size and not at the next; of the two
allocations in `internshrstr` at most one needs a collection. Two handles and two
streams are what it takes for a closed stream to become another file, beside the
standard ones, one iterator, and one read during which finalizers run. Of two modules one has a name with a dot and an ignore
mark, so that they share a library; three loaders may be nested, which is a
`require` of a module within its own loader within another one. Texts to read have
five characters, with a buffer of two and numerals of up to three, so that both ends
come in the middle of a line and of a numeral; six references are taken and given
up; three pieces of up to nine characters, where the largest size is 31, pass every
overflow that `luaL_prepbuffsize` tests; stacks of 20 levels pass a traceback of 3 and
4; paths have five and six characters.

`CHECK_DEADLOCK FALSE` stands in the shell's configurations, where a dead process
that is not started again is the end, in `MCLuaVM.cfg`, where a chunk ends, and in
`MCLibrary.cfg`, where a call of a library function and the last run of the
generator do.

### What the four violated runs show

- `shell_hints`: `shell_hint` returns from inside its `lua_next` loop
  (`main.c:254`) over the table, the key and the value. After seven hints the base
  frame's 20 slots are passed, which `lapi.h:13-14` asserts never happens.
- `mark_allweak`: an all-weak table visited in the propagate phase goes to
  `allweak` and is not visited again, but it is gray, so the barrier in
  `lua_setmetatable` ignores it. A metatable given to it later in the cycle is not
  marked; `lgc.c:1003` says that everything strongly accessible is. The compiled
  interpreter shows it too, with a script that steps the collector between two
  `setmetatable` calls. It is why `mark_values` has no `kv` tables.
- `sweep_tobefnz`: a finalizer run between two steps of the sweep of `tobefnz`
  takes away the object the sweep stands on (`lgc.c:791`), the sweep goes on in
  `allgc`, and objects further down `tobefnz` stay black, where `lgc.h:57-58` says
  all are white. Here a step sweeps one object; in the code it sweeps up to
  `GCSWEEPMAX` (85 on a 64-bit machine, `lgc.c:42`), so a step ends among the objects of
  `tobefnz` only if more than 85 of them wait, and it takes that many. What follows from it needs two finalizable objects in LuaMark: a
  black object that is not visited in the next cycle, whose references are not
  marked. `mark_values` therefore has one finalizable object, and its results
  about `NoDangling` and `BlackNeverToWhite` are claims about programs with at
  most one object waiting for its finalizer at a time. `SweepWhitens` in `sweep`
  is the part of the comment that does hold.
- `upvalues_selfjoin`: `lua_upvaluejoin` releases the old upvalue before it counts
  the new reference (`lapi.c:1292-1294`). If both are one closed upvalue with one
  reference, it is freed and the closure keeps referring to it, where
  `lfunc.h:37` says that `refcount` is the reference counter. With
  `SelfJoin = FALSE` the run `upvalues` leaves out this call and no other: all joins
  of two upvalues, and of one that has another reference or is open, are in it.

## Properties

Shell: `InterruptOnce`, `HooksComeBack`, `StackBalanced`, `RunningLineIsSaved`, the
action property `FirstInterruptSurvives`, and the liveness property
`InterruptStopsChunk`. LuaMark: `NoDangling` (no reference to freed memory, in any
phase), `BlackNeverToWhite`, `OneGrayList` (all lists share the field `gclist`),
`StronglyAccessibleMarked`, and the action property `FinalizedLeaveWeakValues`.
LuaSweep: `ListsPartition`, `SweepPosition`, `HeldSurvives`, `SweepWhitens`, the
action property `NoFreeBeforeFinalizer` and the liveness property
`FinalizersGetCalled`. Upvalues: `NoDangling` (through open and closed upvalues, in
any phase), `RefcountsRight`, `OpenListSorted`, `TwupsComplete`, and the refinement
`ImplementsSharedVars`. Calls: the refinement `ImplementsProtectedCalls`;
`BookkeepingRight`, which says that `nCcalls` and `nny` agree with the calls
that are really active, and that only functions with a continuation are continued;
`HandlerRight`, which says that `errfunc` is the handler of the innermost protected
call, whatever errors and yields have ended; and `StackFits`. LuaVM:
`AssertionsHold` (the `lua_assert`s of the parser and the code generator, and no
jump fixed twice), the refinement `ExecutesAsWritten`, and the liveness property
`Ends`. MCLibrary: `TableRight`, `MatchRight`, `LibraryRight`, `ToolsRight`, `StringsRight`,
`FilesRight` and `ModulesRight`, each of which is the promise of one or several
modules, below. Each has a mutant of the code
(a definition whose comment begins with "Mutant") under which TLC finds it violated.

What the promises of the library modules are:

- LuaTable, `TableIsMap`: a table gives for every key what was last stored, and
  `luaH_getn` a border; `TraversalComplete`: a traversal by `luaH_next` in which
  fields are cleared, and in which the collector makes their keys dead, visits every
  key that stays, once.
- LuaMatch, `FindRight` and `GmatchRight`: `match`, `find`, `gmatch` and `gsub` give
  the first outcome of the pattern's items that LuaPatterns lists, with its
  captures, or an error when LuaPatterns has one.
- LuaPack, `PackInverts` and `UnpackInverts`; LuaUtf8, `CodesComeBack` and
  `OnlyShortest` (a decoder accepts the encoder's bytes and no others up to the
  largest code point); LuaTablib, `SortRight` and `ListsRight`; LuaWrap,
  `Str2intRight`: what comes back is what went in, or its documented reading.
- LuaStrings, `Interned`: one text is one short string, in the list its hash belongs to,
  and counted; `StringsAlive`: neither what the program has nor what the cache has is
  free or about to be, across resizes, resurrections and emergency collections.
- LuaFiles, `FilesRight`: an open stream belongs to one handle that is not closed, a
  handle that is not closed has an open stream, and the standard files stay open.
- LuaRequire, `ModulesRight`: all that require a module get one value, and no library is
  opened twice; `SearchRight` and `SetpathRight`: the first file of the path is found.
- LuaRead, `ReadRight`: a line goes to the end of the line and a number is the longest
  prefix of a numeral, whatever the buffer's size; `IntegerRight`: the value of a numeral
  at both ends of the integers; `LoadRight`: mark and comment are skipped.
- LuaAux, `RefsRight`: what is stored is found until it is given up, and places are used
  again; `BufferRight`: the result is what was added, the stack is what it was, and no
  block is smaller than its contents; `TracebackRight` and `NameRight`.
- LuaFor, `ForRight`: a loop runs for the indices up to its limit as a number, although
  `forlimit` makes an integer of it.
- Completion, `OffersRight`: what is offered is every name that has the word as a
  prefix, from the list and from the global table. LuaWrap, `OutputsRight`: a
  wrapper file holds one wrapper per defined function.

Where the code does not keep a promise everywhere, the property names the inputs for
which it does, and the cases left out are these:

- a global with a numeric key: `lua_tostring` changes the key that `lua_next` needs
  (`main.c:248`), and the traversal raises an error outside of any protected call,
  or never ends if the key's text is a key too;
- a global whose key is neither a string nor a number: `lua_tostring` gives NULL, and
  `devi_lfind` reads it (`main.c:196` and `main.c:248`);
- a line that ends in a delimiter: `devi_find_last_word` gives -1 (`main.c:229`); a
  cursor inside a word: `shell_completion` writes more than it allocated
  (`main.c:184`, `206`), and the word is taken from the first delimiter to the last;
- `string.find` takes a lone `)` for plain text, as `SPECIALS` lacks it, where
  `match` raises an error; after an error in an iterator of `gmatch`, `matchdepth`
  stays decremented and the assertion of `reprepstate` (`lstrlib.c:603`) fails at
  the next call; `string.unpack("z", s)` without a zero in `s` returns a position
  one behind the data (`lstrlib.c:1526`);
- `str2int` overflows an `int` (`test.c:41`), and `str2int_lct` passes a null
  pointer on for an argument that is not a string;
- a module that is required within its own loader is loaded twice, as nothing stands in
  `package.loaded` before the loader returns (`loadlib.c:597-622`); a module whose loader returns
  `false` is loaded at each `require`, and may have another value then;
- a file with the first two characters of a byte order mark and a `#` is a comment for
  `luaL_loadfilex` whose two characters are kept; `LoadRight` is not about such files;
- `AutoGenOut` is opened, and emptied, before the options are parsed
  (`generic.cpp:342`); the dump is emptied for every translation unit (139); a
  function that is declared and defined gets two wrappers (169); a `char*` result is
  pushed as light userdata;
- an interrupt that falls between the two stores of a `lua_sethook` of the chunk
  (`ldebug.c:88-91`): `lstop` stays with the mask of the chunk's call, and a loop that
  calls nothing may go on if that mask has calls only, until a second SIGINT ends the process.
  `InterruptStopsChunk` is about interrupts whose hook and mask are both in place;
- a loop with a step of 0 and a limit below all integers has the index 0, and one with a
  negative step and a limit of NaN goes on as if it had none (`lvm.c:146-149`);
- a continuation after a yield may have more values than its frame (`ldo.c:531` and
  `lapi.h:17`: the frame grows only if the function itself owes all results), so the assertions
  of `api_incr_top` may fail in it; `StackFits` is about functions that are called, and those
  continued after an error;
- a thread that died of an error keeps its CallInfos, for which `stackinuse`'s
  assertion (`ldo.c:216`) may fail: `StackFits` is about the other threads. A stack
  that keeps its extra space after a handled overflow gives "error in error
  handling" at the next one without calling a handler, and a dead coroutine whose
  stack is full reports "too many arguments to resume"; ProtectedCalls allows both.

### Fairness

Shell: the second store of a `lua_sethook`, an unwinding and the end of a failed
chunk are code that runs to its end (weak fairness). A thread that keeps running
keeps reaching hook events if the mask in place has instructions or lines, as
`laction`'s has (count 1): strong fairness of `lstop` in each thread under the mask `"all"`,
and nothing is assumed of it under the user's mask of calls only. It is strong because the enabling condition comes
and goes with the frames. What runs with hooks off or in a coroutine returns again
and again: an assumption about user code, and a needed one, because a finalizer
with an endless loop cannot be interrupted. SIGINT, new lines and `pcall`s
returning are not fair.

LuaSweep: the program keeps allocating, so `luaC_step` is called again and again
(weak fairness of the beginning of a step), and the loops of `luaC_step` and
`runafewfinalizers`, bounded by debt and `gcfinnum`, end. Nothing is assumed of
what finalizers do; they may fail every time.

LuaVM: `luaV_execute` goes on to the next instruction as long as there is one (weak
fairness of `Next`). The chunks end because `emit` and `ask`, the only functions
they call in their endless loops, raise an error in the end.

## Proofs

Proved for every value of the constants that satisfies the modules' assumptions
(so for any number of lines, signals, nested frames and objects):

- `ShellProofs!CoreInvariant`: `Core` is inductive. It joins `TypeOK`, the type of
  the bookkeeping and `StackHeight`, which says for every `pc` how many values the
  shell has on the stack; `TypeOK` alone is not inductive because `top` could leave
  the naturals, and `StackBalanced` alone says nothing of the states between two
  prompts. `TypeCorrect` and `StackIsBalanced` follow.
- `InterruptsOnce`: `InterruptOnce` is inductive once the types are known; the step
  to look at is `lstop`, which disarms before it counts.
- `FirstInterruptIsSafe`: from the invariant that ties the disposition of SIGINT to
  the pc and to the number of signals handled in this call.
- `LinesAreSaved`: from an invariant about the pc `save`, in which the line is in
  memory and not yet in the file.
- `HooksAlwaysComeBack`: the invariant `HookInv` says that each frame of the main
  thread remembers whether the frames below it leave hooks on, and that a hook was
  entered with hooks on; so every way out of a frame, by return or by error, puts
  back the value that fits the frames that remain. By cases on the kind of the frame
  and on whether a coroutine runs.
- `LuaMarkProofs!TypeCorrect`, and `GrayListsAreDisjoint` from `ListInv`: while
  marking, the lists are pairwise disjoint *and* everything on them is gray. The
  second half carries the first: marking links white objects only and the back
  barrier links black ones only, so neither can be on a list already.
- `LuaMarkProofs!NothingDangles`, `BlackIsNeverToWhite`, `AllStrongIsMarked` and
  `FinalizedLeave`: the collector of LuaMark is safe. The invariant is `SafeInv`, by
  phases:
  - `MarkInv`, while marking: the roots are marked, and every object that is not white
    is to be visited (it is on `gray` or `grayagain`, `Pending`) or refers to nothing
    white (`Settled`). This is what the barriers keep up and what marking
    (`PropagateVisits`) makes progress in. `BlackNeverToWhite` alone is not inductive:
    it says nothing of gray objects that are on no list.
  - In the atomic phase a third kind is settled, the weak tables on `weak`, `ephemeron`
    and `allweak`: each list has its own account of which of the table's references may
    still be white (`WeakLeft`, `EphemeronLeft`, `AllLeft`).
  - `AtomicInv`: when a convergence loop has ended, no ephemeron has a marked key with
    a white value (`Converged`). With the former (`ClearFacts`), what is white when the
    tables are cleared is not strongly accessible; with what the clearing removes
    (`AtomicEndSafe`), what is white at the end is referred to by nothing that stays.
    That is the step from marks to memory; it needs no induction over paths, because
    `Settled` speaks of single references.
  - `ColorInv`, in the other phases: the whites, what the sweep has passed, and that
    free objects have no fields.

  The theorems have two hypotheses. `NoAllWeak`: no table has weak keys and weak values;
  without it the code breaks `StronglyAccessibleMarked` (run `mark_allweak`). `OneWaits`: at
  most one object waits for its finalizer. This is a limit of the model, stricter than the
  code's: LuaMark's sweep does not know batches, while in the code more than `GCSWEEPMAX` waiting
  objects are needed to leave one black between two cycles (run `sweep_tobefnz`), where
  `ColorInv` says too much. From 2 to `GCSWEEPMAX` waiting objects nothing is proved. Any number of objects,
  references, entries, finalizers and ephemerons in any chain is covered, and any
  interleaving.
- `LuaSweepProofs!ListsArePartition`, `SweepKeepsPosition`, `HeldIsSafe`,
  `SweepLeavesWhite`, `FinalizersComeFirst` and `TypeCorrect`: all of LuaSweep but the
  liveness of finalizers, for any number of objects. Lists are where the difficulty is: in
  the specification `After(p)` follows the links from `p`, a recursive function. The
  proofs take them as pairs, what each link points to and which objects come
  after each link; `Ordered` says that the two agree, that what comes after a link is
  totally ordered, and that the three lists share nothing. `Reach` says once
  that following the links from anywhere then meets exactly those objects, in that
  order, and ends within `Cardinality(Objs)` steps (the pigeonhole principle; the induction
  is one over an interval, `Upto`, from cardinalities of intervals). From there on a move is a
  change of sets: `PushOrdered`, `UnlinkOrdered`, `MoveOrdered`, `CutOrdered` (what
  `sweeptolive` unlinks) and `SeparateOrdered` (two lists woven out of one, in their order)
  keep `Ordered`. The invariant `SweepInv` adds where the sweep may stand
  (`PositionInv`), that dead objects are all in the part of allgc the sweep has not passed
  and that nothing holds them (`DeadInv`), and which objects have the current white in each
  sweep phase (`WhiteInv`). Each of these needs the others: an object that
  `luaC_checkfinalizer` moves away from under the sweep is not dead because it is held; the
  sweep that moves on to the next live object frees nothing with a finalizer
  because the dead are all in allgc; and what is pushed in front of the sweep is white.
  The position in the second sweep is promised only until `lua_close`, which moves
  the objects of finobj under a sweep that will not go on; the other parts hold on
  to the end, for any way of closing. TLC found the invariant to hold on the
  instance of run `sweep` first.
- `UpvaluesProofs!UpvaluesNeverDangle`, `CountsAreExact`, `OpenListsStaySorted`,
  `TwupsHasAll` and `UpvaluesTyped`: closures, upvalues and coroutines against the
  collector, for any number of them. The invariant `SafeInv` has two halves.
  - `UpvalInv` is the structure, whatever the colors: types, stacks within their bounds,
    `OpenListSorted`, `RefcountsRight`, and that freed objects have nothing (`FreeInv`). None
    of its parts is inductive alone. `luaF_findupval` finds the right place in the list
    only because it is sorted (`DecreasingSplits`); a count stays a natural number only
    because it is exact; and it is exact, across the release of one upvalue and the
    taking of another, by a lemma on cardinalities for each way a closure's upvalue changes.
  - The other half is about colors. `Linked`: what is gray is on the list that will
    visit it. `Done`: the value of a black closure is marked, or will be, by one of three
    ways that differ by phase: its upvalue is closed and the barrier saw every store; it is
    open and `touched`, so `remarkupvals` marks its value if the thread is not reached; or
    the thread is still to be visited in the atomic phase, and marks its whole
    stack. `TwupsInv`: `remarkupvals` comes by every thread that needs it. `PhaseInv`:
    what the sweep has passed.

  The hypothesis of all of them is `SelfJoin = FALSE`: `lua_upvaluejoin` is not asked to join
  the last reference to a closed upvalue with itself. The run `upvalues_selfjoin` shows
  that the code does not keep any of this without it.
- `UpvaluesProofs!UpvaluesImplementSharedVars`: the refinement of SharedVars, step by step. The
  mapping is first put in another form (`Viewed`): two places show the same variable if they
  show the same slot, or the same closed upvalue, and their content is what is read there;
  then each action of the program is shown to be a `New`, `Assign`, `Close`, `Join` or
  `Leave` of SharedVars, or to change neither view nor content. Every step of the collector
  is a stutter: the values it frees are shown by nothing, which is where `NoDangling`
  and `FreeInv` are used. `SharersReadOneValue` follows: closures that share a variable read
  one value from it, through stacks, closed upvalues, joins, yields and collections.
- `SharedVarsProofs!SharersAgree`: in the abstract specification the places that
  show one variable form a class and agree on its content, for any set of places;
  `Close` and `Join` are the steps to look at, as they move a place from one class
  to another.

- `LibraryProofs!StringsAreRight`: interning, for any texts, any hash function and any sizes
  of the table and the cache. `StringsInv` says that short strings with one text are one object
  (`OneEach`), that the table lists each short string in memory, dead ones too, in the list its
  hash belongs to and nothing else (`Listed`), and that what the program or the cache has
  is neither free nor dead (`Alive`). Dead strings have to be listed: `internshrstr` takes
  them back, and a second string of their text would be made otherwise. Two proofs are worth a
  look. `RoundsRight`: after k rounds of `luaS_resize`'s loop the first k lists have what belongs
  into lists of the new size, whether it grows or shrinks, and the loop never visits
  a string that it moved to a list it has still to do in the wrong order. `AtomicKeeps`:
  `Alive` survives the exchange of the whites only because `luaS_clearcache` takes out what is
  white before it and not what is dead. Allocations that fail, or collect, between any two
  of these steps keep the invariant (`EmergencyKeeps`). `StringsAssumption`: texts
  are finitely many, none is long and short, sizes are positive.
- `LibraryProofs!FilesAreRight`: streams and handles. `FilesInv` says that the open streams and the
  handles that hold one are in bijection, that what can be reached is in memory, and not half made,
  that what is free is closed, and that the standard files are as they were. `FilesRight` alone is
  not inductive: it says nothing of handles that nothing refers to any more, and
  their finalizers close streams. `OneChanges` reduces every operation to one handle that takes a
  stream or leaves it. `FilesAssumption`: the standard files are none of the program's handles
  or streams.
- `LibraryProofs!ModulesAreRight`: `require`. `RequireInv` relates what was given for a name,
  what `package.loaded` has and the loaders on the stack (`OneValue`): while a loader runs,
  the value of its name is what it has set or nothing, and an error that takes loaders off
  the stack leaves the rest as it was (`PrefixRight`). No function of the loader
  adds a library twice, whichever searcher finds it (`FindFine`).

- `LibraryProofs!TablesAreMaps`: tables, for any keys, any hash function and any sizes, with
  `TraversalComplete` included. `TablesInv` says that `luaH_get` gives what was stored,
  which is inductive only with the structure of the table, `TableInv`:
  - `Linked`: following the links from a node meets the nodes of a set `aft` in their order
    and ends (`Ordered`); every key, living or dead, is in the chain from its main position,
    and a node that is its own main position stands there; of two nodes with one
    key the second is dead. So a search ends, finds the key that is living, and a search by
    `luaH_next` also finds one that the collector has made dead. As in LuaSweep, `Chase`
    says once that the recursive function `chain` meets `aft` (pigeonhole); from there on
    `EvictOrdered` and `CollideOrdered` change sets.
  - `Filled`: nodes without a key are in no chain, which is why `evict` and `collide` may take
    them; no free node is behind `lastfree`; the hash part has no key of the array part.

  `ResizeRight`: `luaH_resize` loses nothing. By induction over the entries, each one finds a place
  among the new nodes, because the keys inserted so far and the ones to come are no more
  than the nodes (`Builds`, `RoomLeft`); `RehashRight` counts that `rehash` asks for so many, the
  new key among them. `LengthRight`: halving keeps a border in between, and
  doubling ends because the keys are finitely many. `TravInv`: the keys seen are the ones in use
  up to the slot of the last key; fields cleared and keys made dead do not move slots
  (`TravKept`). `TableAssumption`: finitely many keys, hashes are natural numbers, and the
  largest size has room for all keys ("table overflow" is left out). That sizes are powers of
  two is not needed.

- `CallsProofs!CallsInvariant`, `StackIsLargeEnough` and `BookkeepingIsRight`: the C stack and
  the CallInfos of all threads, through calls, longjmps, yields and resumes, for any coroutines, any
  forms, frame sizes and limits. The invariant is `CallsInv`: `Good`, about what is there,
  and `AtRest`, about the function that runs.
  - `Links` and `Located`: each record of the C stack belongs to the CallInfo that it waits
    in, each next one to that frame's callee or to a resumed thread, and what is above a
    `luaV_execute` are Lua frames, the lowest of which is fresh.
  - `Counts`: `nCcalls` and `nny` are numbers of records. `Saved`: a record that catches
    remembers the counters of the records below it, so a longjmp, which cuts the C stack,
    puts back what fits.
  - `Continued`: a frame whose C function is gone has a continuation, or is where its
    thread yielded. `Idle`: a thread nobody runs is at rest, or dead.
  - `Fits`: frames are one above the other and leave `EXTRA_STACK` slots free.

  An error may call a message handler, which may overflow either stack, which is an error
  again. That ends, because the C stack passes `LUAI_MAXCCALLS` once and a stack becomes
  `big` once; so `Calls` has two levels of `raised` and no recursive operator, and `CallsErrors`
  shows that no error is left after them (`GoodZ`, `RestZ` and `Waiting` say what holds between
  two operators). `CallsAssumption`: `EXTRA_STACK` has room for a metamethod's values, and one
  C function fits in a stack.

Model-checked only:

- the liveness properties (fairness and `ENABLED` are out of the prover's reach),
  `FinalizersGetCalled` of LuaSweep among them, and the refinements of Calls and LuaVM;
- `HandlerRight` of Calls: `errfunc` is an index into a stack, and that no operator writes over the
  handler there, while the frames above it come and go, is one more invariant of each;
- `AssertionsHold` of LuaVM, and `MatchRight`, `LibraryRight` and `ToolsRight` of
  MCLibrary: parsers over trees, a matcher that backtracks, packing and sorting compute by
  recursion over data, and what such a definition gives for every input needs an induction
  that the prover cannot instantiate.

## Plan

The safety of the shell, of both halves of the collector, of closures, calls, tables, strings,
files and modules is proved. What would come next:

1. `HandlerRight`, from CallsInv and the contents of the slots that `pcall` and `xpcall`
   keep for their handlers, and with it the refinement of ProtectedCalls.
2. Batches of `GCSWEEPMAX` objects in LuaMark's sweep, to replace `OneWaits` by the code's own limit.

## Not modelled

- The lexer, line and debug information, `luaO_pushfstring`, `string.format` and the
  conversion of numbers to text and back: character data whose meaning is its
  layout.
- Floats but as limits of loops, and with them the math library; `bit32`: arithmetic without state.
- Metatables in the VM (`luaV_finishget`, `luaT_trybinTM`, `luaV_finishOp`), the
  order of strings, strings used as numbers, `LOADKX` and `EXTRAARG`, which need
  more than 2^18 constants or 25,600 list items. Metatables as what the collector
  and finalizers see are in LuaMark and LuaSweep.
- The operating system's part of io, os and the module loader: contents of files,
  buffering and positions, dates, `dlopen`.
- Upvalues with the last reference joined to itself, and the other cases named under
  "What the four violated runs show".
- Pacing of the collector (`setpause`, `setmaxstackmem`, `GCdebt`): LuaMark and
  LuaSweep let any number of steps happen at any time.
- `luac.c` and upstream's `lua.c`, which are not part of the program, the
  traceability script `libtool.py`, the build rules, and the submodules `linenoise`
  and `luatablegen`, which are not in the tree.
