------------------------------- MODULE Shell -------------------------------
(***************************************************************************)
(* The interactive shell: the loop of main.c, the chunk runner of lua.c    *)
(* (docall, report, laction, lstop) and the debug-hook machinery of the    *)
(* embedded interpreter through which a Ctrl-C reaches a running chunk.    *)
(*                                                                         *)
(* The signal handler runs asynchronously: the action Sigint may occur     *)
(* between any two steps of the program, so a library function that writes *)
(* two hook fields is two actions.  The line editor is external; it is     *)
(* what main.c makes of it: an in-memory history, a file it is saved to,   *)
(* and calls back into shell_hint at every key stroke.                     *)
(***************************************************************************)
EXTENDS Integers, Sequences

CONSTANTS
  Commands,         \* lines a user may enter
  NoCommand,        \* not a line: what 'cmd' holds while defaults.lua runs
  HISTORY_MAX_LEN,  \* length of the line editor's history
  UserMasks,        \* the masks a chunk may give debug.sethook: "calls", "all"
  LUA_MINSTACK,     \* stack slots a C function, or the base level, may use
  MaxEntered,       \* bound: lines entered in a behaviour
  MaxSignals,       \* bound: SIGINTs delivered in a behaviour
  MaxDepth,         \* bound: nested pcalls, hooks, finalizers and resumes
  MaxHints,         \* bound: hints taken from the global table
  MaxRestarts       \* bound: times the program is started again

ASSUME CommandsAssumption == NoCommand \notin Commands
ASSUME MasksAssumption == UserMasks \subseteq {"calls", "all"}
ASSUME BoundsAssumption ==
  /\ HISTORY_MAX_LEN \in Nat \ {0}
  /\ {LUA_MINSTACK, MaxEntered, MaxSignals, MaxDepth, MaxHints, MaxRestarts} \subseteq Nat

VARIABLES
  pc,       \* where the main program is
  status,   \* of the chunk: "ok" or "error"
  top,      \* values on the main thread's stack at the base level
  disp,     \* disposition of SIGINT: "default" or "laction"
  hook,     \* per Lua thread: "none", "user" (hookf of ldblib.c) or "lstop"
  mask,     \* per Lua thread: the events that call the hook, one of Masks
  allow,    \* per Lua thread: allowhook
  frames,   \* pcalls, hooks, finalizers and resumes in progress, innermost last
  setting,  \* what a lua_sethook in progress has still to do, or an unwinding
  co,       \* the one coroutine: "none", "fresh", "suspended", "running", "dead"
  cmd,      \* the line being processed
  mem,      \* the line editor's history
  disk,     \* the history file
  ghost     \* bookkeeping for the properties and the bounds

vars == <<pc, status, top, disp, hook, mask, allow, frames, setting, co, cmd,
          mem, disk, ghost>>

hooks  == <<hook, mask, allow, setting, co>>
luaEnv == <<hooks, frames>>
lines  == <<cmd, mem, disk>>

Threads == {"main", "co"}

\* No event; calls and returns only, which a loop need not have; or instructions or
\* lines too, which all code that runs on has.  lstop's mask is of the last kind.
Masks == {"none", "calls", "all"}

\* A lua_sethook that has written 'hook' and not yet 'hookmask' is a record;
\* "throwing" is an error on its way to the innermost protected call.
Idle     == [then |-> "idle",  thread |-> "main", mask |-> "none"]
Throwing == [then |-> "throw", thread |-> "main", mask |-> "none"]
Setting(t, m, then) == [then |-> then, thread |-> t, mask |-> m]

\* The Lua thread that executes: the coroutine inside a resume.
Current(fs) == IF \E i \in DOMAIN fs : fs[i].kind = "resume" THEN "co" ELSE "main"

Top == frames[Len(frames)]
Rest == SubSeq(frames, 1, Len(frames) - 1)

-----------------------------------------------------------------------------
(* Starting, and the prompt.                                               *)

NoGhost == [entered |-> 0, signals |-> 0, handled |-> 0, stopped |-> 0,
            hints |-> 0, restarts |-> 0, incall |-> 0]

Init ==
  /\ pc = "load" /\ status = "ok" /\ top = 0 /\ disp = "default"
  /\ hook = [t \in Threads |-> "none"] /\ mask = [t \in Threads |-> "none"]
  /\ allow = [t \in Threads |-> TRUE]
  /\ frames = <<>> /\ setting = Idle /\ co = "none"
  /\ cmd = NoCommand /\ mem = <<>> /\ disk = <<>>
  /\ ghost = NoGhost

\* The process ends and its memory is gone; the history file and the bounds stay.
Dies ==
  /\ pc' = "dead" /\ status' = "ok" /\ top' = 0 /\ disp' = "default"
  /\ hook' = [t \in Threads |-> "none"] /\ mask' = [t \in Threads |-> "none"]
  /\ allow' = [t \in Threads |-> TRUE]
  /\ frames' = <<>> /\ setting' = Idle /\ co' = "none"
  /\ cmd' = NoCommand /\ mem' = <<>> /\ disk' = disk

\* A new process: the history is read back and a new Lua state is made; the
\* first chunk is defaults.lua.
Restart ==
  /\ pc = "dead" /\ ghost.restarts < MaxRestarts
  /\ pc' = "load"
  /\ mem' = disk
  /\ ghost' = [ghost EXCEPT !.restarts = @ + 1, !.hints = 0]
  /\ UNCHANGED <<status, top, disp, luaEnv, cmd, disk>>

\* A key stroke whose word matches no built-in name but a global one: the
\* function returns from inside the traversal, over the table, key and value.
shell_hint ==
  /\ pc = "prompt" /\ ghost.hints < MaxHints
  /\ top' = top + 3
  /\ ghost' = [ghost EXCEPT !.hints = @ + 1]
  /\ UNCHANGED <<pc, status, disp, luaEnv, lines>>

\* The line editor drops its oldest line when full and ignores a repeated one.
linenoiseHistoryAdd(h, c) ==
  IF h # <<>> /\ h[Len(h)] = c THEN h
  ELSE IF Len(h) < HISTORY_MAX_LEN THEN Append(h, c)
  ELSE Append(Tail(h), c)

\* Mutant: the line runs before it is saved.
EnterLine_unsaved(c) ==
  /\ pc = "prompt" /\ ghost.entered < MaxEntered
  /\ cmd' = c /\ mem' = linenoiseHistoryAdd(mem, c) /\ pc' = "load"
  /\ ghost' = [ghost EXCEPT !.entered = @ + 1]
  /\ UNCHANGED <<status, top, disp, luaEnv, disk>>

EnterLine(c) ==
  /\ pc = "prompt" /\ ghost.entered < MaxEntered
  /\ cmd' = c
  /\ mem' = linenoiseHistoryAdd(mem, c)
  /\ pc' = "save"
  /\ ghost' = [ghost EXCEPT !.entered = @ + 1]
  /\ UNCHANGED <<status, top, disp, luaEnv, disk>>

HistorySave ==
  /\ pc = "save"
  /\ disk' = mem
  /\ pc' = "load"
  /\ UNCHANGED <<status, top, disp, luaEnv, cmd, mem, ghost>>

\* End of input at the prompt: main returns.
EndOfInput ==
  /\ pc = "prompt"
  /\ Dies
  /\ UNCHANGED ghost

-----------------------------------------------------------------------------
(* Running a chunk.                                                        *)

\* luaL_loadfile or luaL_loadbuffer leaves the chunk, or an error message.
Load(s) ==
  /\ pc = "load"
  /\ status' = s
  /\ top' = top + 1
  /\ pc' = IF s = "ok" THEN "docall" ELSE "report"
  /\ UNCHANGED <<disp, luaEnv, lines, ghost>>

\* Mutant: SIGINT keeps its default disposition.
docall_unhandled ==
  /\ pc = "docall"
  /\ top' = top + 1 /\ pc' = "run"
  /\ ghost' = [ghost EXCEPT !.incall = 0]
  /\ UNCHANGED <<status, disp, luaEnv, lines>>

\* The message handler goes under the chunk; then SIGINT gets its handler.
docall ==
  /\ pc = "docall"
  /\ top' = top + 1
  /\ disp' = "laction"
  /\ pc' = "run"
  /\ ghost' = [ghost EXCEPT !.incall = 0]
  /\ UNCHANGED <<status, luaEnv, lines>>

\* Mutant: the message handler stays on the stack.
docall_end_leaks ==
  /\ pc = "docall_end"
  /\ disp' = "default"
  /\ pc' = IF status = "ok" THEN "prompt" ELSE "report"
  /\ UNCHANGED <<status, top, luaEnv, lines, ghost>>

\* After lua_pcall: default disposition again, message handler removed.
docall_end ==
  /\ pc = "docall_end"
  /\ disp' = "default"
  /\ top' = top - 1
  /\ pc' = IF status = "ok" THEN "prompt" ELSE "report"
  /\ UNCHANGED <<status, luaEnv, lines, ghost>>

\* Mutant: pops the message and one value more.
report_twice ==
  /\ pc = "report"
  /\ top' = top - 2
  /\ pc' = "prompt"
  /\ UNCHANGED <<status, disp, luaEnv, lines, ghost>>

report ==
  /\ pc = "report"
  /\ top' = top - 1
  /\ pc' = "prompt"
  /\ UNCHANGED <<status, disp, luaEnv, lines, ghost>>

-----------------------------------------------------------------------------
(* Inside the chunk.                                                       *)

LuaRuns == pc = "run" /\ setting = Idle

Push(kind) == Append(frames, [kind |-> kind, old |-> allow[Current(frames)]])

RoomToNest == Len(frames) < MaxDepth

luaB_pcall ==
  /\ LuaRuns /\ RoomToNest
  /\ frames' = Push("pcall")
  /\ UNCHANGED <<pc, status, top, disp, hooks, lines, ghost>>

\* A finalizer runs with the hooks of its thread disabled.
GCTM ==
  /\ LuaRuns /\ RoomToNest
  /\ frames' = Push("fin")
  /\ allow' = [allow EXCEPT ![Current(frames)] = FALSE]
  /\ UNCHANGED <<pc, status, top, disp, hook, mask, setting, co, lines, ghost>>

\* luaD_hook calls a hook set from Lua.
UserHook ==
  LET t == Current(frames) IN
  /\ LuaRuns /\ RoomToNest
  /\ hook[t] = "user" /\ mask[t] # "none" /\ allow[t]
  /\ frames' = Push("hook")
  /\ allow' = [allow EXCEPT ![t] = FALSE]
  /\ UNCHANGED <<pc, status, top, disp, hook, mask, setting, co, lines, ghost>>

\* Mutant: the hook stays after it has raised its error.
lstop_again ==
  LET t == Current(frames) IN
  /\ LuaRuns
  /\ hook[t] = "lstop" /\ mask[t] # "none" /\ allow[t]
  /\ allow' = [allow EXCEPT ![t] = FALSE]
  /\ setting' = Throwing
  /\ ghost' = IF t = "main" THEN [ghost EXCEPT !.stopped = @ + 1] ELSE ghost
  /\ UNCHANGED <<pc, status, top, disp, hook, mask, frames, co, lines>>

\* luaD_hook calls lstop, whose lua_sethook has written 'hook'.
lstop ==
  LET t == Current(frames) IN
  /\ LuaRuns
  /\ hook[t] = "lstop" /\ mask[t] # "none" /\ allow[t]
  /\ allow' = [allow EXCEPT ![t] = FALSE]
  /\ hook' = [hook EXCEPT ![t] = "none"]
  /\ setting' = Setting(t, "none", "throw")
  /\ ghost' = IF t = "main" THEN [ghost EXCEPT !.stopped = @ + 1] ELSE ghost
  /\ UNCHANGED <<pc, status, top, disp, mask, frames, co, lines>>

\* debug.sethook on the running thread; a hook without events is none.
db_sethook(h, m) ==
  LET t == Current(frames) IN
  /\ LuaRuns
  /\ hook' = [hook EXCEPT ![t] = h]
  /\ setting' = Setting(t, m, "idle")
  /\ UNCHANGED <<pc, status, top, disp, mask, allow, frames, co, lines, ghost>>

\* The last store of lua_sethook; lstop goes on to raise its error.
SetHookMask ==
  /\ pc = "run" /\ setting \notin {Idle, Throwing}
  /\ mask' = [mask EXCEPT ![setting.thread] = setting.mask]
  /\ setting' = IF setting.then = "throw" THEN Throwing ELSE Idle
  /\ UNCHANGED <<pc, status, top, disp, hook, allow, frames, co, lines, ghost>>

\* A new thread copies the hook and the mask of its creator.
lua_newthread ==
  LET t == Current(frames) IN
  /\ LuaRuns /\ co # "running"
  /\ co' = "fresh"
  /\ hook' = [hook EXCEPT !["co"] = hook[t]]
  /\ mask' = [mask EXCEPT !["co"] = mask[t]]
  /\ allow' = [allow EXCEPT !["co"] = TRUE]
  /\ UNCHANGED <<pc, status, top, disp, frames, setting, lines, ghost>>

lua_resume ==
  /\ LuaRuns /\ RoomToNest
  /\ co \in {"fresh", "suspended"}
  /\ co' = "running"
  /\ frames' = Push("resume")
  /\ UNCHANGED <<pc, status, top, disp, hook, mask, allow, setting, lines, ghost>>

lua_yield ==
  /\ LuaRuns /\ frames # <<>> /\ Top.kind = "resume"
  /\ co' = "suspended"
  /\ frames' = Rest
  /\ UNCHANGED <<pc, status, top, disp, hook, mask, allow, setting, lines, ghost>>

\* Mutant: hooks stay off after a finalizer.
AllowReturned_fin(t) == IF Top.kind = "hook" THEN [allow EXCEPT ![t] = TRUE] ELSE allow

\* allowhook after a normal return: a finalizer's caller puts its old value
\* back, luaD_hook always sets it.
AllowReturned(t) ==
  CASE Top.kind = "fin"  -> [allow EXCEPT ![t] = Top.old]
    [] Top.kind = "hook" -> [allow EXCEPT ![t] = TRUE]
    [] OTHER             -> allow

\* The innermost pcall, hook, finalizer or coroutine returns normally.
Return ==
  LET t == Current(frames) IN
  /\ LuaRuns /\ frames # <<>>
  /\ allow' = AllowReturned(t)
  /\ co' = IF Top.kind = "resume" THEN "dead" ELSE co
  /\ frames' = Rest
  /\ UNCHANGED <<pc, status, top, disp, hook, mask, setting, lines, ghost>>

lua_error ==
  /\ LuaRuns
  /\ setting' = Throwing
  /\ UNCHANGED <<pc, status, top, disp, hook, mask, allow, frames, co, lines, ghost>>

\* Mutant: allowhook stays as the error found it.
AllowUnwound_kept(t) == allow

\* allowhook after an error: luaD_pcall and GCTM put their old value back.
AllowUnwound(t) ==
  IF Top.kind \in {"pcall", "fin"} THEN [allow EXCEPT ![t] = Top.old] ELSE allow

\* An error reaches the innermost frame.  A pcall catches it and gets back the
\* allowhook it started with; a finalizer's caller puts its own back and raises
\* it again; a hook is left by the jump; a coroutine dies, and its resume either
\* returns the error or (wrap) raises it again.
Unwind(rethrow) ==
  LET t == Current(frames) IN
  /\ pc = "run" /\ setting = Throwing /\ frames # <<>>
  /\ rethrow => Top.kind = "resume"
  /\ allow' = AllowUnwound(t)
  /\ co' = IF Top.kind = "resume" THEN "dead" ELSE co
  /\ setting' = IF Top.kind \in {"pcall", "resume"} /\ ~rethrow THEN Idle ELSE setting
  /\ frames' = Rest
  /\ UNCHANGED <<pc, status, top, disp, hook, mask, lines, ghost>>

\* The lua_pcall of docall: the chunk returned, its slot is gone; or an error
\* reached it, a message takes the slot and allowhook is restored.
ChunkReturns ==
  /\ LuaRuns /\ frames = <<>>
  /\ status' = "ok"
  /\ top' = top - 1
  /\ pc' = "docall_end"
  /\ UNCHANGED <<disp, luaEnv, lines, ghost>>

ChunkFails ==
  /\ pc = "run" /\ setting = Throwing /\ frames = <<>>
  /\ status' = "error"
  /\ allow' = [allow EXCEPT !["main"] = TRUE]
  /\ setting' = Idle
  /\ pc' = "docall_end"
  /\ UNCHANGED <<top, disp, hook, mask, co, frames, lines, ghost>>

\* os.exit.
os_exit ==
  /\ LuaRuns
  /\ Dies
  /\ UNCHANGED ghost

-----------------------------------------------------------------------------
(* SIGINT.                                                                 *)

laction ==
  /\ disp = "laction"
  /\ disp' = "default"
  /\ hook' = [hook EXCEPT !["main"] = "lstop"]
  /\ mask' = [mask EXCEPT !["main"] = "all"]
  /\ ghost' = [ghost EXCEPT !.signals = @ + 1, !.handled = @ + 1, !.incall = @ + 1]
  /\ UNCHANGED <<pc, status, top, allow, frames, setting, co, lines>>

KilledBySigint ==
  /\ disp = "default"
  /\ Dies
  /\ ghost' = [ghost EXCEPT !.signals = @ + 1]

Sigint ==
  /\ pc # "dead" /\ ghost.signals < MaxSignals
  /\ laction \/ KilledBySigint

-----------------------------------------------------------------------------
LuaStep ==
  \/ luaB_pcall \/ GCTM \/ UserHook \/ lstop
  \/ db_sethook("none", "none") \/ \E m \in UserMasks : db_sethook("user", m)
  \/ SetHookMask \/ lua_newthread \/ lua_resume \/ lua_yield
  \/ Return \/ lua_error \/ \E rethrow \in BOOLEAN : Unwind(rethrow)
  \/ ChunkReturns \/ ChunkFails \/ os_exit

Next ==
  \/ Restart \/ shell_hint \/ \E c \in Commands : EnterLine(c)
  \/ HistorySave \/ EndOfInput
  \/ \E s \in {"ok", "error"} : Load(s)
  \/ docall \/ docall_end \/ report
  \/ LuaStep
  \/ Sigint

Spec == Init /\ [][Next]_vars

\* A thread that keeps running keeps reaching events if its mask has instructions or
\* lines: nothing is assumed of a hook that only calls and returns reach.  A store of
\* lua_sethook and an unwinding are finished; and what runs with hooks disabled or in a
\* coroutine returns (an assumption on user code).
Fairness ==
  /\ WF_vars(SetHookMask)
  /\ WF_vars(\E rethrow \in BOOLEAN : Unwind(rethrow))
  /\ WF_vars(ChunkFails)
  /\ \A t \in Threads : SF_vars(Current(frames) = t /\ mask[t] = "all" /\ lstop)
  /\ \A d \in 1..MaxDepth :
       SF_vars(/\ Len(frames) = d
               /\ \E i \in 1..d : frames[i].kind # "pcall"
               /\ Return)

FairSpec == Spec /\ Fairness

-----------------------------------------------------------------------------
(* Properties.                                                             *)

\* Every variable keeps its type: the pc is one of the program's points, a
\* frame records a kind and the allowhook it found.
TypeOK ==
  /\ pc \in {"prompt", "save", "load", "docall", "run", "docall_end", "report", "dead"}
  /\ status \in {"ok", "error"} /\ top \in Nat /\ disp \in {"default", "laction"}
  /\ hook \in [Threads -> {"none", "user", "lstop"}]
  /\ mask \in [Threads -> Masks] /\ allow \in [Threads -> BOOLEAN]
  /\ frames \in Seq([kind : {"pcall", "fin", "hook", "resume"}, old : BOOLEAN])
  /\ setting \in [then : {"idle", "throw"}, thread : Threads, mask : Masks]
  /\ co \in {"none", "fresh", "suspended", "running", "dead"}
  /\ cmd \in Commands \cup {NoCommand} /\ mem \in Seq(Commands) /\ disk \in Seq(Commands)

\* One SIGINT handled by laction raises at most one "interrupted!" on the main
\* thread, in this chunk or a later one: lstop disarms itself before its error.
InterruptOnce ==
  ghost.stopped + (IF hook["main"] = "lstop" THEN 1 ELSE 0) <= ghost.handled

\* Hooks are off in a thread exactly while it runs a hook or a finalizer: no
\* error, however deep, leaves them off (Ctrl-C would never work again).
HooksComeBack ==
  setting = Idle /\ pc # "dead" =>
    /\ pc # "run" => frames = <<>>
    /\ allow["main"] <=> \A i \in DOMAIN frames :
         frames[i].kind \in {"hook", "fin"} => \E j \in 1..i : frames[j].kind = "resume"

\* Between two lines every value the shell pushed is popped again, whether the
\* line did not compile, failed, was interrupted or returned; only hints leak.
StackBalanced == pc \in {"prompt", "save"} => top = 3 * ghost.hints

\* When a line runs it is already in the history file, so neither a crash nor
\* os.exit in it loses it.
RunningLineIsSaved ==
  pc \in {"load", "docall", "run", "docall_end", "report"} /\ cmd # NoCommand =>
    disk # <<>> /\ disk[Len(disk)] = cmd

\* SIGINT ends the program while a chunk runs only if an earlier SIGINT of the
\* same chunk was already turned into a hook (lua.c: "if another SIGINT
\* happens, terminate process").
FirstInterruptSurvives ==
  [][pc = "run" /\ pc' = "dead" /\ ghost' # ghost => ghost.incall = 1]_vars

\* laction's hook and its mask are both in place.
Armed == pc = "run" /\ hook["main"] = "lstop" /\ mask["main"] = "all"

\* An interrupt whose hook and mask are both in place stops the chunk, unless user code
\* sets a hook itself: hooks disabled by finalizers and errors come back.  A SIGINT that
\* falls between the two stores of a lua_sethook of the chunk (ldebug.c:88-91) is not
\* such an interrupt: lstop stays with the mask of the chunk's call.  If that is of
\* calls only, a loop that calls nothing goes on, until a second SIGINT ends the process.
InterruptStopsChunk == Armed ~> ~Armed

\* lapi.h asserts after every push that the stack stays within the frame.
WithinFrame == top <= LUA_MINSTACK
=============================================================================
